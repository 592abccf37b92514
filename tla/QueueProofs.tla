---------------------------- MODULE QueueProofs -----------------------------
(***************************************************************************)
(* Queue, proved for every set of data, every pool, every capacity and     *)
(* every word size.  The invariant ties the undo log to the last commit,   *)
(* so that a rollback can be treated as a return to it, and carries the    *)
(* bounds of the counters through the calls.                               *)
(***************************************************************************)
EXTENDS Queue, PmemTxLemmas, FiniteSetTheorems, SequenceTheorems

(* Image m holds no queue, or one whose counters are in range. *)
QueueOK(m) ==
  QueueExists(m) =>
    /\ {<<"queue", "front", 0>>, <<"queue", "back", 0>>, <<"queue", "capacity", 0>>}
         \subseteq DOMAIN m
    /\ Front(m) \in 0 .. Word - 1 /\ Back(m) \in 0 .. Word - 1
    /\ Capacity(m) \in Capacities
    /\ \A i \in 0 .. Capacity(m) - 1 : /\ <<"queue", "entries", i>> \in DOMAIN m
                                       /\ Slot(m, i) \in Entries \cup {Garbage}
    /\ queue_size(m) <= Capacity(m)

ImageOK(m) == QueueOK(m) /\ Objects(m) \subseteq Entries \cup {"queue"}

(* What a call knows where it is. *)
FrameOK ==
  /\ f = [data |-> f.data, pos |-> f.pos, entry |-> f.entry]
  /\ pc # "idle" => QueueExists(pm.mem)
  /\ pc = "enq_back" => queue_size(pm.mem) < Capacity(pm.mem)
  /\ pc = "deq_front" => queue_size(pm.mem) > 0
  /\ pc \in {"deq_front", "deq_free"} => f.pos \in 0 .. Capacity(pm.mem) - 1
  /\ pc = "enq_slot" => f.entry \in Entries

QInv ==
  /\ IsTx(pm) /\ RollbackExact
  /\ ImageOK(pm.mem) /\ ImageOK(durable)
  /\ pm.fresh \subseteq Entries /\ pm.doomed \subseteq Entries \cup {Garbage}
  /\ pc \in {"idle", "enq_back", "enq_new", "enq_slot", "deq_front", "deq_free", "commit"}
  /\ ret \in {0, -1}
  /\ FrameOK
-----------------------------------------------------------------------------
(* queue_size: the difference of two words, modulo the word size. *)
LEMMA SubWrap ==
  ASSUME NEW W \in Nat \ {0}, NEW a \in 0 .. W - 1, NEW b \in 0 .. W - 1
  PROVE  (a - b) % W = IF a >= b THEN a - b ELSE a - b + W
  OBVIOUS

(* back++ and front++, modulo the word size. *)
LEMMA SuccWrap ==
  ASSUME NEW W \in Nat \ {0}, NEW a \in 0 .. W - 1
  PROVE  (a + 1) % W = IF a = W - 1 THEN 0 ELSE a + 1
  OBVIOUS

(* Moving back away from front makes the distance one larger, moving front
   towards back makes it one smaller. *)
LEMMA Distance ==
  ASSUME NEW W \in Nat \ {0}, NEW a \in 0 .. W - 1, NEW b \in 0 .. W - 1
  PROVE  /\ (a - b) % W \in 0 .. W - 1
         /\ (a - b) % W < W - 1 => (((a + 1) % W) - b) % W = ((a - b) % W) + 1
         /\ (a - b) % W > 0 => (a - ((b + 1) % W)) % W = ((a - b) % W) - 1
<1> DEFINE a1 == (a + 1) % W
           b1 == (b + 1) % W
           d  == (a - b) % W
<1>1. a1 \in 0 .. W - 1 /\ a1 = IF a = W - 1 THEN 0 ELSE a + 1
  BY SuccWrap
<1>2. b1 \in 0 .. W - 1 /\ b1 = IF b = W - 1 THEN 0 ELSE b + 1
  BY SuccWrap
<1>3. d = IF a >= b THEN a - b ELSE a - b + W
  BY SubWrap
<1>4. (a1 - b) % W = IF a1 >= b THEN a1 - b ELSE a1 - b + W
  <2> HIDE DEF a1
  <2> QED BY <1>1, SubWrap
<1>5. (a - b1) % W = IF a >= b1 THEN a - b1 ELSE a - b1 + W
  <2> HIDE DEF b1
  <2> QED BY <1>2, SubWrap
<1> HIDE DEF a1, b1, d
<1>6. d \in 0 .. W - 1
  BY <1>3
<1>7. d < W - 1 => (IF a1 >= b THEN a1 - b ELSE a1 - b + W) = d + 1
  BY <1>1, <1>3
<1>8. d > 0 => (IF a >= b1 THEN a - b1 ELSE a - b1 + W) = d - 1
  BY <1>2, <1>3
<1> QED
  BY <1>4, <1>5, <1>6, <1>7, <1>8 DEF a1, b1, d
-----------------------------------------------------------------------------
(* Images. *)

(* Two images that agree on the queue object hold the same queue. *)
LEMMA SameQueue ==
  ASSUME NEW m, NEW n,
         LocsOf(n, {"queue"}) = LocsOf(m, {"queue"}),
         \A l \in LocsOf(m, {"queue"}) : n[l] = m[l]
  PROVE  /\ QueueOK(m) => QueueOK(n)
         /\ QueueExists(m) <=> QueueExists(n)
         /\ QueueExists(m) /\ QueueOK(m) =>
              queue_size(n) = queue_size(m) /\ Capacity(n) = Capacity(m)
<1>1. QueueExists(m) <=> QueueExists(n)
  BY DEF QueueExists, Objects, LocsOf
<1>2. ASSUME QueueExists(m), QueueOK(m)
      PROVE  /\ QueueOK(n)
             /\ queue_size(n) = queue_size(m) /\ Capacity(n) = Capacity(m)
  <2>1. \A l \in DOMAIN m : l[1] = "queue" => l \in DOMAIN n /\ n[l] = m[l]
    BY DEF LocsOf
  <2>2. Front(n) = Front(m) /\ Back(n) = Back(m) /\ Capacity(n) = Capacity(m)
    BY <1>2, <2>1 DEF QueueOK, Front, Back, Capacity
  <2>3. \A i \in 0 .. Capacity(m) - 1 :
          <<"queue", "entries", i>> \in DOMAIN n /\ Slot(n, i) = Slot(m, i)
    BY <1>2, <2>1 DEF QueueOK, Slot
  <2>4. {<<"queue", "front", 0>>, <<"queue", "back", 0>>, <<"queue", "capacity", 0>>}
          \subseteq DOMAIN n
    BY <1>2, <2>1 DEF QueueOK
  <2> QED
    BY <1>2, <2>2, <2>3, <2>4 DEF QueueOK, queue_size
<1> QED
  BY <1>1, <1>2 DEF QueueOK

(* A queue just constructed is empty. *)
LEMMA NewQueue ==
  ASSUME NEW c \in Capacities
  PROVE  LET m == queue_constructor(c)
         IN  ImageOK(m) /\ QueueExists(m)
<1> DEFINE m == queue_constructor(c)
           locs == {<<"queue", fld, 0>> : fld \in {"front", "back", "capacity"}}
                     \cup {<<"queue", "entries", i>> : i \in 0 .. c - 1}
<1>1. DOMAIN m = locs
  BY DEF queue_constructor
<1>2. /\ Front(m) = 0 /\ Back(m) = 0 /\ Capacity(m) = c
      /\ \A i \in 0 .. c - 1 : Slot(m, i) = Garbage
  BY DEF queue_constructor, Front, Back, Capacity, Slot
<1>3. queue_size(m) = 0
  BY <1>2, QueueAssumption, SubWrap DEF queue_size
<1>4. \A l \in locs : l[1] = "queue"
  OBVIOUS
<1>5. Objects(m) = {"queue"}
  BY <1>1, <1>4 DEF Objects
<1>6. /\ {<<"queue", "front", 0>>, <<"queue", "back", 0>>, <<"queue", "capacity", 0>>}
           \subseteq DOMAIN m
      /\ \A i \in 0 .. c - 1 : <<"queue", "entries", i>> \in DOMAIN m
  BY <1>1
<1>7. c \in Nat /\ 0 \in 0 .. Word - 1
  BY QueueAssumption
<1> HIDE DEF m
<1>8. QueueOK(m)
  BY <1>2, <1>3, <1>6, <1>7 DEF QueueOK
<1> QED
  BY <1>5, <1>8 DEF ImageOK, QueueExists, m

(* Images that differ only in entries, or in which entries appear. *)
LEMMA EntriesOnly ==
  ASSUME NEW m, NEW n, NEW E, E \subseteq Entries \cup {Garbage}, ImageOK(m),
         DOMAIN n \cup LocsOf(m, E) = DOMAIN m \cup LocsOf(n, E),
         \A l \in DOMAIN m \cap DOMAIN n : l[1] \notin E => n[l] = m[l],
         Objects(n) \subseteq Entries \cup {"queue"}
  PROVE  /\ ImageOK(n) /\ (QueueExists(m) <=> QueueExists(n))
         /\ QueueExists(m) => queue_size(n) = queue_size(m) /\ Capacity(n) = Capacity(m)
<1>1. "queue" \notin E
  BY QueueAssumption
<1>2. LocsOf(n, {"queue"}) = LocsOf(m, {"queue"})
  BY <1>1 DEF LocsOf
<1>3. \A l \in LocsOf(m, {"queue"}) : n[l] = m[l]
  BY <1>1, <1>2 DEF LocsOf
<1> QED
  BY <1>2, <1>3, SameQueue DEF ImageOK

(* Releasing entries leaves the queue object alone. *)
LEMMA ReleaseEntries ==
  ASSUME NEW m, NEW E, E \subseteq Entries \cup {Garbage}, ImageOK(m)
  PROVE  LET n == Without(m, E)
         IN  ImageOK(n) /\ (QueueExists(m) <=> QueueExists(n))
<1> DEFINE n == Without(m, E)
<1>1. DOMAIN n = DOMAIN m \ LocsOf(m, E) /\ \A l \in DOMAIN n : n[l] = m[l]
  BY DEF Without
<1>2. DOMAIN n \cup LocsOf(m, E) = DOMAIN m \cup LocsOf(n, E)
  BY <1>1 DEF LocsOf
<1>3. Objects(n) \subseteq Entries \cup {"queue"}
  BY <1>1 DEF Objects, ImageOK
<1> HIDE DEF n
<1> QED
  BY <1>1, <1>2, <1>3, EntriesOnly DEF n

(* TX_ADD_DIRECT and the store after it. *)
LEMMA SetFieldFacts ==
  ASSUME IsTx(pm), NEW l, NEW v
  PROVE  LET q == SetField(l, v)
         IN  /\ IsTx(q) /\ Recovered(q) = Recovered(pm)
             /\ q.mem = [pm.mem EXCEPT ![l] = v]
             /\ q.fresh = pm.fresh /\ q.doomed = pm.doomed
<1> DEFINE p == TxAdd(pm, {l})
<1>1. /\ IsTx(p) /\ p.mem = pm.mem /\ p.fresh = pm.fresh /\ p.doomed = pm.doomed
      /\ DOMAIN p.undo = DOMAIN pm.undo \cup
           {x \in {l} \cap DOMAIN pm.mem : x[1] \notin pm.fresh}
  BY TxAddFields
<1>2. Recovered(p) = Recovered(pm)
  BY TxAddRecovered
<1>3. Covered(p, l)
  BY <1>1 DEF Covered
<1> HIDE DEF p
<1>4. Recovered(Store(p, l, v)) = Recovered(p)
  BY <1>1, <1>3, StoreRecovered
<1>5. LET q == Store(p, l, v)
      IN  /\ IsTx(q) /\ q.mem = [p.mem EXCEPT ![l] = v]
          /\ q.undo = p.undo /\ q.fresh = p.fresh /\ q.doomed = p.doomed
  BY <1>1, StoreFields
<1> QED
  BY <1>1, <1>2, <1>4, <1>5 DEF SetField, p
-----------------------------------------------------------------------------
(* The invariant. *)

(* The invariant holds before queue_new. *)
LEMMA QueueInit == Init => QInv
<1> SUFFICES ASSUME Init PROVE QInv
  OBVIOUS
<1>1. durable = [l \in {} |-> durable[l]] /\ DOMAIN durable = {}
  BY DEF Init
<1>2. pm = NoTx(durable)
  BY DEF Init
<1>3. /\ IsTx(pm) /\ pm.mem = durable /\ pm.fresh = {} /\ pm.doomed = {}
  BY <1>2, NoTxFields
<1>4. RollbackExact
  BY <1>1, <1>2, NoTxRecovered DEF RollbackExact
<1>5. ImageOK(durable)
  BY <1>1 DEF ImageOK, QueueOK, QueueExists, Objects
<1> QED
  BY <1>3, <1>4, <1>5 DEF QInv, FrameOK, NoFrame, Init

(* Going back to the last commit. *)
LEMMA BackToDurable ==
  ASSUME QInv, pm' = Rollback(pm), durable' = durable,
         pc' = "idle", f' = NoFrame, ret' \in {0, -1}
  PROVE  QInv'
<1>1. Rollback(pm) = NoTx(durable)
  BY DEF QInv, RollbackExact, Rollback
<1>2. /\ IsTx(pm') /\ pm'.mem = durable' /\ pm'.fresh = {} /\ pm'.doomed = {}
  BY <1>1, NoTxFields
<1>3. RollbackExact'
  BY RollbackRecovered DEF QInv, RollbackExact
<1> QED
  BY <1>2, <1>3 DEF QInv, FrameOK, NoFrame, ImageOK, QueueOK, QueueExists, Objects,
     Front, Back, Capacity, Slot, queue_size

(* queue_new publishes an empty queue or nothing. *)
LEMMA NewStep ==
  ASSUME QInv, NEW c \in Capacities, queue_new(c)
  PROVE  QInv'
<1>1. CASE durable' = queue_constructor(c) /\ pm' = NoTx(durable') /\ ret' = 0
  <2>1. ImageOK(durable')
    BY <1>1, NewQueue
  <2>2. /\ IsTx(pm') /\ pm'.mem = durable' /\ pm'.fresh = {} /\ pm'.doomed = {}
    BY <1>1, NoTxFields
  <2>3. durable' = [l \in DOMAIN durable' |-> durable'[l]]
    BY <1>1 DEF queue_constructor
  <2>4. RollbackExact'
    BY <1>1, <2>3, NoTxRecovered DEF RollbackExact
  <2> QED
    BY <1>1, <2>1, <2>2, <2>4 DEF QInv, FrameOK, queue_new
<1>2. CASE ret' = -1 /\ UNCHANGED <<pm, durable>>
  BY <1>2 DEF QInv, FrameOK, RollbackExact, queue_new
<1> QED
  BY <1>1, <1>2 DEF queue_new

(* The calls up to TX_BEGIN only compute a position, which is a slot. *)
LEMMA CallStep ==
  ASSUME QInv, (\E d \in Data : queue_enqueue(d)) \/ queue_dequeue
  PROVE  QInv'
<1>1. UNCHANGED <<pm, durable>>
  BY DEF queue_enqueue, queue_dequeue
<1>2. CASE ret' = -1 /\ UNCHANGED <<pc, f>>
  BY <1>1, <1>2 DEF QInv, FrameOK, RollbackExact
<1>3. ASSUME NEW d \in Data, queue_enqueue(d), pc' = "enq_back"
      PROVE  QInv'
  <2>1. QueueExists(pm.mem) /\ queue_size(pm.mem) # Capacity(pm.mem) /\ ret' = ret
    BY <1>3 DEF queue_enqueue, Full
  <2>2. queue_size(pm.mem) < Capacity(pm.mem)
    BY <2>1, QueueAssumption DEF QInv, ImageOK, QueueOK, queue_size
  <2>3. f' = [data |-> f'.data, pos |-> f'.pos, entry |-> f'.entry]
    BY <1>3 DEF queue_enqueue, NoFrame
  <2> QED
    BY <1>1, <1>3, <2>1, <2>2, <2>3 DEF QInv, FrameOK, RollbackExact
<1>4. ASSUME queue_dequeue, pc' = "deq_front"
      PROVE  QInv'
  <2>1. /\ QueueExists(pm.mem) /\ queue_size(pm.mem) # 0 /\ ret' = ret
        /\ f' = [NoFrame EXCEPT !.pos = Front(pm.mem) % Capacity(pm.mem)]
    BY <1>4 DEF queue_dequeue
  <2>2. /\ Front(pm.mem) \in Nat /\ Back(pm.mem) \in Nat /\ Capacity(pm.mem) \in Nat
        /\ queue_size(pm.mem) <= Capacity(pm.mem)
    BY <2>1, QueueAssumption DEF QInv, ImageOK, QueueOK
  <2>3. queue_size(pm.mem) \in Nat /\ queue_size(pm.mem) > 0
    BY <2>1, <2>2, QueueAssumption DEF queue_size
  <2>4. Front(pm.mem) % Capacity(pm.mem) \in 0 .. Capacity(pm.mem) - 1
    BY <2>2, <2>3
  <2>5. /\ f'.pos = Front(pm.mem) % Capacity(pm.mem)
        /\ f' = [data |-> f'.data, pos |-> f'.pos, entry |-> f'.entry]
    BY <2>1 DEF NoFrame
  <2> QED
    BY <1>1, <1>4, <2>1, <2>3, <2>4, <2>5 DEF QInv, FrameOK, RollbackExact
<1> QED
  BY <1>2, <1>3, <1>4 DEF queue_enqueue, queue_dequeue

(* back++ : there was room, so the distance stays within the capacity. *)
LEMMA BackStep ==
  ASSUME QInv, EnqueueBack
  PROVE  QInv'
<1> DEFINE m == pm.mem
           n == pm'.mem
           l == <<"queue", "back", 0>>
<1>1. /\ IsTx(pm') /\ Recovered(pm') = Recovered(pm)
      /\ n = [m EXCEPT ![l] = Succ(Back(m))]
      /\ pm'.fresh = pm.fresh /\ pm'.doomed = pm.doomed
  BY ZenonT(40), SetFieldFacts DEF EnqueueBack, QInv
<1>2. QueueExists(m) /\ ImageOK(m) /\ queue_size(m) < Capacity(m)
  BY DEF QInv, FrameOK, EnqueueBack
<1>3. DOMAIN n = DOMAIN m /\ l \in DOMAIN m
  BY <1>1, <1>2 DEF ImageOK, QueueOK
<1>4. /\ Front(n) = Front(m) /\ Capacity(n) = Capacity(m)
      /\ Back(n) = Succ(Back(m))
      /\ \A i \in 0 .. Capacity(m) - 1 : Slot(n, i) = Slot(m, i)
  BY <1>1, <1>2, <1>3 DEF Front, Back, Capacity, Slot, ImageOK, QueueOK
<1>5. /\ Back(n) \in 0 .. Word - 1 /\ queue_size(n) = queue_size(m) + 1
      /\ Capacity(m) \in Nat /\ queue_size(m) \in Nat
  <2>1. /\ Front(m) \in 0 .. Word - 1 /\ Back(m) \in 0 .. Word - 1
        /\ Capacity(m) \in Nat /\ Capacity(m) < Word /\ Word \in Nat \ {0}
    BY <1>2, QueueAssumption DEF ImageOK, QueueOK
  <2>2. Succ(Back(m)) \in 0 .. Word - 1
    BY <2>1, SuccWrap DEF Succ
  <2>3. queue_size(m) \in 0 .. Word - 1 /\ queue_size(m) < Word - 1
    BY <1>2, <2>1, Distance DEF queue_size
  <2>4. queue_size(n) = queue_size(m) + 1
    BY <1>4, <2>1, <2>3, Distance DEF queue_size, Succ
  <2> QED
    BY <1>4, <2>1, <2>2, <2>3, <2>4
<1>6. QueueExists(n) /\ Objects(n) = Objects(m)
  BY <1>2, <1>3 DEF QueueExists, Objects
<1> HIDE DEF m, n, l
<1>7. ImageOK(n)
  BY <1>2, <1>3, <1>4, <1>5, <1>6 DEF ImageOK, QueueOK
<1> QED
  BY <1>1, <1>6, <1>7 DEF QInv, FrameOK, RollbackExact, EnqueueBack, n

(* front++ : there was an entry, so the distance does not wrap. *)
LEMMA FrontStep ==
  ASSUME QInv, DequeueFront
  PROVE  QInv'
<1> DEFINE m == pm.mem
           n == pm'.mem
           l == <<"queue", "front", 0>>
<1>1. /\ IsTx(pm') /\ Recovered(pm') = Recovered(pm)
      /\ n = [m EXCEPT ![l] = Succ(Front(m))]
      /\ pm'.fresh = pm.fresh /\ pm'.doomed = pm.doomed
  BY ZenonT(40), SetFieldFacts DEF DequeueFront, QInv
<1>2. QueueExists(m) /\ ImageOK(m) /\ queue_size(m) > 0
  BY DEF QInv, FrameOK, DequeueFront
<1>3. DOMAIN n = DOMAIN m /\ l \in DOMAIN m
  BY <1>1, <1>2 DEF ImageOK, QueueOK
<1>4. /\ Back(n) = Back(m) /\ Capacity(n) = Capacity(m)
      /\ Front(n) = Succ(Front(m))
      /\ \A i \in 0 .. Capacity(m) - 1 : Slot(n, i) = Slot(m, i)
  BY <1>1, <1>2, <1>3 DEF Front, Back, Capacity, Slot, ImageOK, QueueOK
<1>5. /\ Front(n) \in 0 .. Word - 1 /\ queue_size(n) = queue_size(m) - 1
      /\ Capacity(m) \in Nat /\ queue_size(m) \in Nat
  <2>1. /\ Front(m) \in 0 .. Word - 1 /\ Back(m) \in 0 .. Word - 1
        /\ Capacity(m) \in Nat /\ Word \in Nat \ {0}
    BY <1>2, QueueAssumption DEF ImageOK, QueueOK
  <2>2. Succ(Front(m)) \in 0 .. Word - 1
    BY <2>1, SuccWrap DEF Succ
  <2>3. queue_size(m) \in 0 .. Word - 1
    BY <2>1, Distance DEF queue_size
  <2>4. queue_size(n) = queue_size(m) - 1
    BY <1>2, <1>4, <2>1, Distance DEF queue_size, Succ
  <2> QED
    BY <1>4, <2>1, <2>2, <2>3, <2>4
<1>6. QueueExists(n) /\ Objects(n) = Objects(m)
  BY <1>2, <1>3 DEF QueueExists, Objects
<1>7. f'.pos \in 0 .. Capacity(n) - 1
  BY <1>4 DEF QInv, FrameOK, DequeueFront
<1> HIDE DEF m, n, l
<1>8. ImageOK(n)
  BY <1>2, <1>3, <1>4, <1>5, <1>6 DEF ImageOK, QueueOK
<1> QED
  BY <1>1, <1>6, <1>7, <1>8 DEF QInv, FrameOK, RollbackExact, DequeueFront, n

(* A new entry does not touch the queue object. *)
LEMMA EntryStep ==
  ASSUME QInv, EnqueueNew
  PROVE  QInv'
<1>1. PICK e \in Entries \ Objects(pm.mem) :
        /\ pm' = TxAlloc(pm, e, [l \in {<<e, "value", 0>>} |-> f.data])
        /\ f' = [f EXCEPT !.entry = e]
  BY DEF EnqueueNew
<1> DEFINE c == [l \in {<<e, "value", 0>>} |-> f.data]
<1>2. /\ IsTx(pm') /\ DOMAIN pm'.mem = DOMAIN pm.mem \cup {<<e, "value", 0>>}
      /\ \A l \in DOMAIN pm.mem \ {<<e, "value", 0>>} : pm'.mem[l] = pm.mem[l]
      /\ pm'.fresh = pm.fresh \cup {e} /\ pm'.doomed = pm.doomed
  <2>1. IsTx(pm) /\ DOMAIN c = {<<e, "value", 0>>}
    BY DEF QInv
  <2> HIDE DEF c
  <2> QED
    BY <1>1, <2>1, TxAllocFields DEF c
<1>3. Recovered(pm') = Recovered(pm)
  <2>1. IsTx(pm) /\ \A l \in DOMAIN c : l[1] = e
    BY DEF QInv
  <2> HIDE DEF c
  <2> QED
    BY <1>1, <2>1, TxAllocRecovered DEF c
<1>4. Objects(pm'.mem) \subseteq Objects(pm.mem) \cup {e}
  <2>1. \A l \in DOMAIN pm'.mem : l \in DOMAIN pm.mem \/ l[1] = e
    BY <1>2
  <2> QED
    BY <2>1 DEF Objects
<1>5. ImageOK(pm'.mem) /\ QueueExists(pm'.mem)
  <2>1. ImageOK(pm.mem) /\ QueueExists(pm.mem)
    BY DEF QInv, FrameOK, EnqueueNew
  <2>2. DOMAIN pm'.mem \cup LocsOf(pm.mem, {e}) = DOMAIN pm.mem \cup LocsOf(pm'.mem, {e})
    BY <1>2 DEF LocsOf
  <2>3. \A l \in DOMAIN pm.mem \cap DOMAIN pm'.mem : l[1] \notin {e} => pm'.mem[l] = pm.mem[l]
    BY <1>2
  <2>4. Objects(pm'.mem) \subseteq Entries \cup {"queue"}
    BY <1>4, <2>1 DEF ImageOK
  <2> QED
    BY <2>1, <2>2, <2>3, <2>4, EntriesOnly
<1>6. f'.entry \in Entries /\ f' = [data |-> f'.data, pos |-> f'.pos, entry |-> f'.entry]
  BY <1>1 DEF QInv, FrameOK
<1> QED
  BY <1>2, <1>3, <1>5, <1>6 DEF QInv, FrameOK, RollbackExact, EnqueueNew

(* The slot gets the new entry; the counters stay. *)
LEMMA SlotStep ==
  ASSUME QInv, EnqueueSlot
  PROVE  QInv'
<1> DEFINE m == pm.mem
           n == pm'.mem
           l == <<"queue", "entries", f.pos>>
<1>1. /\ IsTx(pm') /\ Recovered(pm') = Recovered(pm)
      /\ n = [m EXCEPT ![l] = f.entry]
      /\ pm'.fresh = pm.fresh /\ pm'.doomed = pm.doomed
  BY ZenonT(40), SetFieldFacts DEF EnqueueSlot, QInv
<1>2. QueueExists(m) /\ ImageOK(m) /\ f.entry \in Entries
  BY DEF QInv, FrameOK, EnqueueSlot
<1>3. DOMAIN n = DOMAIN m
  BY <1>1
<1>4. /\ Front(n) = Front(m) /\ Capacity(n) = Capacity(m) /\ Back(n) = Back(m)
  BY <1>1, <1>2 DEF Front, Back, Capacity, ImageOK, QueueOK
<1>5. \A i \in 0 .. Capacity(m) - 1 : Slot(n, i) \in Entries \cup {Garbage}
  BY <1>1, <1>2 DEF Slot, ImageOK, QueueOK
<1>6. QueueExists(n) /\ Objects(n) = Objects(m)
  BY <1>2, <1>3 DEF QueueExists, Objects
<1> HIDE DEF m, n, l
<1>7. ImageOK(n)
  BY <1>2, <1>3, <1>4, <1>5, <1>6 DEF ImageOK, QueueOK, queue_size
<1> QED
  BY <1>1, <1>6, <1>7 DEF QInv, FrameOK, RollbackExact, EnqueueSlot, n

(* What is freed is an entry or a slot never written, never the queue. *)
LEMMA FreeStep ==
  ASSUME QInv, DequeueFree
  PROVE  QInv'
<1> DEFINE e == Slot(pm.mem, f.pos)
<1>1. e \in Entries \cup {Garbage} /\ QueueExists(pm.mem) /\ ImageOK(pm.mem)
  BY DEF QInv, FrameOK, DequeueFree, ImageOK, QueueOK
<1>2. pm' = TxFree(pm, e) /\ IsTx(pm)
  BY DEF DequeueFree, QInv
<1> HIDE DEF e
<1>3. Recovered(pm') = Recovered(pm) /\ IsTx(pm')
  BY <1>2, TxFreeRecovered
<1>4. CASE e \notin pm.fresh
  <2>1. pm'.mem = pm.mem /\ pm'.fresh = pm.fresh /\ pm'.doomed = pm.doomed \cup {e}
    BY <1>2, <1>4, TxFreeLater
  <2> QED
    BY <1>1, <1>3, <2>1 DEF QInv, FrameOK, RollbackExact, DequeueFree
<1>5. CASE e \in pm.fresh
  <2>1. /\ pm'.mem = Without(pm.mem, {e}) /\ pm'.fresh = pm.fresh \ {e}
        /\ pm'.doomed = pm.doomed
    BY <1>2, <1>5, TxFreeFresh
  <2>2. ImageOK(pm'.mem) /\ QueueExists(pm'.mem)
    BY <1>1, <2>1, ReleaseEntries
  <2> QED
    BY <1>3, <2>1, <2>2 DEF QInv, FrameOK, RollbackExact, DequeueFree
<1> QED
  BY <1>4, <1>5

(* TX_END makes the image durable; what it releases is not the queue. *)
LEMMA CommitStep ==
  ASSUME QInv, TxCommit
  PROVE  QInv'
<1>1. /\ IsTx(pm') /\ Recovered(pm') = pm'.mem
      /\ pm'.mem = Without(pm.mem, pm.doomed) /\ pm'.fresh = {} /\ pm'.doomed = {}
  BY CommitRecovered, NoTxFields DEF TxCommit, Commit
<1>2. ImageOK(pm'.mem)
  BY <1>1, ReleaseEntries DEF QInv, FrameOK, TxCommit
<1> QED
  BY <1>1, <1>2 DEF QInv, FrameOK, NoFrame, RollbackExact, TxCommit
-----------------------------------------------------------------------------
(* QInv is inductive: it holds at every step of every call of queue.c, after any
   abort and any crash. *)
THEOREM QueueInvariant == Spec => []QInv
<1>1. QInv /\ [Next]_vars => QInv'
  <2> SUFFICES ASSUME QInv, [Next]_vars PROVE QInv'
    OBVIOUS
  <2>1. CASE \E c \in Capacities : queue_new(c)
    BY <2>1, NewStep
  <2>2. CASE (\E d \in Data : queue_enqueue(d)) \/ queue_dequeue
    BY <2>2, CallStep
  <2>3. CASE EnqueueBack
    BY <2>3, BackStep
  <2>4. CASE EnqueueNew
    BY <2>4, EntryStep
  <2>5. CASE EnqueueSlot
    BY <2>5, SlotStep
  <2>6. CASE DequeueFront
    BY <2>6, FrontStep
  <2>7. CASE DequeueFree
    BY <2>7, FreeStep
  <2>8. CASE TxCommit
    BY <2>8, CommitStep
  <2>9. CASE TxAbort \/ Crash
    BY <2>9, BackToDurable DEF TxAbort, Crash, QInv
  <2>10. CASE UNCHANGED vars
    BY <2>10 DEF vars, QInv, FrameOK, RollbackExact
  <2> QED
    BY <2>1, <2>2, <2>3, <2>4, <2>5, <2>6, <2>7, <2>8, <2>9, <2>10 DEF Next
<1> QED
  BY <1>1, QueueInit, PTL DEF Spec

(* Queue is type correct at every step: the counters stay words and the slots
   hold entries, whatever queue_enqueue and queue_dequeue were interrupted by. *)
THEOREM QueueTypeCorrect == Spec => []TypeOK
<1>1. QInv => TypeOK
  BY DEF QInv, TypeOK, ImageOK, QueueOK
<1> QED
  BY <1>1, QueueInvariant, PTL

(* queue.c never stores to a field it did not snapshot: a crash or an abort at
   any step gives back exactly what the last commit left. *)
THEOREM QueueRollbackExact == Spec => []RollbackExact
<1>1. QInv => RollbackExact
  BY DEF QInv
<1> QED
  BY <1>1, QueueInvariant, PTL

(* The queue never holds more than its capacity, for every capacity and word
   size and after any number of wraps of its counters. *)
THEOREM QueueNeverOverfull == Spec => []NeverOverfull
<1>1. QInv => NeverOverfull
  BY DEF QInv, ImageOK, QueueOK, NeverOverfull
<1> QED
  BY <1>1, QueueInvariant, PTL
-----------------------------------------------------------------------------
(* The ring. *)

BackLoc  == <<"queue", "back", 0>>
FrontLoc == <<"queue", "front", 0>>
ValueLoc(e) == <<e, "value", 0>>

(* The slot of the i-th value, counted from 0, and its entry. *)
Pos(m, i)  == ((Front(m) + i) % Word) % Capacity(m)
Held(m, i) == Slot(m, Pos(m, i))
Queued(m)  == 0 .. queue_size(m) - 1

(* The entries of image m are in the slots in use, one in each. *)
Ring(m) ==
  QueueExists(m) =>
    /\ \A i \in Queued(m) : Held(m, i) \in Entries
    /\ \A i, j \in Queued(m) : Held(m, i) = Held(m, j) => i = j
    /\ Objects(m) = {"queue"} \cup {Held(m, i) : i \in Queued(m)}
    /\ \A l \in DOMAIN m : l[1] \in Entries => l = ValueLoc(l[1])

(* From image m to image n entry e with value v was put at the back, *)
Put(m, n, e, v) ==
  /\ e \in Entries \ Objects(m)
  /\ DOMAIN n = DOMAIN m \cup {ValueLoc(e)}
  /\ Back(n) = Succ(Back(m)) /\ Slot(n, EnqueuePos(m)) = e /\ n[ValueLoc(e)] = v
  /\ \A l \in DOMAIN m : l \notin {BackLoc, <<"queue", "entries", EnqueuePos(m)>>} => n[l] = m[l]

(* or front was moved on. *)
Took(m, n) ==
  /\ DOMAIN n = DOMAIN m
  /\ Front(n) = Succ(Front(m))
  /\ \A l \in DOMAIN m : l # FrontLoc => n[l] = m[l]

(* How far a call that works on the committed image has got. *)
CallOK ==
  LET d == durable
      n == pm.mem
  IN  /\ pc \in {"idle", "enq_back", "deq_front"} => pm = NoTx(d)
      /\ pc \in {"enq_back", "enq_new", "enq_slot"} =>
           QueueExists(d) /\ f.data \in Data /\ queue_size(d) < Capacity(d) /\ f.pos = EnqueuePos(d)
      /\ pc = "enq_new" =>
           /\ pm.doomed = {} /\ DOMAIN n = DOMAIN d /\ Back(n) = Succ(Back(d))
           /\ \A l \in DOMAIN d : l # BackLoc => n[l] = d[l]
      /\ pc = "enq_slot" =>
           /\ pm.doomed = {} /\ f.entry \in Entries \ Objects(d)
           /\ DOMAIN n = DOMAIN d \cup {ValueLoc(f.entry)}
           /\ Back(n) = Succ(Back(d)) /\ n[ValueLoc(f.entry)] = f.data
           /\ \A l \in DOMAIN d : l # BackLoc => n[l] = d[l]
      /\ pc \in {"deq_front", "deq_free"} =>
           QueueExists(d) /\ queue_size(d) > 0 /\ f.pos = Front(d) % Capacity(d)
      /\ pc = "deq_free" => pm.fresh = {} /\ pm.doomed = {} /\ Took(d, n)
      /\ pc = "commit" =>
           /\ QueueExists(d)
           /\ \/ /\ queue_size(d) < Capacity(d) /\ pm.doomed = {}
                 /\ \E v \in Data : Put(d, n, f.entry, v)
              \/ /\ queue_size(d) > 0 /\ pm.doomed = {Slot(d, Front(d) % Capacity(d))}
                 /\ Took(d, n)

RInv == QInv /\ Ring(durable) /\ CallOK
-----------------------------------------------------------------------------
(* Quotient and remainder. *)
LEMMA DivMod ==
  ASSUME NEW c \in Nat \ {0}, NEW x \in Int
  PROVE  x \div c \in Int /\ x % c \in 0 .. c - 1 /\ x = c * (x \div c) + (x % c)
  OBVIOUS

(* A multiple of c closer to 0 than c is 0. *)
LEMMA SmallMultiple ==
  ASSUME NEW c \in Nat \ {0}, NEW k \in Int, -c < c * k, c * k < c
  PROVE  k = 0
<1>1. CASE k >= 1
  <2>1. c * k >= c
    BY <1>1
  <2> QED
    BY <2>1
<1>2. CASE k <= -1
  <2>1. c * k <= -c
    BY <1>2
  <2> QED
    BY <2>1
<1> QED
  BY <1>1, <1>2

(* A remainder is known by any quotient that leaves it. *)
LEMMA ModIs ==
  ASSUME NEW c \in Nat \ {0}, NEW x \in Int, NEW q \in Int, NEW r \in 0 .. c - 1, x = c * q + r
  PROVE  x % c = r
<1> DEFINE p == x \div c
           s == x % c
<1>1. p \in Int /\ s \in 0 .. c - 1 /\ x = c * p + s
  BY DivMod
<1> HIDE DEF p, s
<1>2. c * (p - q) = c * p - c * q
  BY <1>1
<1>3. p - q \in Int /\ -c < c * (p - q) /\ c * (p - q) < c
  BY <1>1, <1>2
<1>4. p - q = 0
  BY <1>3, SmallMultiple
<1>5. p = q
  BY <1>1, <1>4
<1>6. s = r
  BY <1>1, <1>5
<1> QED
  BY <1>6 DEF s

(* A capacity that divides the word size: wrapping does not move a position. *)
LEMMA ModOfMod ==
  ASSUME NEW W \in Nat \ {0}, NEW c \in Nat \ {0}, W % c = 0, NEW x \in Int
  PROVE  (x % W) % c = x % c
<1> DEFINE k == W \div c
           q == x \div W
           r == x % W
           p == r \div c
           s == r % c
<1>1. k \in Int /\ W = c * k
  BY DivMod
<1>2. q \in Int /\ r \in Int /\ x = W * q + r
  BY DivMod
<1> HIDE DEF k, q, r
<1>3. p \in Int /\ s \in 0 .. c - 1 /\ r = c * p + s
  BY <1>2, DivMod
<1> HIDE DEF p, s
<1>4. W * q = c * (k * q)
  BY <1>1, <1>2
<1>5. x = c * (k * q) + c * p + s
  BY <1>2, <1>3, <1>4
<1>6. k * q \in Int
  BY <1>1, <1>2
<1>7. c * (k * q) + c * p = c * (k * q + p)
  BY <1>3, <1>6
<1>8. x = c * (k * q + p) + s /\ k * q + p \in Int
  BY <1>3, <1>5, <1>6, <1>7
<1>9. x % c = s
  <2> DEFINE t == k * q + p
  <2>1. t \in Int /\ x = c * t + s
    BY <1>8
  <2> HIDE DEF t
  <2> QED
    BY <1>3, <2>1, ModIs
<1> QED
  BY <1>9 DEF s, r

(* As many positions in a row as there are slots are all different. *)
LEMMA ModApart ==
  ASSUME NEW c \in Nat \ {0}, NEW a \in Int, NEW i \in 0 .. c - 1, NEW j \in 0 .. c - 1,
         (a + i) % c = (a + j) % c
  PROVE  i = j
<1> DEFINE p == (a + i) \div c
           q == (a + j) \div c
           s == (a + i) % c
<1>1. p \in Int /\ s \in Int /\ a + i = c * p + s
  BY DivMod
<1>2. q \in Int /\ a + j = c * q + s
  <2>1. a + j \in Int /\ s = (a + j) % c
    OBVIOUS
  <2> HIDE DEF s
  <2> QED
    BY <2>1, DivMod
<1> HIDE DEF p, q, s
<1>3. c * (p - q) = c * p - c * q
  BY <1>1, <1>2
<1>4. p - q \in Int /\ c * (p - q) = i - j
  BY <1>1, <1>2, <1>3
<1>5. p - q = 0
  BY <1>4, SmallMultiple
<1> QED
  BY <1>4, <1>5

(* Going on by one, then by i. *)
LEMMA ModPlus ==
  ASSUME NEW W \in Nat \ {0}, NEW a \in 0 .. W - 1, NEW i \in Nat
  PROVE  (((a + 1) % W) + i) % W = (a + (i + 1)) % W
<1>1. CASE a = W - 1
  <2> DEFINE q == (a + (i + 1)) \div W
             r == (a + (i + 1)) % W
  <2>1. q \in Int /\ r \in 0 .. W - 1 /\ a + (i + 1) = W * q + r
    <3> DEFINE x == a + (i + 1)
    <3>1. x \in Int /\ W \in Nat \ {0}
      OBVIOUS
    <3>2. q = x \div W /\ r = x % W
      OBVIOUS
    <3> HIDE DEF x, q, r
    <3>3. x = W * q + r /\ q \in Int /\ r \in 0 .. W - 1
      BY <3>1, <3>2, DivMod
    <3> QED
      BY <3>3 DEF x
  <2>2. (a + 1) % W = 0
    BY <1>1, SuccWrap
  <2> HIDE DEF q, r
  <2>3. W * (q - 1) = W * q - W
    BY <2>1
  <2>4. q - 1 \in Int /\ i = W * (q - 1) + r
    BY <1>1, <2>1, <2>3
  <2>5. i % W = r
    <3> DEFINE t == q - 1
    <3>1. t \in Int /\ i = W * t + r
      BY <2>4
    <3> HIDE DEF t
    <3> QED
      BY <2>1, <3>1, ModIs
  <2> QED
    BY <2>2, <2>5 DEF r
<1>2. CASE a # W - 1
  <2>1. (a + 1) % W = a + 1
    BY <1>2, SuccWrap
  <2> QED
    BY <2>1
<1> QED
  BY <1>1, <1>2
-----------------------------------------------------------------------------
(* Every capacity divides the word size, as powers of two do: when a counter wraps, the
   slots go on in turn. *)
InStep == \A c \in Capacities \ {0} : Word % c = 0

(* The fields of a queue. *)
LEMMA Counters ==
  ASSUME NEW m, QueueOK(m), QueueExists(m)
  PROVE  /\ Word \in Nat \ {0} /\ Capacity(m) \in Nat /\ Capacity(m) < Word
         /\ Front(m) \in 0 .. Word - 1 /\ Back(m) \in 0 .. Word - 1
         /\ queue_size(m) \in Nat /\ queue_size(m) <= Capacity(m)
         /\ {FrontLoc, BackLoc, <<"queue", "capacity", 0>>} \subseteq DOMAIN m
         /\ \A i \in 0 .. Capacity(m) - 1 : <<"queue", "entries", i>> \in DOMAIN m
<1>1. /\ Word \in Nat \ {0} /\ Capacity(m) \in Nat /\ Capacity(m) < Word
      /\ Front(m) \in 0 .. Word - 1 /\ Back(m) \in 0 .. Word - 1
      /\ queue_size(m) <= Capacity(m)
  BY QueueAssumption DEF QueueOK
<1>2. queue_size(m) \in Nat
  BY <1>1 DEF queue_size
<1> QED
  BY <1>1, <1>2 DEF QueueOK, FrontLoc, BackLoc

(* Its positions: slots, and different ones for the values of a full queue. *)
LEMMA Positions ==
  ASSUME NEW m, QueueOK(m), QueueExists(m), InStep, Capacity(m) # 0
  PROVE  /\ \A i \in Nat : Pos(m, i) \in 0 .. Capacity(m) - 1
         /\ \A i, j \in 0 .. Capacity(m) - 1 : Pos(m, i) = Pos(m, j) => i = j
         /\ EnqueuePos(m) = Pos(m, queue_size(m))
         /\ Front(m) % Capacity(m) = Pos(m, 0)
<1> DEFINE c == Capacity(m)
           a == Front(m)
           b == Back(m)
<1>1. /\ Word \in Nat \ {0} /\ c \in Nat \ {0} /\ a \in 0 .. Word - 1 /\ b \in 0 .. Word - 1
      /\ Word % c = 0
  BY Counters DEF InStep, QueueOK
<1> HIDE DEF c, a, b
<1>2. ASSUME NEW i \in Nat PROVE ((a + i) % Word) % c = (a + i) % c
  <2>1. a + i \in Int
    BY <1>1
  <2> QED
    BY <1>1, <2>1, ModOfMod
<1>3. \A i \in Nat : Pos(m, i) = (a + i) % c
  BY <1>2 DEF Pos, a, c
<1>4. \A i \in Nat : (a + i) % c \in 0 .. c - 1
  BY <1>1, DivMod
<1>5. \A i, j \in 0 .. c - 1 : Pos(m, i) = Pos(m, j) => i = j
  <2> SUFFICES ASSUME NEW i \in 0 .. c - 1, NEW j \in 0 .. c - 1, Pos(m, i) = Pos(m, j)
               PROVE  i = j
    OBVIOUS
  <2>1. i \in Nat /\ j \in Nat
    BY <1>1
  <2>2. (a + i) % c = (a + j) % c
    BY <1>3, <2>1
  <2>3. a \in Int
    BY <1>1
  <2> QED
    BY <1>1, <2>2, <2>3, ModApart
<1>6. (a + ((b - a) % Word)) % Word = b
  <2>1. (b - a) % Word = IF b >= a THEN b - a ELSE b - a + Word
    BY <1>1, SubWrap
  <2>2. CASE b >= a
    BY <1>1, <2>1, <2>2
  <2>3. CASE ~(b >= a)
    <3>1. a + ((b - a) % Word) = Word * 1 + b
      BY <1>1, <2>1, <2>3
    <3> QED
      BY <1>1, <3>1, ModIs
  <2> QED
    BY <2>2, <2>3
<1>7. EnqueuePos(m) = Pos(m, queue_size(m))
  BY <1>6 DEF EnqueuePos, Pos, queue_size, a, b
<1>8. a % c = Pos(m, 0)
  <2>1. a + 0 = a
    BY <1>1
  <2> QED
    BY <1>3, <2>1
<1> QED
  BY <1>3, <1>4, <1>5, <1>7, <1>8 DEF c, a

(* Where the values of a queue are. *)
ValueOf(m, i) == m[ValueLoc(Held(m, i))]

(* Every queued entry has its value, and these are the contents. *)
LEMMA RingContents ==
  ASSUME NEW m, QueueOK(m), QueueExists(m), Ring(m)
  PROVE  /\ \A i \in Queued(m) : ValueLoc(Held(m, i)) \in DOMAIN m
         /\ Contents(m) = [i \in 1 .. queue_size(m) |-> ValueOf(m, i - 1)]
<1>1. ASSUME NEW i \in Queued(m) PROVE ValueLoc(Held(m, i)) \in DOMAIN m
  <2>1. Held(m, i) \in Objects(m) /\ Held(m, i) \in Entries
    BY DEF Ring
  <2>2. PICK l \in DOMAIN m : l[1] = Held(m, i)
    BY <2>1 DEF Objects
  <2> QED
    BY <2>1, <2>2 DEF Ring
<1>2. queue_size(m) \in Nat
  BY Counters
<1> DEFINE loc(i) == <<Slot(m, ((Front(m) + i - 1) % Word) % Capacity(m)), "value", 0>>
           at(l)  == IF l \in DOMAIN m THEN m[l] ELSE Garbage
<1>3. Contents(m) = [i \in 1 .. queue_size(m) |-> at(loc(i))]
  BY DEF Contents
<1>4. ASSUME NEW i \in 1 .. queue_size(m) PROVE at(loc(i)) = ValueOf(m, i - 1)
  <2>1. i - 1 \in Queued(m)
    BY <1>2 DEF Queued
  <2>2. Front(m) + i - 1 = Front(m) + (i - 1)
    BY Counters
  <2>3. loc(i) = ValueLoc(Held(m, i - 1))
    BY <2>2 DEF Held, Pos, ValueLoc
  <2> QED
    BY <1>1, <2>1, <2>3 DEF ValueOf
<1> HIDE DEF at, loc
<1> QED
  BY <1>1, <1>3, <1>4

(* Sequences told by their elements. *)
IsSeq(C, s) == C = [i \in 1 .. s |-> C[i]]

(* A sequence with one more element at its end. *)
LEMMA AppendIs ==
  ASSUME NEW s \in Nat, NEW C, NEW D,
         IsSeq(C, s), IsSeq(D, s + 1),
         \A i \in 1 .. s : D[i] = C[i]
  PROVE  D = Append(C, D[s + 1])
<1> DEFINE S == {D[i] : i \in 1 .. s + 1}
           A == Append(C, D[s + 1])
<1>1. D[s + 1] \in S /\ \A i \in 1 .. s : C[i] \in S
  <2>1. s + 1 \in 1 .. s + 1 /\ \A i \in 1 .. s : i \in 1 .. s + 1
    OBVIOUS
  <2>2. \A i \in 1 .. s + 1 : D[i] \in S
    OBVIOUS
  <2> HIDE DEF S
  <2> QED
    BY <2>1, <2>2
<1> HIDE DEF S
<1>2. C \in Seq(S) /\ Len(C) = s
  BY SMTT(30), <1>1 DEF IsSeq
<1>3. /\ A \in Seq(S) /\ Len(A) = s + 1
      /\ \A i \in 1 .. s : A[i] = C[i] /\ A[s + 1] = D[s + 1]
  BY <1>1, <1>2, AppendProperties
<1> HIDE DEF A
<1>4. A = [i \in 1 .. s + 1 |-> A[i]]
  BY <1>3, LenProperties
<1>5. ASSUME NEW i \in 1 .. s + 1 PROVE A[i] = D[i]
  <2>1. i = s + 1 \/ i \in 1 .. s
    OBVIOUS
  <2>2. A[s + 1] = D[s + 1]
    BY <1>2, <1>1, AppendProperties DEF A
  <2> QED
    BY <1>3, <2>1, <2>2
<1>6. A = D
  BY <1>4, <1>5 DEF IsSeq
<1> QED
  BY <1>6 DEF A

(* One without its first element. *)
LEMMA TailIs ==
  ASSUME NEW s \in Nat \ {0}, NEW C, NEW D,
         IsSeq(C, s), IsSeq(D, s - 1),
         \A i \in 1 .. s - 1 : D[i] = C[i + 1]
  PROVE  D = Tail(C) /\ C # <<>>
<1> DEFINE S == {C[i] : i \in 1 .. s}
           T == Tail(C)
<1>1. \A i \in 1 .. s : C[i] \in S
  OBVIOUS
<1> HIDE DEF S
<1>2. C \in Seq(S) /\ Len(C) = s
  BY <1>1 DEF IsSeq
<1>3. C # <<>>
  BY <1>2
<1>4. T \in Seq(S) /\ Len(T) = s - 1 /\ \A i \in 1 .. s - 1 : T[i] = C[i + 1]
  BY <1>2, <1>3, HeadTailProperties
<1> HIDE DEF T
<1>5. T = [i \in 1 .. s - 1 |-> T[i]]
  BY <1>4, LenProperties
<1>6. T = D
  BY <1>4, <1>5 DEF IsSeq
<1> QED
  BY <1>3, <1>6 DEF T

(* An entry put at the back is the last of the ring, and its value of the contents. *)
LEMMA PutRing ==
  ASSUME NEW m, NEW n, NEW e, NEW v, ImageOK(m), QueueExists(m), Ring(m), InStep,
         queue_size(m) < Capacity(m), Put(m, n, e, v)
  PROVE  /\ Ring(n) /\ Contents(n) = Append(Contents(m), v)
         /\ QueueExists(n) /\ Capacity(n) = Capacity(m)
<1> DEFINE s == queue_size(m)
<1>1. QueueOK(m)
  BY DEF ImageOK
<1>2. /\ Word \in Nat \ {0} /\ Capacity(m) \in Nat /\ Capacity(m) < Word
      /\ Front(m) \in 0 .. Word - 1 /\ Back(m) \in 0 .. Word - 1
      /\ s \in Nat /\ s < Capacity(m)
      /\ {FrontLoc, BackLoc, <<"queue", "capacity", 0>>} \subseteq DOMAIN m
      /\ \A i \in 0 .. Capacity(m) - 1 : <<"queue", "entries", i>> \in DOMAIN m
  BY <1>1, Counters
<1>3. Front(n) = Front(m) /\ Capacity(n) = Capacity(m) /\ Back(n) = Succ(Back(m))
  BY <1>2 DEF Put, Front, Capacity, FrontLoc, BackLoc
<1>4. queue_size(n) = s + 1
  <2>1. queue_size(m) < Word - 1
    BY <1>2
  <2> QED
    BY <1>2, <1>3, <2>1, Distance DEF queue_size, Succ
<1> HIDE DEF s
<1>5. \A i : Pos(n, i) = Pos(m, i)
  BY <1>3 DEF Pos
<1>6. /\ \A i \in Nat : Pos(m, i) \in 0 .. Capacity(m) - 1
      /\ \A i, j \in 0 .. Capacity(m) - 1 : Pos(m, i) = Pos(m, j) => i = j
      /\ EnqueuePos(m) = Pos(m, s)
  BY <1>1, <1>2, Positions DEF s
<1>7. /\ Queued(m) = 0 .. s - 1 /\ Queued(n) = 0 .. s
      /\ Queued(n) = Queued(m) \cup {s} /\ s \notin Queued(m)
  BY <1>2, <1>4 DEF Queued, s
<1>8. Held(n, s) = e
  BY <1>5, <1>6 DEF Held, Put
<1>9. ASSUME NEW i \in Queued(m)
      PROVE  Held(n, i) = Held(m, i)
  <2>1. i \in 0 .. Capacity(m) - 1 /\ s \in 0 .. Capacity(m) - 1 /\ i # s /\ i \in Nat
    BY <1>2, <1>7
  <2>2. Pos(m, i) # EnqueuePos(m) /\ Pos(m, i) \in 0 .. Capacity(m) - 1
    BY <1>6, <2>1
  <2>3. <<"queue", "entries", Pos(m, i)>> \in DOMAIN m
    BY <1>2, <2>2
  <2> QED
    BY <1>5, <2>2, <2>3 DEF Put, Held, Slot, BackLoc
<1>10. e \in Entries /\ e \notin Objects(m)
  BY DEF Put
<1>11. Objects(n) = Objects(m) \cup {e}
  BY DEF Put, Objects, ValueLoc
<1>12. QueueExists(n)
  BY <1>11 DEF QueueExists
<1>13. Ring(n)
  <2>1. \A i \in Queued(n) : Held(n, i) \in Entries
    BY <1>7, <1>8, <1>9, <1>10 DEF Ring
  <2>2. \A i \in Queued(m) : Held(m, i) # e
    BY <1>10 DEF Ring
  <2>3. \A i, j \in Queued(n) : Held(n, i) = Held(n, j) => i = j
    BY <1>7, <1>8, <1>9, <2>2 DEF Ring
  <2>4. Objects(n) = {"queue"} \cup {Held(n, i) : i \in Queued(n)}
    <3>1. Objects(m) = {"queue"} \cup {Held(m, i) : i \in Queued(m)}
      BY DEF Ring
    <3> QED
      BY <1>7, <1>8, <1>9, <1>11, <3>1
  <2>5. \A l \in DOMAIN n : l[1] \in Entries => l = ValueLoc(l[1])
    BY DEF Ring, Put, ValueLoc
  <2> QED
    BY <2>1, <2>3, <2>4, <2>5 DEF Ring
<1>14. Contents(n) = Append(Contents(m), v)
  <2> DEFINE C == [i \in 1 .. s |-> ValueOf(m, i - 1)]
  <2>1. Contents(m) = C
    BY <1>1, RingContents DEF s
  <2>2. QueueOK(n)
    <3>1. \A i \in 0 .. Capacity(n) - 1 : /\ <<"queue", "entries", i>> \in DOMAIN n
                                          /\ Slot(n, i) \in Entries \cup {Garbage}
      <4> SUFFICES ASSUME NEW i \in 0 .. Capacity(m) - 1
                   PROVE  /\ <<"queue", "entries", i>> \in DOMAIN n
                          /\ Slot(n, i) \in Entries \cup {Garbage}
        BY <1>3
      <4>1. <<"queue", "entries", i>> \in DOMAIN m /\ Slot(m, i) \in Entries \cup {Garbage}
        BY <1>1 DEF QueueOK
      <4>2. CASE i = EnqueuePos(m)
        BY <1>10, <4>1, <4>2 DEF Put
      <4>3. CASE i # EnqueuePos(m)
        BY <4>1, <4>3 DEF Put, Slot, BackLoc
      <4> QED
        BY <4>2, <4>3
    <3>2. Succ(Back(m)) \in 0 .. Word - 1
      BY <1>2, SuccWrap DEF Succ
    <3>3. /\ Front(n) \in 0 .. Word - 1 /\ Back(n) \in 0 .. Word - 1
          /\ Capacity(n) \in Capacities /\ queue_size(n) <= Capacity(n)
      BY <1>1, <1>2, <1>3, <1>4, <3>2 DEF QueueOK
    <3>4. {<<"queue", "front", 0>>, <<"queue", "back", 0>>, <<"queue", "capacity", 0>>}
            \subseteq DOMAIN n
      BY <1>2 DEF Put, FrontLoc, BackLoc
    <3> QED
      BY <3>1, <3>3, <3>4 DEF QueueOK
  <2>3. Contents(n) = [i \in 1 .. s + 1 |-> ValueOf(n, i - 1)]
    BY <1>4, <1>12, <1>13, <2>2, RingContents
  <2>4. ASSUME NEW i \in 1 .. s + 1
        PROVE  ValueOf(n, i - 1) = IF i = s + 1 THEN v ELSE ValueOf(m, i - 1)
    <3>1. CASE i = s + 1
      <4>1. i - 1 = s
        BY <1>2, <3>1
      <4> QED
        BY <1>8, <3>1, <4>1 DEF ValueOf, Put
    <3>2. CASE i # s + 1
      <4>1. i - 1 \in Queued(m)
        BY <1>2, <1>7, <3>2
      <4>2. ValueLoc(Held(m, i - 1)) \in DOMAIN m
        BY <1>1, <4>1, RingContents
      <4>3. ValueLoc(Held(m, i - 1)) \notin {BackLoc, <<"queue", "entries", EnqueuePos(m)>>}
        BY DEF ValueLoc, BackLoc
      <4> QED
        BY <1>9, <3>2, <4>1, <4>2, <4>3 DEF ValueOf, Put
    <3> QED
      BY <3>1, <3>2
  <2> DEFINE D == [i \in 1 .. s + 1 |-> ValueOf(n, i - 1)]
  <2>5. ASSUME NEW i \in 1 .. s PROVE D[i] = C[i]
    <3>1. i \in 1 .. s + 1 /\ i # s + 1
      BY <1>2
    <3> QED
      BY <2>4, <3>1
  <2>6. D[s + 1] = v
    <3>1. s + 1 \in 1 .. s + 1
      BY <1>2
    <3>2. D[s + 1] = ValueOf(n, (s + 1) - 1)
      BY <3>1
    <3> QED
      BY <2>4, <3>1, <3>2
  <2>7. IsSeq(C, s) /\ IsSeq(D, s + 1)
    BY DEF IsSeq
  <2> HIDE DEF C, D
  <2>8. D = Append(C, D[s + 1])
    BY <1>2, <2>5, <2>7, AppendIs
  <2> QED
    BY <2>1, <2>3, <2>6, <2>8 DEF D
<1> QED
  BY <1>3, <1>12, <1>13, <1>14

(* An entry taken from the front was the first of the ring, and its value of the
   contents. *)
LEMMA TookRing ==
  ASSUME NEW m, NEW n, ImageOK(m), QueueExists(m), Ring(m), InStep,
         queue_size(m) > 0, Took(m, n)
  PROVE  LET p == Without(n, {Slot(m, Front(m) % Capacity(m))})
         IN  /\ Ring(p) /\ Contents(p) = Tail(Contents(m)) /\ Contents(m) # <<>>
             /\ QueueExists(p) /\ Capacity(p) = Capacity(m)
<1> DEFINE s == queue_size(m)
           x == Slot(m, Front(m) % Capacity(m))
           p == Without(n, {x})
<1>1. QueueOK(m)
  BY DEF ImageOK
<1>2. /\ Word \in Nat \ {0} /\ Capacity(m) \in Nat \ {0} /\ Capacity(m) < Word
      /\ Front(m) \in 0 .. Word - 1 /\ Back(m) \in 0 .. Word - 1
      /\ s \in Nat \ {0} /\ s <= Capacity(m)
      /\ {FrontLoc, BackLoc, <<"queue", "capacity", 0>>} \subseteq DOMAIN m
      /\ \A i \in 0 .. Capacity(m) - 1 : <<"queue", "entries", i>> \in DOMAIN m
  BY <1>1, Counters
<1>3. /\ \A i \in Nat : Pos(m, i) \in 0 .. Capacity(m) - 1
      /\ \A i, j \in 0 .. Capacity(m) - 1 : Pos(m, i) = Pos(m, j) => i = j
      /\ x = Held(m, 0)
  BY <1>1, <1>2, Positions DEF Held
<1>4. 0 \in Queued(m) /\ Queued(m) = 0 .. s - 1
  BY <1>2 DEF Queued
<1>5. x \in Entries /\ x # "queue"
  BY <1>3, <1>4, QueueAssumption DEF Ring
<1> HIDE DEF s, x
<1>6. /\ DOMAIN p = {l \in DOMAIN m : l[1] # x}
      /\ \A l \in DOMAIN p : l # FrontLoc => p[l] = m[l]
      /\ FrontLoc \in DOMAIN p /\ p[FrontLoc] = Succ(Front(m))
  <2>1. DOMAIN p = {l \in DOMAIN n : l[1] # x} /\ \A l \in DOMAIN p : p[l] = n[l]
    BY DEF Without, LocsOf
  <2> HIDE DEF p
  <2>2. FrontLoc[1] = "queue"
    BY DEF FrontLoc
  <2> QED
    BY <1>2, <1>5, <2>1, <2>2 DEF Took, Front, FrontLoc
<1> HIDE DEF p
<1>7. \A l \in DOMAIN m : l[1] = "queue" => l \in DOMAIN p
  BY <1>5, <1>6
<1>8. Front(p) = Succ(Front(m)) /\ Back(p) = Back(m) /\ Capacity(p) = Capacity(m)
  BY <1>2, <1>6, <1>7 DEF Front, Back, Capacity, FrontLoc, BackLoc
<1>9. \A i \in 0 .. Capacity(m) - 1 :
        <<"queue", "entries", i>> \in DOMAIN p /\ Slot(p, i) = Slot(m, i)
  BY <1>2, <1>6, <1>7 DEF Slot, FrontLoc
<1>10. queue_size(p) = s - 1
  BY <1>2, <1>8, Distance DEF queue_size, Succ, s
<1>11. Queued(p) = 0 .. s - 2 /\ \A i \in Queued(p) : i \in Nat /\ i + 1 \in Queued(m)
  <2>1. Queued(p) = 0 .. s - 2
    <3>1. (s - 1) - 1 = s - 2
      BY <1>2
    <3> QED
      BY <1>10, <3>1 DEF Queued
  <2> QED
    BY <1>2, <1>4, <2>1
<1>12. ASSUME NEW i \in Queued(p) PROVE Held(p, i) = Held(m, i + 1)
  <2>1. i \in Nat /\ i + 1 \in Nat
    BY <1>11
  <2>2. (((Front(m) + 1) % Word) + i) % Word = (Front(m) + (i + 1)) % Word
    BY <1>2, <2>1, ModPlus
  <2>3. Pos(p, i) = Pos(m, i + 1)
    BY <1>8, <2>2 DEF Pos, Succ
  <2> QED
    BY <1>3, <1>9, <2>1, <2>3 DEF Held
<1>13. \A j \in Queued(m) : j = 0 \/ \E i \in Queued(p) : j = i + 1
  <2> SUFFICES ASSUME NEW j \in Queued(m), j # 0 PROVE \E i \in Queued(p) : j = i + 1
    OBVIOUS
  <2>1. j - 1 \in Queued(p) /\ j = (j - 1) + 1
    BY <1>2, <1>4, <1>11
  <2> QED
    BY <2>1
<1>14. Objects(p) = Objects(m) \ {x}
  BY <1>6 DEF Objects
<1>15. QueueExists(p)
  BY <1>5, <1>14 DEF QueueExists
<1>16. \A i \in Queued(p) : Held(m, i + 1) # x
  <2> SUFFICES ASSUME NEW i \in Queued(p), Held(m, i + 1) = Held(m, 0) PROVE FALSE
    BY <1>3
  <2>1. i + 1 \in Queued(m) /\ i \in Nat
    BY <1>11
  <2>2. i + 1 = 0
    BY <1>4, <2>1 DEF Ring
  <2> QED
    BY <2>1, <2>2
<1>17. Ring(p)
  <2>1. \A i \in Queued(p) : Held(p, i) \in Entries
    BY <1>11, <1>12 DEF Ring
  <2>2. \A i, j \in Queued(p) : Held(p, i) = Held(p, j) => i = j
    <3> SUFFICES ASSUME NEW i \in Queued(p), NEW j \in Queued(p), Held(p, i) = Held(p, j)
                 PROVE  i = j
      OBVIOUS
    <3>1. Held(m, i + 1) = Held(m, j + 1) /\ i + 1 \in Queued(m) /\ j + 1 \in Queued(m)
      BY <1>11, <1>12
    <3>2. i + 1 = j + 1
      BY <3>1 DEF Ring
    <3> QED
      BY <1>11, <3>2
  <2>3. Objects(p) = {"queue"} \cup {Held(p, i) : i \in Queued(p)}
    <3>1. Objects(m) = {"queue"} \cup {Held(m, i) : i \in Queued(m)}
      BY DEF Ring
    <3>2. \A y \in Objects(p) : y = "queue" \/ \E i \in Queued(p) : y = Held(p, i)
      <4> SUFFICES ASSUME NEW y \in Objects(p), y # "queue"
                   PROVE  \E i \in Queued(p) : y = Held(p, i)
        OBVIOUS
      <4>1. PICK j \in Queued(m) : y = Held(m, j)
        BY <1>14, <3>1
      <4>2. j # 0
        BY <1>3, <1>14, <4>1
      <4> QED
        BY <1>12, <1>13, <4>1, <4>2
    <3>3. ASSUME NEW i \in Queued(p) PROVE Held(p, i) \in Objects(p)
      <4>1. Held(p, i) = Held(m, i + 1) /\ i + 1 \in Queued(m)
        BY <1>11, <1>12
      <4> QED
        BY <1>14, <1>16, <3>1, <4>1
    <3> QED
      BY <1>15, <3>2, <3>3 DEF QueueExists
  <2>4. \A l \in DOMAIN p : l[1] \in Entries => l = ValueLoc(l[1])
    BY <1>6 DEF Ring
  <2> QED
    BY <2>1, <2>2, <2>3, <2>4 DEF Ring
<1>18. QueueOK(p)
  <2>1. Succ(Front(m)) \in 0 .. Word - 1
    BY <1>2, SuccWrap DEF Succ
  <2>2. \A i \in 0 .. Capacity(p) - 1 : /\ <<"queue", "entries", i>> \in DOMAIN p
                                        /\ Slot(p, i) \in Entries \cup {Garbage}
    BY <1>1, <1>8, <1>9 DEF QueueOK
  <2>3. {<<"queue", "front", 0>>, <<"queue", "back", 0>>, <<"queue", "capacity", 0>>}
          \subseteq DOMAIN p
    BY <1>2, <1>7 DEF FrontLoc, BackLoc
  <2>4. queue_size(p) <= Capacity(p)
    BY <1>2, <1>8, <1>10
  <2> QED
    BY <1>1, <1>8, <2>1, <2>2, <2>3, <2>4 DEF QueueOK
<1>19. Contents(p) = Tail(Contents(m)) /\ Contents(m) # <<>>
  <2> DEFINE C == [i \in 1 .. s |-> ValueOf(m, i - 1)]
             D == [i \in 1 .. s - 1 |-> ValueOf(p, i - 1)]
  <2>1. Contents(m) = C
    BY <1>1, RingContents DEF s
  <2>2. Contents(p) = D
    BY <1>10, <1>15, <1>17, <1>18, RingContents
  <2>3. ASSUME NEW i \in 1 .. s - 1 PROVE D[i] = C[i + 1]
    <3>1. i - 1 \in Queued(p) /\ i \in Queued(m) /\ (i - 1) + 1 = i /\ (i + 1) - 1 = i
      BY <1>2, <1>4, <1>11
    <3>2. Held(p, i - 1) = Held(m, i)
      BY <1>12, <3>1
    <3>3. ValueLoc(Held(m, i)) \in DOMAIN p
      BY <1>15, <1>17, <1>18, <3>1, <3>2, RingContents
    <3>4. ValueOf(p, i - 1) = ValueOf(m, i)
      BY <1>6, <3>2, <3>3 DEF ValueOf, ValueLoc, FrontLoc
    <3>5. i + 1 \in 1 .. s
      BY <1>2
    <3> QED
      BY <3>1, <3>4, <3>5
  <2>4. IsSeq(C, s) /\ IsSeq(D, s - 1)
    BY DEF IsSeq
  <2> HIDE DEF C, D
  <2>5. D = Tail(C) /\ C # <<>>
    BY <1>2, <2>3, <2>4, TailIs
  <2> QED
    BY <2>1, <2>2, <2>5
<1> QED
  BY <1>8, <1>15, <1>17, <1>19 DEF p, x
-----------------------------------------------------------------------------
(* Where a call has got. *)

(* RInv holds before queue_new. *)
LEMMA RingInit == Init => RInv
<1> SUFFICES ASSUME Init PROVE RInv
  OBVIOUS
<1>1. ~QueueExists(durable)
  BY DEF Init, QueueExists, Objects
<1>2. pm = NoTx(durable) /\ pc = "idle"
  BY DEF Init
<1> QED
  BY <1>1, <1>2, QueueInit DEF RInv, Ring, CallOK

(* A call that is over, or one that only computed its position, leaves the committed
   image alone. *)
LEMMA RingRest ==
  ASSUME Ring(durable), durable' = durable, pm' = NoTx(durable),
         \/ pc' = "idle"
         \/ /\ pc' = "enq_back" /\ QueueExists(durable) /\ f'.data \in Data
            /\ queue_size(durable) < Capacity(durable) /\ f'.pos = EnqueuePos(durable)
         \/ /\ pc' = "deq_front" /\ QueueExists(durable)
            /\ queue_size(durable) > 0 /\ f'.pos = Front(durable) % Capacity(durable)
  PROVE  (Ring(durable) /\ CallOK)'
<1>1. Ring(durable')
  BY DEF Ring
<1>2. CallOK'
  BY DEF CallOK, QueueExists, Objects, queue_size, Front, Back, Capacity, EnqueuePos
<1> QED
  BY <1>1, <1>2 DEF Ring, QueueExists, Queued, Held, Pos, Objects, Slot, Front, Back,
     Capacity, queue_size, ValueLoc

(* queue_new: the ring of a queue just constructed is empty. *)
LEMMA RingNew ==
  ASSUME RInv, NEW c \in Capacities, queue_new(c)
  PROVE  (Ring(durable) /\ CallOK)'
<1>1. CASE ret' = -1 /\ UNCHANGED <<pm, durable>>
  <2>1. pm = NoTx(durable) /\ pc' = "idle" /\ durable' = durable /\ pm' = pm
    BY <1>1 DEF RInv, CallOK, queue_new
  <2> QED
    BY <2>1, RingRest DEF RInv
<1>2. CASE durable' = queue_constructor(c) /\ pm' = NoTx(durable')
  <2> DEFINE m == queue_constructor(c)
             locs == {<<"queue", fld, 0>> : fld \in {"front", "back", "capacity"}}
                       \cup {<<"queue", "entries", i>> : i \in 0 .. c - 1}
  <2>1. DOMAIN m = locs /\ \A l \in locs : l[1] = "queue"
    BY DEF queue_constructor
  <2>2. /\ Front(m) = 0 /\ Back(m) = 0
    BY DEF queue_constructor, Front, Back
  <2>3. queue_size(m) = 0
    BY <2>2, QueueAssumption, SubWrap DEF queue_size
  <2>4. Queued(m) = {}
    BY <2>3 DEF Queued
  <2>5. Objects(m) = {"queue"}
    BY <2>1 DEF Objects
  <2>6. "queue" \notin Entries
    BY QueueAssumption
  <2>7. \A l \in DOMAIN m : l[1] \notin Entries
    BY <2>1, <2>6
  <2> HIDE DEF m
  <2>8. Ring(m)
    BY <2>4, <2>5, <2>7 DEF Ring
  <2>9. Ring(durable')
    BY <1>2, <2>8 DEF m
  <2>10. Ring(durable)'
    BY <2>9 DEF Ring, QueueExists, Queued, Held, Pos, Objects, Slot, Front, Back,
       Capacity, queue_size, ValueLoc
  <2>11. pc' = "idle"
    BY DEF queue_new, RInv
  <2> QED
    BY <1>2, <2>10, <2>11 DEF CallOK
<1> QED
  BY <1>1, <1>2 DEF queue_new

(* The calls up to TX_BEGIN. *)
LEMMA RingCall ==
  ASSUME RInv, (\E d \in Data : queue_enqueue(d)) \/ queue_dequeue
  PROVE  (Ring(durable) /\ CallOK)'
<1>1. pc = "idle" /\ UNCHANGED <<pm, durable>>
  BY DEF queue_enqueue, queue_dequeue
<1>2. pm = NoTx(durable) /\ pm' = NoTx(durable) /\ pm.mem = durable /\ Ring(durable)
  BY <1>1, NoTxFields DEF RInv, CallOK
<1>3. CASE UNCHANGED <<pc, f>>
  BY <1>1, <1>2, <1>3, RingRest
<1>4. ASSUME NEW d \in Data, queue_enqueue(d), pc' = "enq_back"
      PROVE  (Ring(durable) /\ CallOK)'
  <2>1. QueueExists(durable) /\ queue_size(durable) # Capacity(durable)
    BY <1>1, <1>2, <1>4 DEF queue_enqueue, Full
  <2>2. queue_size(durable) < Capacity(durable)
    <3>1. QueueOK(durable)
      BY DEF RInv, QInv, ImageOK
    <3> QED
      BY <2>1, <3>1, Counters
  <2>3. f' = [NoFrame EXCEPT !.data = d, !.pos = EnqueuePos(durable)]
    BY <1>1, <1>2, <1>4 DEF queue_enqueue
  <2>4. f'.data \in Data /\ f'.pos = EnqueuePos(durable)
    BY <2>3 DEF NoFrame
  <2> QED
    BY <1>1, <1>2, <1>4, <2>1, <2>2, <2>4, RingRest
<1>5. ASSUME queue_dequeue, pc' = "deq_front"
      PROVE  (Ring(durable) /\ CallOK)'
  <2>1. QueueExists(durable) /\ queue_size(durable) # 0
    BY <1>1, <1>2, <1>5 DEF queue_dequeue
  <2>2. queue_size(durable) > 0
    <3>1. QueueOK(durable)
      BY DEF RInv, QInv, ImageOK
    <3> QED
      BY <2>1, <3>1, Counters
  <2>3. f' = [NoFrame EXCEPT !.pos = Front(durable) % Capacity(durable)]
    BY <1>1, <1>2, <1>5 DEF queue_dequeue
  <2>4. f'.pos = Front(durable) % Capacity(durable)
    BY <2>3 DEF NoFrame
  <2> QED
    BY <1>1, <1>2, <1>5, <2>1, <2>2, <2>4, RingRest
<1> QED
  BY <1>3, <1>4, <1>5 DEF queue_enqueue, queue_dequeue

(* Nothing that happens before TX_END changes the committed image. *)
LEMMA SameRing ==
  ASSUME Ring(durable), durable' = durable
  PROVE  Ring(durable)'
<1>1. Ring(durable')
  BY DEF Ring
<1> QED
  BY <1>1 DEF Ring, QueueExists, Queued, Held, Pos, Objects, Slot, Front, Back,
     Capacity, queue_size, ValueLoc

(* back++ *)
LEMMA RingBack ==
  ASSUME RInv, EnqueueBack
  PROVE  (Ring(durable) /\ CallOK)'
<1> DEFINE d == durable
           n == pm'.mem
<1>1. /\ pm = NoTx(d) /\ pm.mem = d /\ pm.fresh = {} /\ pm.doomed = {} /\ IsTx(pm)
      /\ QueueExists(d) /\ f.data \in Data /\ queue_size(d) < Capacity(d)
      /\ f.pos = EnqueuePos(d)
  BY NoTxFields DEF RInv, CallOK, EnqueueBack
<1>2. /\ n = [d EXCEPT ![BackLoc] = Succ(Back(d))]
      /\ pm'.doomed = {}
  <2>1. /\ pm'.mem = [pm.mem EXCEPT ![<<"queue", "back", 0>>] = Succ(Back(pm.mem))]
        /\ pm'.doomed = pm.doomed
    BY ZenonT(40), SetFieldFacts DEF EnqueueBack, RInv, QInv
  <2> QED
    BY <1>1, <2>1 DEF BackLoc
<1>3. BackLoc \in DOMAIN d
  BY <1>1, Counters DEF RInv, QInv, ImageOK
<1>4. /\ DOMAIN n = DOMAIN d /\ Back(n) = Succ(Back(d))
      /\ \A l \in DOMAIN d : l # BackLoc => n[l] = d[l]
  BY <1>2, <1>3 DEF Back, BackLoc
<1>5. pc' = "enq_new" /\ f' = f /\ durable' = durable
  BY DEF EnqueueBack
<1> HIDE DEF n
<1>6. CallOK'
  BY <1>1, <1>2, <1>4, <1>5 DEF CallOK, QueueExists, Objects, queue_size, Front, Back,
     Capacity, EnqueuePos, Succ, BackLoc, n
<1> QED
  BY <1>5, <1>6, SameRing DEF RInv

(* entry = TX_NEW; entry->value = data *)
LEMMA RingEntry ==
  ASSUME RInv, EnqueueNew
  PROVE  (Ring(durable) /\ CallOK)'
<1> DEFINE d == durable
           n == pm'.mem
<1>1. /\ pm.doomed = {} /\ DOMAIN pm.mem = DOMAIN d /\ Back(pm.mem) = Succ(Back(d))
      /\ \A l \in DOMAIN d : l # BackLoc => pm.mem[l] = d[l]
      /\ QueueExists(d) /\ f.data \in Data /\ queue_size(d) < Capacity(d)
      /\ f.pos = EnqueuePos(d) /\ IsTx(pm)
  BY DEF RInv, CallOK, EnqueueNew, QInv
<1>2. PICK e \in Entries \ Objects(pm.mem) :
        /\ pm' = TxAlloc(pm, e, [l \in {<<e, "value", 0>>} |-> f.data])
        /\ f' = [f EXCEPT !.entry = e]
  BY DEF EnqueueNew
<1> DEFINE c == [l \in {<<e, "value", 0>>} |-> f.data]
<1>3. DOMAIN c = {ValueLoc(e)} /\ c[ValueLoc(e)] = f.data
  BY DEF ValueLoc
<1>4. pm' = TxAlloc(pm, e, c)
  BY <1>2
<1> HIDE DEF c
<1>5. /\ DOMAIN n = DOMAIN d \cup {ValueLoc(e)} /\ n[ValueLoc(e)] = f.data
      /\ \A l \in DOMAIN d \ {ValueLoc(e)} : n[l] = pm.mem[l]
      /\ pm'.doomed = {}
  BY <1>1, <1>3, <1>4, TxAllocFields
<1>6. e \in Entries \ Objects(d)
  BY <1>1, <1>2 DEF Objects
<1>7. \A l \in DOMAIN d : l # ValueLoc(e)
  BY <1>6 DEF Objects, ValueLoc
<1>8. BackLoc \in DOMAIN d
  BY <1>1, Counters DEF RInv, QInv, ImageOK
<1>9. /\ \A l \in DOMAIN d : l # BackLoc => n[l] = d[l]
      /\ Back(n) = Succ(Back(d))
  BY <1>1, <1>5, <1>7, <1>8 DEF Back, BackLoc
<1>10. /\ f'.entry = e /\ f'.data = f.data /\ f'.pos = f.pos
  BY <1>2 DEF RInv, QInv, FrameOK
<1>11. pc' = "enq_slot" /\ durable' = durable
  BY DEF EnqueueNew
<1> HIDE DEF n
<1>12. CallOK'
  BY <1>1, <1>5, <1>6, <1>9, <1>10, <1>11 DEF CallOK, QueueExists, Objects, queue_size, Front,
     Back, Capacity, EnqueuePos, Succ, BackLoc, ValueLoc, n
<1> QED
  BY <1>11, <1>12, SameRing DEF RInv

(* queue->entries[pos] = entry : the image the commit will make durable. *)
LEMMA RingSlot ==
  ASSUME RInv, EnqueueSlot, InStep
  PROVE  (Ring(durable) /\ CallOK)'
<1> DEFINE d == durable
           n == pm'.mem
           e == f.entry
           l == <<"queue", "entries", f.pos>>
<1>1. /\ pm.doomed = {} /\ f.entry \in Entries \ Objects(d)
      /\ DOMAIN pm.mem = DOMAIN d \cup {ValueLoc(f.entry)}
      /\ Back(pm.mem) = Succ(Back(d)) /\ pm.mem[ValueLoc(f.entry)] = f.data
      /\ \A x \in DOMAIN d : x # BackLoc => pm.mem[x] = d[x]
      /\ QueueExists(d) /\ f.data \in Data /\ queue_size(d) < Capacity(d)
      /\ f.pos = EnqueuePos(d) /\ IsTx(pm)
  BY DEF RInv, CallOK, EnqueueSlot, QInv
<1>2. n = [pm.mem EXCEPT ![l] = e] /\ pm'.doomed = {}
  <2>1. /\ pm'.mem = [pm.mem EXCEPT ![<<"queue", "entries", f.pos>>] = f.entry]
        /\ pm'.doomed = pm.doomed
    BY ZenonT(40), SetFieldFacts DEF EnqueueSlot, RInv, QInv
  <2> QED
    BY <1>1, <2>1
<1>3. l \in DOMAIN d /\ BackLoc \in DOMAIN d
  <2>1. QueueOK(d)
    BY DEF RInv, QInv, ImageOK
  <2>2. /\ \A i \in 0 .. Capacity(d) - 1 : <<"queue", "entries", i>> \in DOMAIN d
        /\ BackLoc \in DOMAIN d /\ queue_size(d) \in Nat /\ Capacity(d) \in Nat
    BY <1>1, <2>1, Counters
  <2>3. EnqueuePos(d) \in 0 .. Capacity(d) - 1
    <3>1. Capacity(d) # 0
      BY <1>1, <2>2
    <3> QED
      BY <1>1, <2>1, <2>2, <3>1, Positions
  <2> QED
    BY <1>1, <2>2, <2>3
<1>4. l = <<"queue", "entries", EnqueuePos(d)>> /\ l # BackLoc /\ l # ValueLoc(e)
  <2>1. e # "queue"
    BY <1>1, QueueAssumption
  <2> QED
    BY <1>1, <2>1 DEF BackLoc, ValueLoc
<1>5. Put(d, n, e, f.data)
  <2>1. ValueLoc(e) # BackLoc
    BY DEF ValueLoc, BackLoc
  <2>2. DOMAIN n = DOMAIN d \cup {ValueLoc(e)} /\ n[ValueLoc(e)] = f.data
    BY <1>1, <1>2, <1>4
  <2>3. n[l] = e /\ Back(n) = Succ(Back(d))
    BY <1>1, <1>2, <1>3, <1>4 DEF Back, BackLoc
  <2>4. \A x \in DOMAIN d : x \notin {BackLoc, l} => n[x] = d[x]
    BY <1>1, <1>2
  <2> HIDE DEF n
  <2> QED
    BY <1>1, <1>4, <2>2, <2>3, <2>4 DEF Put, Slot
<1>6. pc' = "commit" /\ durable' = durable /\ f' = f
  BY DEF EnqueueSlot
<1>7. \E v \in Data : Put(d, n, f.entry, v)
  BY <1>1, <1>5
<1> HIDE DEF n
<1>8. CallOK'
  BY <1>1, <1>2, <1>6, <1>7 DEF CallOK, QueueExists, Objects, queue_size, Front,
     Back, Capacity, EnqueuePos, Succ, BackLoc, ValueLoc, Put, Slot, n
<1> QED
  BY <1>6, <1>8, SameRing DEF RInv

(* front++ *)
LEMMA RingFront ==
  ASSUME RInv, DequeueFront
  PROVE  (Ring(durable) /\ CallOK)'
<1> DEFINE d == durable
           n == pm'.mem
<1>1. /\ pm = NoTx(d) /\ pm.mem = d /\ pm.fresh = {} /\ pm.doomed = {} /\ IsTx(pm)
      /\ QueueExists(d) /\ queue_size(d) > 0 /\ f.pos = Front(d) % Capacity(d)
  BY NoTxFields DEF RInv, CallOK, DequeueFront
<1>2. /\ n = [d EXCEPT ![FrontLoc] = Succ(Front(d))]
      /\ pm'.doomed = {} /\ pm'.fresh = {}
  <2>1. /\ pm'.mem = [pm.mem EXCEPT ![<<"queue", "front", 0>>] = Succ(Front(pm.mem))]
        /\ pm'.doomed = pm.doomed /\ pm'.fresh = pm.fresh
    BY ZenonT(40), SetFieldFacts DEF DequeueFront, RInv, QInv
  <2> QED
    BY <1>1, <2>1 DEF FrontLoc
<1>3. FrontLoc \in DOMAIN d
  BY <1>1, Counters DEF RInv, QInv, ImageOK
<1>4. Took(d, n)
  BY <1>2, <1>3 DEF Took, Front, FrontLoc
<1>5. pc' = "deq_free" /\ f' = f /\ durable' = durable
  BY DEF DequeueFront
<1> HIDE DEF n
<1>6. CallOK'
  BY <1>1, <1>2, <1>4, <1>5 DEF CallOK, QueueExists, Objects, queue_size, Front, Back,
     Capacity, Took, Succ, FrontLoc, n
<1> QED
  BY <1>5, <1>6, SameRing DEF RInv

(* TX_FREE(queue->entries[pos]) *)
LEMMA RingFree ==
  ASSUME RInv, DequeueFree
  PROVE  (Ring(durable) /\ CallOK)'
<1> DEFINE d == durable
           x == Slot(pm.mem, f.pos)
<1>1. /\ QueueExists(d) /\ queue_size(d) > 0 /\ f.pos = Front(d) % Capacity(d)
      /\ pm.fresh = {} /\ pm.doomed = {} /\ Took(d, pm.mem) /\ IsTx(pm)
  BY DEF RInv, CallOK, DequeueFree, QInv
<1>2. pm'.mem = pm.mem /\ pm'.doomed = {x}
  BY <1>1, TxFreeLater DEF DequeueFree
<1>3. x = Slot(d, f.pos)
  <2>1. /\ Front(d) \in 0 .. Word - 1 /\ queue_size(d) <= Capacity(d)
        /\ \A i \in 0 .. Capacity(d) - 1 : <<"queue", "entries", i>> \in DOMAIN d
        /\ Capacity(d) \in Nat /\ queue_size(d) \in Nat
    BY <1>1, Counters DEF RInv, QInv, ImageOK
  <2>2. Capacity(d) \in Nat \ {0} /\ Front(d) \in Int
    BY <1>1, <2>1
  <2>3. f.pos \in 0 .. Capacity(d) - 1
    BY <1>1, <2>2, DivMod
  <2> QED
    BY <1>1, <2>1, <2>3 DEF Took, Slot, FrontLoc
<1>4. pc' = "commit" /\ durable' = durable /\ f' = f
  BY DEF DequeueFree
<1>5. CallOK'
  BY <1>1, <1>2, <1>3, <1>4 DEF CallOK, QueueExists, Objects, queue_size, Front,
     Back, Capacity, Succ, FrontLoc, Took, Slot
<1> QED
  BY <1>4, <1>5, SameRing DEF RInv

(* TX_END: an entry was put at the back, or the one at the front taken. *)
LEMMA RingCommit ==
  ASSUME RInv, TxCommit, InStep
  PROVE  /\ (Ring(durable) /\ CallOK)'
         /\ QueueExists(durable) /\ QueueExists(durable')
         /\ Capacity(durable') = Capacity(durable)
         /\ \/ /\ queue_size(durable) < Capacity(durable)
               /\ \E v \in Data : Contents(durable') = Append(Contents(durable), v)
            \/ /\ Contents(durable) # <<>>
               /\ Contents(durable') = Tail(Contents(durable))
<1> DEFINE d == durable
           n == pm.mem
<1>1. /\ durable' = Without(n, pm.doomed) /\ pm' = NoTx(durable') /\ pc' = "idle"
  <2>1. pm' = NoTx(Without(n, pm.doomed)) /\ durable' = pm'.mem /\ pc' = "idle"
    BY DEF TxCommit, Commit
  <2> QED
    BY <2>1, NoTxFields
<1>2. QueueExists(d) /\ ImageOK(d) /\ Ring(d)
  BY DEF RInv, QInv, CallOK, TxCommit
<1>3. ASSUME Ring(durable') PROVE (Ring(durable) /\ CallOK)'
  <2>1. Ring(durable)'
    BY <1>3 DEF Ring, QueueExists, Queued, Held, Pos, Objects, Slot, Front, Back,
       Capacity, queue_size, ValueLoc
  <2>2. CallOK'
    BY <1>1 DEF CallOK
  <2> QED
    BY <2>1, <2>2
<1>4. CASE /\ queue_size(d) < Capacity(d) /\ pm.doomed = {}
           /\ \E v \in Data : Put(d, n, f.entry, v)
  <2>1. PICK v \in Data : Put(d, n, f.entry, v)
    BY <1>4
  <2>2. DOMAIN durable' = DOMAIN n /\ \A l \in DOMAIN n : durable'[l] = n[l]
    BY <1>1, <1>4 DEF Without, LocsOf
  <2>3. {BackLoc, <<"queue", "entries", EnqueuePos(d)>>} \subseteq DOMAIN n
    <3>1. QueueOK(d)
      BY <1>2 DEF ImageOK
    <3>2. /\ \A i \in 0 .. Capacity(d) - 1 : <<"queue", "entries", i>> \in DOMAIN d
          /\ BackLoc \in DOMAIN d /\ queue_size(d) \in Nat /\ Capacity(d) \in Nat
      BY <1>2, <3>1, Counters
    <3>3. Capacity(d) # 0
      BY <1>4, <3>2
    <3>4. EnqueuePos(d) \in 0 .. Capacity(d) - 1
      BY <1>2, <3>1, <3>2, <3>3, Positions
    <3> QED
      BY <2>1, <3>2, <3>4 DEF Put
  <2>4. Put(d, durable', f.entry, v)
    BY <2>1, <2>2, <2>3 DEF Put, Back, Slot, BackLoc
  <2>5. /\ Ring(durable') /\ Contents(durable') = Append(Contents(d), v)
        /\ QueueExists(durable') /\ Capacity(durable') = Capacity(d)
    <3>1. queue_size(d) < Capacity(d)
      BY <1>4
    <3> QED
      BY <1>2, <2>4, <3>1, PutRing
  <2> QED
    BY <1>2, <1>3, <1>4, <2>5
<1>5. CASE /\ queue_size(d) > 0 /\ pm.doomed = {Slot(d, Front(d) % Capacity(d))}
           /\ Took(d, n)
  <2>1. queue_size(d) > 0 /\ Took(d, n)
    BY <1>5
  <2> DEFINE p == Without(n, {Slot(d, Front(d) % Capacity(d))})
  <2>2. durable' = p
    BY <1>1, <1>5
  <2>3. /\ Ring(p) /\ Contents(p) = Tail(Contents(d)) /\ Contents(d) # <<>>
        /\ QueueExists(p) /\ Capacity(p) = Capacity(d)
    BY <1>2, <2>1, TookRing
  <2> HIDE DEF p
  <2> QED
    BY <1>2, <1>3, <2>2, <2>3
<1> QED
  BY <1>4, <1>5 DEF RInv, CallOK, TxCommit

(* An abort and a crash go back to the committed image. *)
LEMMA RingBackOut ==
  ASSUME RInv, TxAbort \/ Crash
  PROVE  (Ring(durable) /\ CallOK)'
<1>1. pm' = NoTx(durable) /\ durable' = durable /\ pc' = "idle"
  BY DEF TxAbort, Crash, Rollback, RInv, QInv, RollbackExact
<1> QED
  BY <1>1, RingRest DEF RInv
-----------------------------------------------------------------------------
(* The ring stays whole: the slots from front to back hold every entry allocated, each
   once, at every step of every call and after any abort or crash. *)
THEOREM QueueRing == InStep => (Spec => []RInv)
<1> SUFFICES ASSUME InStep PROVE Spec => []RInv
  OBVIOUS
<1>1. RInv /\ QInv' /\ [Next]_vars => RInv'
  <2> SUFFICES ASSUME RInv, QInv', [Next]_vars PROVE (Ring(durable) /\ CallOK)'
    BY DEF RInv
  <2>1. CASE \E c \in Capacities : queue_new(c)
    BY <2>1, RingNew
  <2>2. CASE (\E d \in Data : queue_enqueue(d)) \/ queue_dequeue
    BY <2>2, RingCall
  <2>3. CASE EnqueueBack
    BY <2>3, RingBack
  <2>4. CASE EnqueueNew
    BY <2>4, RingEntry
  <2>5. CASE EnqueueSlot
    BY <2>5, RingSlot
  <2>6. CASE DequeueFront
    BY <2>6, RingFront
  <2>7. CASE DequeueFree
    BY <2>7, RingFree
  <2>8. CASE TxCommit
    BY <2>8, RingCommit
  <2>9. CASE TxAbort \/ Crash
    BY <2>9, RingBackOut
  <2>10. CASE UNCHANGED vars
    <3>1. Ring(durable)'
      BY <2>10, SameRing DEF RInv, vars
    <3>2. CallOK'
      BY <2>10 DEF RInv, CallOK, vars, QueueExists, Objects, queue_size, Front, Back,
         Capacity, EnqueuePos, Succ, BackLoc, FrontLoc, ValueLoc, Put, Took, Slot
    <3> QED
      BY <3>1, <3>2
  <2> QED
    BY <2>1, <2>2, <2>3, <2>4, <2>5, <2>6, <2>7, <2>8, <2>9, <2>10 DEF Next
<1> QED
  BY <1>1, RingInit, QueueInvariant, PTL DEF Spec

(* Between calls queue.c has lost no entry and queued none twice: the slots from front
   to back hold all the entries of the pool, in as many slots as there are entries,
   however often the counters wrapped. *)
THEOREM QueueLiveWindow == InStep => (Spec => []LiveWindow)
<1> SUFFICES ASSUME InStep PROVE Spec => []LiveWindow
  OBVIOUS
<1>1. RInv => LiveWindow
  <2> SUFFICES ASSUME RInv, pc = "idle", QueueExists(pm.mem)
               PROVE  LET m == pm.mem
                          entryOf(n) == Slot(m, n % Capacity(m))
                      IN  /\ {entryOf(n) : n \in Live(m)} = Objects(m) \ {"queue"}
                          /\ Cardinality(Live(m)) = Cardinality(Objects(m) \ {"queue"})
    BY DEF LiveWindow
  <2> DEFINE m == pm.mem
             entryOf(n) == Slot(m, n % Capacity(m))
             at(i) == (Front(m) + i) % Word
             E == Objects(m) \ {"queue"}
             L == Live(m)
             g == [n \in L |-> entryOf(n)]
  <2>1. Ring(m) /\ QueueOK(m) /\ QueueExists(m)
    BY NoTxFields DEF RInv, QInv, ImageOK, CallOK
  <2>2. E = {Held(m, i) : i \in Queued(m)}
    <3>1. "queue" \notin Entries
      BY QueueAssumption
    <3> QED
      BY <2>1, <3>1 DEF Ring
  <2>3. L = {at(i) : i \in Queued(m)} /\ \A i \in Queued(m) : entryOf(at(i)) = Held(m, i)
    BY DEF Live, Queued, Held, Pos
  <2>4. {entryOf(n) : n \in L} = E
    BY <2>2, <2>3
  <2>5. \A i, j \in Queued(m) : Held(m, i) = Held(m, j) => i = j
    BY <2>1 DEF Ring
  <2>6. IsFiniteSet(L)
    <3>1. Word \in Nat \ {0} /\ Front(m) \in Nat
      BY <2>1, Counters
    <3>2. \A i \in Queued(m) : at(i) \in 0 .. Word - 1
      <4> SUFFICES ASSUME NEW i \in Queued(m) PROVE at(i) \in 0 .. Word - 1
        OBVIOUS
      <4>1. Front(m) + i \in Int
        BY <3>1 DEF Queued
      <4> QED
        BY <3>1, <4>1, DivMod
    <3>3. L \subseteq 0 .. Word - 1
      BY <2>3, <3>2
    <3>4. IsFiniteSet(0 .. Word - 1)
      <4>1. 0 \in Int /\ Word - 1 \in Int
        BY <3>1
      <4> QED
        BY <4>1, FS_Interval
    <3> HIDE DEF L
    <3> QED
      BY <3>3, <3>4, FS_Subset
  <2> HIDE DEF L, E, entryOf, at
  <2>7. g \in Bijection(L, E)
    <3>1. g \in [L -> E] /\ \A y \in E : \E n \in L : g[n] = y
      BY <2>4
    <3>2. \A a, b \in L : g[a] = g[b] => a = b
      BY <2>3, <2>5
    <3> HIDE DEF g
    <3> QED
      BY <3>1, <3>2 DEF Bijection, Injection, IsInjective, Surjection
  <2>8. Cardinality(E) = Cardinality(L)
    <3>1. ExistsBijection(L, E)
      BY <2>7 DEF ExistsBijection
    <3> QED
      BY <2>6, <3>1, FS_Bijection
  <2> QED
    BY <2>4, <2>8 DEF L, E, entryOf
<1> QED
  BY <1>1, QueueRing, PTL

(* What a client sees is the committed image. *)
Seen == <<IF QueueExists(Recovered(pm)) THEN Capacity(Recovered(pm)) ELSE -1,
          Contents(Recovered(pm)), ret>>

(* What a step has done to the committed image and the result. *)
FifoSteps ==
  \/ /\ ~QueueExists(durable) /\ QueueExists(durable') /\ ret' = 0
     /\ Capacity(durable') \in Capacities /\ Contents(durable') = Contents(durable)
  \/ /\ QueueExists(durable) /\ QueueExists(durable') /\ ret' = 0
     /\ Capacity(durable') = Capacity(durable)
     /\ \/ /\ Len(Contents(durable)) < Capacity(durable)
           /\ \E v \in Data : Contents(durable') = Append(Contents(durable), v)
        \/ /\ Contents(durable) # <<>>
           /\ Contents(durable') = Tail(Contents(durable))
  \/ durable' = durable /\ ret' \in {ret, -1}

(* As long as its contents are, a queue is. *)
LEMMA ContentsLen ==
  ASSUME NEW m, QueueOK(m), QueueExists(m)
  PROVE  Len(Contents(m)) = queue_size(m)
<1>1. queue_size(m) \in Nat
  BY Counters
<1> DEFINE s == queue_size(m)
           C == Contents(m)
           S == {C[i] : i \in 1 .. s}
<1>2. C = [i \in 1 .. s |-> C[i]]
  BY DEF Contents
<1>3. \A i \in 1 .. s : C[i] \in S
  OBVIOUS
<1> HIDE DEF s, C, S
<1>4. C \in Seq(S) /\ Len(C) = s
  BY <1>1, <1>2, <1>3 DEF s
<1> QED
  BY <1>4 DEF s, C

(* queue_new creates an empty queue; a TX_END appends or takes one value; every other
   step leaves the committed queue alone. *)
LEMMA FifoEffect ==
  ASSUME InStep, RInv, [Next]_vars
  PROVE  FifoSteps
<1>1. QueueOK(durable)
  BY DEF RInv, QInv, ImageOK
<1>2. CASE \E c \in Capacities : queue_new(c)
  <2>1. PICK c \in Capacities : queue_new(c)
    BY <1>2
  <2>2. ~QueueExists(durable)
    BY <2>1, NoTxFields DEF queue_new, RInv, CallOK
  <2>3. CASE durable' = queue_constructor(c) /\ ret' = 0
    <3>1. Front(durable') = 0 /\ Back(durable') = 0 /\ Capacity(durable') = c
      BY <2>3 DEF queue_constructor, Front, Back, Capacity
    <3>2. QueueExists(durable') /\ QueueOK(durable')
      BY <2>3, NewQueue DEF ImageOK
    <3>3. queue_size(durable') = 0
      BY <3>1, QueueAssumption, SubWrap DEF queue_size
    <3>4. Contents(durable') = <<>>
      BY <3>2, <3>3 DEF Contents
    <3>5. Contents(durable) = <<>>
      BY <2>2 DEF Contents
    <3> QED
      BY <2>2, <2>3, <3>1, <3>2, <3>4, <3>5 DEF FifoSteps
  <2>4. CASE ret' = -1 /\ UNCHANGED <<pm, durable>>
    BY <2>4 DEF FifoSteps
  <2> QED
    BY <2>1, <2>3, <2>4 DEF queue_new
<1>3. CASE TxCommit
  <2>1. ret' = 0
    BY <1>3 DEF TxCommit
  <2>2. /\ QueueExists(durable) /\ QueueExists(durable')
        /\ Capacity(durable') = Capacity(durable)
        /\ \/ /\ queue_size(durable) < Capacity(durable)
              /\ \E v \in Data : Contents(durable') = Append(Contents(durable), v)
           \/ /\ Contents(durable) # <<>>
              /\ Contents(durable') = Tail(Contents(durable))
    BY <1>3, RingCommit
  <2> QED
    BY <1>1, <2>1, <2>2, ContentsLen DEF FifoSteps
<1>4. CASE (\E d \in Data : queue_enqueue(d)) \/ queue_dequeue
  BY <1>4 DEF queue_enqueue, queue_dequeue, FifoSteps
<1>5. CASE \/ EnqueueBack \/ EnqueueNew \/ EnqueueSlot \/ DequeueFront \/ DequeueFree
           \/ TxAbort \/ Crash \/ UNCHANGED vars
  BY <1>5 DEF EnqueueBack, EnqueueNew, EnqueueSlot, DequeueFront, DequeueFree, TxAbort,
     Crash, vars, FifoSteps
<1> QED
  BY <1>2, <1>3, <1>4, <1>5 DEF Next

(* queue.c implements FifoQueue: for any pool, data and capacities that divide the word,
   enqueue and dequeue take effect at their commit, on the abstract sequence, or fail
   without effect, and no abort and no crash is seen by a client. *)
THEOREM QueueImplementsFifo == InStep => (Spec => ImplementsFifo)
<1> SUFFICES ASSUME InStep PROVE Spec => ImplementsFifo
  OBVIOUS
<1>1. Init => Fifo!Init
  <2> SUFFICES ASSUME Init PROVE Fifo!Init
    OBVIOUS
  <2>1. Recovered(pm) = durable
    BY QueueInit DEF QInv, RollbackExact
  <2>2. ~QueueExists(durable) /\ ret = 0
    BY DEF Init, QueueExists, Objects
  <2> QED
    BY <2>1, <2>2 DEF Fifo!Init, Contents
<1>2. RInv /\ QInv' /\ [Next]_vars => [Fifo!Next]_Seen
  <2> SUFFICES ASSUME RInv, QInv', [Next]_vars PROVE [Fifo!Next]_Seen
    OBVIOUS
  <2>1. Recovered(pm) = durable /\ Recovered(pm)' = durable'
    BY DEF RInv, QInv, RollbackExact
  <2>2. /\ QueueExists(Recovered(pm))' = QueueExists(durable')
        /\ Capacity(Recovered(pm))' = Capacity(durable')
        /\ Contents(Recovered(pm))' = Contents(durable')
    BY <2>1
  <2>3. FifoSteps
    BY FifoEffect
  <2>4. Capacity(durable) \in Nat \/ ~QueueExists(durable)
    BY Counters DEF RInv, QInv, ImageOK
  <2> QED
    BY <2>1, <2>2, <2>3, <2>4 DEF FifoSteps, Seen, Fifo!Next, Fifo!New, Fifo!Enqueue,
       Fifo!Dequeue, Fifo!Fail
<1> QED
  BY <1>1, <1>2, QueueRing, QueueInvariant, PTL DEF Spec, ImplementsFifo, Fifo!Spec, Seen
=============================================================================
