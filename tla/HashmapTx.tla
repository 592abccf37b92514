----------------------------- MODULE HashmapTx ------------------------------
(***************************************************************************)
(* The persistent hash map of src/map.  A hashmap_tx object points to an   *)
(* array of buckets; each slot is the head of a chain of entries linked    *)
(* through `next'.  Inserting or removing takes one transaction; when it   *)
(* committed, and a chain is too long or the array too empty,              *)
(* hm_tx_rebuild moves every entry to a new array in a second one.         *)
(*                                                                         *)
(* A client (src/cache) may run the calls inside a transaction of its own. *)
(* Then a TX_END in this module commits nothing, and an abort in here      *)
(* unwinds the client's transaction: libpmemobj never resumes the outer    *)
(* transaction after an inner one aborted.                                 *)
(*                                                                         *)
(* One action per group of libpmemobj calls with no store between them,    *)
(* together with the stores that follow: a crash or an abort can come      *)
(* between any two actions.  The map is used by one thread at a time.      *)
(***************************************************************************)
EXTENDS Integers, FiniteSets, PmemTx

CONSTANTS
  Keys,        \* uint64_t keys
  Vals,        \* oids a client stores
  Entries,     \* oids the pool has for entries
  Arrays,      \* oids the pool has for bucket arrays
  Null,        \* TOID_NULL, OID_NULL
  Aborted,     \* no result: the client's transaction was unwound
  Rands,       \* results of rand()
  RebuildLens, \* arguments of HASHMAP_CMD_REBUILD
  MaxBuckets,  \* the largest array the pool has room for
  Word,        \* number of values of uint64_t (2^64 in the build)
  HASH_FUNC_COEFF_P, INIT_BUCKETS_NUM,
  MIN_HASHSET_THRESHOLD, MAX_HASHSET_THRESHOLD

Distinct(A, B) == A \cap B = {}

ASSUME HashmapAssumption ==
  /\ Keys \subseteq Nat /\ Rands \subseteq Nat /\ RebuildLens \subseteq Nat
  /\ MaxBuckets \in Nat
  /\ Word \in Nat \ {0} /\ HASH_FUNC_COEFF_P \in Nat \ {0}
  /\ INIT_BUCKETS_NUM \in 1 .. MaxBuckets
  /\ MIN_HASHSET_THRESHOLD \in Nat /\ MAX_HASHSET_THRESHOLD \in Nat
  /\ Distinct(Entries, Arrays)
  /\ Distinct({"root", "map", Null}, Entries \cup Arrays)
  /\ Null \notin Vals \cup {"root", "map"}
  /\ IsFiniteSet(Entries) /\ Cardinality(Entries) < Word

VARIABLES
  pm,       \* persistent memory and the running transaction (PmemTx)
  durable,  \* history: the image the last outermost commit left
  outer,    \* the client has a transaction of its own open
  pc,       \* where the running call is
  f,        \* its locals
  ret       \* what the running (Null: not known yet) or the last call returns

vars == <<pm, durable, outer, pc, f, ret>>

MapLoc        == <<"root", "map", 0>>       \* the TOID the client keeps
FunA          == <<"map", "hash_fun_a", 0>>
FunB          == <<"map", "hash_fun_b", 0>>
CountLoc      == <<"map", "count", 0>>
BucketsLoc    == <<"map", "buckets", 0>>
LenLoc(b)     == <<b, "nbuckets", 0>>
SlotLoc(b, i) == <<b, "bucket", i>>
KeyLoc(e)     == <<e, "key", 0>>
ValueLoc(e)   == <<e, "value", 0>>
NextLoc(e)    == <<e, "next", 0>>

MapExists(m) == m[MapLoc] # Null
Slots(m, b)  == 0 .. m[LenLoc(b)] - 1

(* uint64_t arithmetic wraps before the two remainders are taken. *)
hash(m, b, key) ==
  (((m[FunA] * key + m[FunB]) % Word) % HASH_FUNC_COEFF_P) % m[LenLoc(b)]

(* The n-th entry of the chain that starts at e, Null past its end. *)
Nth(m, e) ==
  LET nth[n \in Nat] ==
        IF n = 0 THEN e
        ELSE LET prev == nth[n - 1]
             IN  IF prev = Null THEN Null ELSE m[NextLoc(prev)]
  IN  nth

(* Chains are never longer than the number of entries. *)
ChainLens == 0 .. Cardinality(Entries)

Chain(m, e) == {Nth(m, e)[n] : n \in ChainLens} \ {Null}

(* The entries in the chains of array b. *)
InArray(m, b) == UNION {Chain(m, m[SlotLoc(b, i)]) : i \in Slots(m, b)}

(* The read-only calls.  Found is the entry at which the walk of the chain of
   key stops: the first with that key, or Null. *)
FoundAtHead(m, key) ==
  LET b == m[BucketsLoc]
      head == m[SlotLoc(b, hash(m, b, key))]
  IN  IF head # Null /\ m[KeyLoc(head)] = key THEN head ELSE Null
Found(m, key) ==
  LET b == m[BucketsLoc]
      nth == Nth(m, m[SlotLoc(b, hash(m, b, key))])
      stops(n) == nth[n] = Null \/ m[KeyLoc(nth[n])] = key
  IN  nth[CHOOSE n \in ChainLens : stops(n) /\ \A i \in 0 .. n - 1 : ~stops(i)]
hm_tx_get(m, key) == LET e == Found(m, key)
                     IN  IF e = Null THEN Null ELSE m[ValueLoc(e)]
hm_tx_lookup(m, key) == IF Found(m, key) = Null THEN 0 ELSE 1
hm_tx_count(m) == m[CountLoc]

(* The entries whose callback hm_tx_foreach calls, when it returns non-zero for
   the keys in stop: `break' only leaves the chain, not the loop on buckets.  It
   returns what the last callback returned, which is left out. *)
hm_tx_foreach(m, stop) ==
  LET b == m[BucketsLoc]
      visited(e) == {Nth(m, e)[n] : n \in {i \in ChainLens :
                       \A j \in 0 .. i - 1 : /\ Nth(m, e)[j] # Null
                                             /\ m[KeyLoc(Nth(m, e)[j])] \notin stop}}
  IN  (UNION {visited(m[SlotLoc(b, i)]) : i \in Slots(m, b)}) \ {Null}

NoFrame == [key |-> Null, value |-> Null, h |-> 0, num |-> 0, buckets |-> Null,
            prev |-> Null, var |-> Null, new_len |-> 0, buckets_new |-> Null]

Init ==
  /\ durable = [l \in {MapLoc} |-> Null]
  /\ pm = NoTx(durable)
  /\ outer = FALSE
  /\ pc = "idle"
  /\ f = NoFrame
  /\ ret = Null
-----------------------------------------------------------------------------
(* Transactions. *)

(* The client opens and closes its transaction. *)
TxBegin ==
  /\ pc = "idle" /\ ~outer
  /\ outer' = TRUE
  /\ UNCHANGED <<pm, durable, pc, f, ret>>

TxCommit ==
  /\ pc = "idle" /\ outer
  /\ pm' = Commit(pm)
  /\ durable' = pm'.mem
  /\ outer' = FALSE
  /\ UNCHANGED <<pc, f, ret>>

(* TX_END of a call whose work left the pool in state p. *)
TxEnd(p) ==
  /\ pm' = IF outer THEN p ELSE Commit(p)
  /\ durable' = IF outer THEN durable ELSE pm'.mem
  /\ UNCHANGED outer

Return(r) == pc' = "idle" /\ f' = NoFrame /\ ret' = r

(* What the call returns when a libpmemobj call in its transaction fails.
   hm_tx_rebuild swallows the abort, so the caller's result stands. *)
OnAbortUnswallowed == IF pc \in {"rm_log", "rm_free"} THEN Null ELSE -1
OnAbort ==
  CASE pc \in {"new", "ins_log", "ins_new"} -> -1
    [] pc \in {"rm_log", "rm_free"} -> Null
    [] OTHER -> ret

(* A TX_ADD*, TX_NEW, TX_ZALLOC or TX_FREE fails, or, when idle, the client
   calls pmemobj_tx_abort.  Inside a client's transaction nothing returns: the
   control goes to the client's TX_ONABORT. *)
TxAbort ==
  /\ \/ pc \in {"new", "ins_log", "ins_new", "rm_log", "rm_free",
                "rb_log", "rb_push", "rb_finish"}
     \/ pc = "idle" /\ outer
  /\ pm' = Rollback(pm)
  /\ outer' = FALSE
  /\ Return(IF outer THEN Aborted ELSE OnAbort)
  /\ UNCHANGED durable

(* The process dies, or create_hashmap calls abort(); the pool is opened again
   and hm_tx_init called, which only seeds rand(). *)
Crash ==
  /\ pc # "idle" \/ outer
  /\ pm' = Rollback(pm)
  /\ outer' = FALSE
  /\ pc' = "idle" /\ f' = NoFrame
  /\ UNCHANGED <<durable, ret>>
-----------------------------------------------------------------------------
(* hm_tx_create and create_hashmap. *)

hm_tx_create ==
  /\ pc = "idle" /\ ~MapExists(pm.mem)
  /\ pc' = "new"
  /\ ret' = Null
  /\ UNCHANGED <<pm, durable, outer, f>>

(* TX_ADD_DIRECT(map); *map = TX_ZNEW *)
CreateMap ==
  /\ pc = "new" /\ "map" \notin Objects(pm.mem)
  /\ LET zeroed == [l \in {FunA, FunB, CountLoc, BucketsLoc} |->
                      IF l = BucketsLoc THEN Null ELSE 0]
     IN  pm' = Store(TxAlloc(TxAdd(pm, {MapLoc}), "map", zeroed), MapLoc, "map")
  /\ pc' = "new_buckets"
  /\ UNCHANGED <<durable, outer, f, ret>>

(* A zeroed bucket array b with nbuckets = n. *)
ZeroArray(b, n) ==
  [l \in {LenLoc(b)} \cup {SlotLoc(b, i) : i \in 0 .. n - 1} |->
     IF l = LenLoc(b) THEN n ELSE Null]

(* create_hashmap: the coefficients (a is drawn until it is not 0) and the
   first array.  Its TX_ONABORT ends the process: see Crash. *)
create_hashmap ==
  /\ pc = "new_buckets"
  /\ \E a \in Rands \ {0}, b \in Rands, arr \in Arrays \ Objects(pm.mem) :
       LET p == TxAlloc(TxAdd(pm, LocsOf(pm.mem, {"map"})), arr,
                        ZeroArray(arr, INIT_BUCKETS_NUM))
       IN  TxEnd(Store(Store(Store(p, FunA, a), FunB, b), BucketsLoc, arr))
  /\ Return(0)
-----------------------------------------------------------------------------
(* hm_tx_insert *)

(* The frame of a call that starts to walk the chain of key. *)
Walk(key) ==
  LET b == pm.mem[BucketsLoc]
      h == hash(pm.mem, b, key)
  IN  [NoFrame EXCEPT !.key = key, !.buckets = b, !.h = h,
                      !.var = pm.mem[SlotLoc(b, h)]]

hm_tx_insert(key, value) ==
  /\ pc = "idle" /\ MapExists(pm.mem)
  /\ pc' = "ins_scan"
  /\ f' = [Walk(key) EXCEPT !.value = value]
  /\ ret' = Null
  /\ UNCHANGED <<pm, durable, outer>>

(* One turn of the loop that looks for the key. *)
InsertScan ==
  /\ pc = "ins_scan"
  /\ \/ /\ f.var = Null
        /\ pc' = "ins_log"
        /\ UNCHANGED <<f, ret>>
     \/ /\ f.var # Null /\ pm.mem[KeyLoc(f.var)] = f.key
        /\ Return(1)
     \/ /\ f.var # Null /\ pm.mem[KeyLoc(f.var)] # f.key
        /\ f' = [f EXCEPT !.var = pm.mem[NextLoc(@)], !.num = @ + 1]
        /\ UNCHANGED <<pc, ret>>
  /\ UNCHANGED <<pm, durable, outer>>

(* What hm_tx_insert snapshots. *)
InsertLogsNoCount == {SlotLoc(pm.mem[BucketsLoc], f.h)}
InsertLogs == {SlotLoc(pm.mem[BucketsLoc], f.h), CountLoc}

InsertLog ==
  /\ pc = "ins_log"
  /\ pm' = TxAdd(pm, InsertLogs)
  /\ pc' = "ins_new"
  /\ UNCHANGED <<durable, outer, f, ret>>

(* e = TX_NEW and the stores to it *)
InsertNew ==
  /\ pc = "ins_new"
  /\ \E e \in Entries \ Objects(pm.mem) :
       /\ pm' = TxAlloc(pm, e, [l \in {KeyLoc(e), ValueLoc(e), NextLoc(e)} |->
                  CASE l = KeyLoc(e)   -> f.key
                    [] l = ValueLoc(e) -> f.value
                    [] OTHER           -> pm.mem[SlotLoc(f.buckets, f.h)]])
       /\ f' = [f EXCEPT !.var = e]
  /\ pc' = "ins_link"
  /\ UNCHANGED <<durable, outer, ret>>

(* bucket[h] = e; count++; num++ *)
InsertLink ==
  /\ pc = "ins_link"
  /\ pm' = Store(Store(pm, SlotLoc(f.buckets, f.h), f.var),
                 CountLoc, (pm.mem[CountLoc] + 1) % Word)
  /\ f' = [f EXCEPT !.num = @ + 1]
  /\ pc' = "ins_end"
  /\ UNCHANGED <<durable, outer, ret>>

(* Go on to hm_tx_rebuild, or return. *)
Rebuild(new_len) ==
  /\ pc' = "rb_log"
  /\ f' = [NoFrame EXCEPT !.buckets = pm.mem[BucketsLoc], !.new_len = new_len]
Done == pc' = "idle" /\ f' = NoFrame

InsertEnd ==
  /\ pc = "ins_end"
  /\ TxEnd(pm)
  /\ LET m == pm.mem
         len == m[LenLoc(f.buckets)]
     IN  IF \/ f.num > MAX_HASHSET_THRESHOLD
            \/ f.num > MIN_HASHSET_THRESHOLD /\ m[CountLoc] > 2 * len
         THEN Rebuild(2 * len) ELSE Done
  /\ ret' = 0
-----------------------------------------------------------------------------
(* hm_tx_remove *)

hm_tx_remove(key) ==
  /\ pc = "idle" /\ MapExists(pm.mem)
  /\ pc' = "rm_scan"
  /\ f' = Walk(key)
  /\ ret' = Null
  /\ UNCHANGED <<pm, durable, outer>>

RemoveScan ==
  /\ pc = "rm_scan"
  /\ \/ /\ f.var = Null
        /\ Return(Null)
     \/ /\ f.var # Null /\ pm.mem[KeyLoc(f.var)] = f.key
        /\ pc' = "rm_log"
        /\ UNCHANGED <<f, ret>>
     \/ /\ f.var # Null /\ pm.mem[KeyLoc(f.var)] # f.key
        /\ f' = [f EXCEPT !.prev = f.var, !.var = pm.mem[NextLoc(f.var)]]
        /\ UNCHANGED <<pc, ret>>
  /\ UNCHANGED <<pm, durable, outer>>

(* The location that points to the entry to remove. *)
LinkLoc == IF f.prev = Null THEN SlotLoc(f.buckets, f.h) ELSE NextLoc(f.prev)

(* Snapshot the link and count, then bypass var and count-- (uint64_t). *)
RemoveUnlink ==
  /\ pc = "rm_log"
  /\ LET p == TxAdd(TxAdd(pm, {LinkLoc}), {CountLoc})
     IN  pm' = Store(Store(p, LinkLoc, pm.mem[NextLoc(f.var)]),
                     CountLoc, (pm.mem[CountLoc] - 1) % Word)
  /\ pc' = "rm_free"
  /\ UNCHANGED <<durable, outer, f, ret>>

(* retoid *)
RemovedKey == pm.mem[KeyLoc(f.var)]
Removed == pm.mem[ValueLoc(f.var)]

(* TX_FREE(var), TX_END and the check whether the array is too empty. *)
RemoveFree ==
  /\ pc = "rm_free"
  /\ TxEnd(TxFree(pm, f.var))
  /\ LET m == pm.mem
         len == m[LenLoc(f.buckets)]
     IN  IF m[CountLoc] < len THEN Rebuild(len \div 2) ELSE Done
  /\ ret' = Removed
-----------------------------------------------------------------------------
(* hm_tx_rebuild, after an insert or a remove or for HASHMAP_CMD_REBUILD. *)

(* HASHMAP_CMD_REBUILD.  The other commands change nothing: HASHMAP_CMD_DEBUG prints,
   or returns -EINVAL without a file, as any other number does. *)
hm_tx_cmd(arg) ==
  /\ pc = "idle" /\ MapExists(pm.mem)
  /\ pc' = "rb_log"
  /\ f' = [NoFrame EXCEPT !.buckets = pm.mem[BucketsLoc], !.new_len = arg]
  /\ ret' = 0
  /\ UNCHANGED <<pm, durable, outer>>

(* new_len = 0 keeps the number of buckets. *)
NewLenUnchecked == f.new_len
NewLen == IF f.new_len = 0 THEN pm.mem[LenLoc(f.buckets)] ELSE f.new_len

(* Snapshot hashmap.buckets and the whole old array, allocate the new one. *)
RebuildLog ==
  /\ pc = "rb_log"
  /\ NewLen <= MaxBuckets
  /\ \E b \in Arrays \ Objects(pm.mem) :
       /\ pm' = TxAdd(TxAlloc(TxAdd(pm, {BucketsLoc}), b, ZeroArray(b, NewLen)),
                      LocsOf(pm.mem, {f.buckets}))
       /\ f' = [f EXCEPT !.buckets_new = b]
  /\ pc' = "rb_loop"
  /\ UNCHANGED <<durable, outer, ret>>

(* The old slots still to be emptied. *)
Pending == {i \in Slots(pm.mem, f.buckets) : pm.mem[SlotLoc(f.buckets, i)] # Null}

(* What bucket_old[i] becomes when its head en is moved. *)
TakeNothing(en) == en
TakeHead(en) == pm.mem[NextLoc(en)]

(* en = bucket_old[i]; bucket_old[i] = en->next, for the first such i *)
RebuildTake ==
  /\ pc = "rb_loop" /\ Pending # {}
  /\ LET i  == CHOOSE j \in Pending : \A k \in Pending : j <= k
         en == pm.mem[SlotLoc(f.buckets, i)]
     IN  /\ pm' = Store(pm, SlotLoc(f.buckets, i), TakeHead(en))
         /\ f' = [f EXCEPT !.var = en,
                           !.h = hash(pm.mem, f.buckets_new, pm.mem[KeyLoc(en)])]
  /\ pc' = "rb_push"
  /\ UNCHANGED <<durable, outer, ret>>

(* TX_ADD_FIELD(en, next), then push en on bucket_new[h] *)
RebuildPush ==
  /\ pc = "rb_push"
  /\ LET slot == SlotLoc(f.buckets_new, f.h)
     IN  pm' = Store(Store(TxAdd(pm, {NextLoc(f.var)}),
                           NextLoc(f.var), pm.mem[slot]), slot, f.var)
  /\ f' = [f EXCEPT !.var = Null, !.h = 0]
  /\ pc' = "rb_loop"
  /\ UNCHANGED <<durable, outer, ret>>

(* hashmap.buckets = buckets_new *)
RebuildSwitch ==
  /\ pc = "rb_loop" /\ Pending = {}
  /\ pm' = Store(pm, BucketsLoc, f.buckets_new)
  /\ pc' = "rb_finish"
  /\ UNCHANGED <<durable, outer, f, ret>>

RebuildLeak ==
  /\ pc = "rb_finish"
  /\ TxEnd(pm)
  /\ Done
  /\ UNCHANGED ret

(* TX_FREE(buckets_old), TX_END *)
RebuildFree ==
  /\ pc = "rb_finish"
  /\ TxEnd(TxFree(pm, f.buckets))
  /\ Done
  /\ UNCHANGED ret
-----------------------------------------------------------------------------
(* The steps of a call in progress. *)
Step ==
  \/ CreateMap \/ create_hashmap
  \/ InsertScan \/ InsertLog \/ InsertNew \/ InsertLink \/ InsertEnd
  \/ RemoveScan \/ RemoveUnlink \/ RemoveFree
  \/ RebuildLog \/ RebuildTake \/ RebuildPush \/ RebuildSwitch \/ RebuildFree

Next ==
  \/ TxBegin \/ TxCommit \/ TxAbort \/ Crash
  \/ hm_tx_create
  \/ \E k \in Keys, v \in Vals : hm_tx_insert(k, v)
  \/ \E k \in Keys : hm_tx_remove(k)
  \/ \E n \in RebuildLens : hm_tx_cmd(n)
  \/ Step

Spec == Init /\ [][Next]_vars

(* A thread that runs a call goes on running it, and a step that cannot succeed
   aborts.  Nothing makes a client call, commit or abort. *)
FairSpec == Spec /\ WF_vars(Step \/ (pc # "idle" /\ TxAbort))
-----------------------------------------------------------------------------
(* Properties. *)

(* The values of the control state and the objects there can be. *)
TypeOK ==
  /\ pc \in {"idle", "new", "new_buckets", "ins_scan", "ins_log", "ins_new",
             "ins_link", "ins_end", "rm_scan", "rm_log", "rm_free",
             "rb_log", "rb_loop", "rb_push", "rb_finish"}
  /\ outer \in BOOLEAN
  /\ ret \in {0, 1, -1, Null, Aborted} \cup Vals
  /\ Objects(pm.mem) \subseteq {"root", "map"} \cup Entries \cup Arrays
  /\ pm.fresh \subseteq Objects(pm.mem) \ {"root"}
  /\ pm.doomed \subseteq Objects(pm.mem) \ ({"root", "map"} \cup pm.fresh)

(* At every step of every call, nested or not, what a crash or an abort gives
   back is exactly what the last outermost commit left: every store of
   hashmap_tx.c is to a location it snapshotted or to an object it allocated. *)
RollbackExact == Recovered(pm) = durable

(* `nbuckets' is never 0, so hash never divides by it, and every index a call
   computed lies inside the array it is used on, from the scan to the last store
   and across the switch of arrays in a rebuild. *)
IndexInBounds ==
  LET m == pm.mem
  IN  /\ MapExists(m) /\ pc # "new_buckets" => m[LenLoc(m[BucketsLoc])] > 0
      /\ pc \in {"ins_scan", "ins_log", "ins_new", "ins_link", "rm_scan", "rm_log"} =>
           f.h \in Slots(m, f.buckets) /\ f.buckets = m[BucketsLoc]
      /\ pc = "rb_push" => f.h \in Slots(m, f.buckets_new)

(* Every pointer of image m leads to an allocated object. *)
NoDangling(m) ==
  \A l \in DOMAIN m :
    l[2] \in {"map", "buckets", "bucket", "next"} => m[l] \in Objects(m) \cup {Null}

(* Image m holds a map: its chains end, hold each entry in the slot its key
   hashes to and each key once, `count' is their number, and nothing else is
   allocated. *)
WellFormed(m) ==
  LET b == m[BucketsLoc]
      entries == Objects(m) \cap Entries
  IN  IF ~MapExists(m) THEN Objects(m) = {"root"}
      ELSE /\ NoDangling(m)
           /\ m[LenLoc(b)] > 0
           /\ \A i \in Slots(m, b) :
                /\ Nth(m, m[SlotLoc(b, i)])[Cardinality(Entries)] = Null
                /\ \A e \in Chain(m, m[SlotLoc(b, i)]) : hash(m, b, m[KeyLoc(e)]) = i
           /\ \A e, g \in entries : m[KeyLoc(e)] = m[KeyLoc(g)] => e = g
           /\ Objects(m) = {"root", "map", b} \cup InArray(m, b)
           /\ m[CountLoc] = Cardinality(entries)

(* Between calls the map is well formed, also inside a client's transaction,
   whatever was inserted, removed and rebuilt in it before. *)
MapWellFormed == pc = "idle" => WellFormed(Without(pm.mem, pm.doomed))

(* The pairs the entries E hold. *)
Pairs(m, E) == {<<m[KeyLoc(e)], m[ValueLoc(e)]>> : e \in E}
View(m) == IF MapExists(m) THEN Pairs(m, InArray(m, m[BucketsLoc])) ELSE {}

(* Between calls hm_tx_get, hm_tx_lookup, hm_tx_count and hm_tx_foreach agree on
   the contents, and a foreach whose callback stops at a key that is there gets
   to one. *)
ReadsAgree ==
  (pc = "idle" /\ MapExists(pm.mem)) =>
    LET m == pm.mem
    IN  /\ \A k \in Keys, v \in Vals : <<k, v>> \in View(m) <=> hm_tx_get(m, k) = v
        /\ \A k \in Keys : hm_tx_lookup(m, k) = 1 <=> hm_tx_get(m, k) # Null
        /\ hm_tx_count(m) = Cardinality(View(m))
        /\ Pairs(m, hm_tx_foreach(m, {})) = View(m)
        /\ \A k \in Keys : hm_tx_lookup(m, k) = 1 =>
             \E e \in hm_tx_foreach(m, {k}) : m[KeyLoc(e)] = k

(* The pairs a client sees while a call runs: a call takes effect when its
   TX_END is reached, and while a rebuild runs they are spread over both arrays
   and the entry in hand. *)
Visible ==
  LET m == pm.mem
      here == InArray(m, f.buckets)
  IN  CASE pc = "new_buckets" -> {}
        [] pc = "ins_end" -> Pairs(m, here \ {f.var})
        [] pc = "rm_free" -> Pairs(m, here \cup {f.var})
        [] pc \in {"rb_loop", "rb_push", "rb_finish"} ->
             Pairs(m, (here \cup InArray(m, f.buckets_new) \cup {f.var}) \ {Null})
        [] OTHER -> View(m)

CallInProgress ==
  CASE pc \in {"ins_scan", "ins_log", "ins_new", "ins_link", "ins_end"} ->
         <<"insert", f.key, f.value>>
    [] pc \in {"rm_scan", "rm_log", "rm_free"} -> <<"remove", f.key>>
    [] OTHER -> <<>>

Map == INSTANCE TxMap WITH
  work <- Visible, durable <- View(Recovered(pm)), inTx <- outer,
  call <- CallInProgress

(* The map implements TxMap: atomic calls, all-or-nothing transactions, and a
   rebuild, finished, aborted or cut off by a crash, that no client notices. *)
ImplementsMap == Map!Spec

(* Every call returns: no chain is ever walked in a circle and the loop of
   hm_tx_rebuild comes to an end. *)
CallsReturn == (pc # "idle") ~> (pc = "idle")
=============================================================================
