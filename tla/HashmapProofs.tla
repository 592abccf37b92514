--------------------------- MODULE HashmapProofs ----------------------------
(***************************************************************************)
(* HashmapTx, proved for every set of keys and values, every pool, every   *)
(* hash function and all thresholds, in three parts: what a rollback gives *)
(* back, the shape of the map, and the map that a client sees.             *)
(***************************************************************************)
EXTENDS HashmapTx, PmemTxLemmas, FiniteSetTheorems, WellFoundedInduction
-----------------------------------------------------------------------------
(***************************************************************************)
(* What a rollback gives back.  The invariant says of each point of a call *)
(* which of the stores still to come the undo log already covers:          *)
(* hm_tx_insert and hm_tx_rebuild snapshot in one step what they store to  *)
(* in a later one, so RollbackExact alone is not inductive.                *)
(***************************************************************************)

(* g has the fields of a frame. *)
IsFrame(g) ==
  g = [key |-> g.key, value |-> g.value, h |-> g.h, num |-> g.num,
       buckets |-> g.buckets, prev |-> g.prev, var |-> g.var,
       new_len |-> g.new_len, buckets_new |-> g.buckets_new]

(* What the undo log covers where a call is: the stores of a later step that
   takes no snapshot of its own. *)
LogOK ==
  /\ pc \in {"ins_scan", "ins_log"} => f.buckets = pm.mem[BucketsLoc]
  /\ pc \in {"ins_new", "ins_link"} =>
       Covered(pm, SlotLoc(f.buckets, f.h)) /\ Covered(pm, CountLoc)
  /\ pc \in {"rb_loop", "rb_push"} =>
       /\ \A i : Covered(pm, SlotLoc(f.buckets, i))
       /\ Covered(pm, BucketsLoc)
       /\ f.buckets_new \in pm.fresh

LogInv == IsTx(pm) /\ IsFrame(f) /\ RollbackExact /\ LogOK
-----------------------------------------------------------------------------
(* A location stays covered until the transaction ends. *)
LEMMA CoveredStays ==
  ASSUME NEW p, IsTx(p), NEW l, Covered(p, l)
  PROVE  /\ \A x, v : Covered(Store(p, x, v), l)
         /\ \A L : Covered(TxAdd(p, L), l)
         /\ \A o, c : (\A x \in DOMAIN c : x[1] = o) => Covered(TxAlloc(p, o, c), l)
<1>1. ASSUME NEW x, NEW v PROVE Covered(Store(p, x, v), l)
  <2>1. Store(p, x, v).undo = p.undo /\ Store(p, x, v).fresh = p.fresh
    BY DEF IsTx, Store
  <2>2. DOMAIN Store(p, x, v).mem = DOMAIN p.mem
    BY StoreDomain
  <2> QED
    BY <2>1, <2>2 DEF Covered
<1>2. ASSUME NEW L PROVE Covered(TxAdd(p, L), l)
  BY TxAddFields DEF Covered
<1>3. ASSUME NEW o, NEW c, \A x \in DOMAIN c : x[1] = o
      PROVE  Covered(TxAlloc(p, o, c), l)
  BY <1>3, TxAllocFields DEF Covered
<1> QED
  BY <1>1, <1>2, <1>3

(* A snapshot covers what it is taken of. *)
LEMMA TxAddCovers ==
  ASSUME NEW p, IsTx(p), NEW L, NEW l \in L
  PROVE  Covered(TxAdd(p, L), l)
  BY TxAddFields DEF Covered

(* A covered store leaves the image of the last commit alone. *)
LEMMA StoreKeeps ==
  ASSUME NEW p, IsTx(p), NEW l, NEW v, Covered(p, l)
  PROVE  /\ Recovered(Store(p, l, v)) = Recovered(p) /\ IsTx(Store(p, l, v))
         /\ Store(p, l, v).fresh = p.fresh
<1>1. IsTx(Store(p, l, v)) /\ Store(p, l, v).fresh = p.fresh
  BY DEF IsTx, Store
<1> QED
  BY <1>1, StoreRecovered

(* So does an allocation of an object that was not there. *)
LEMMA AllocKeeps ==
  ASSUME NEW p, IsTx(p), NEW o, NEW c,
         o \notin Objects(p.mem), \A l \in DOMAIN c : l[1] = o
  PROVE  /\ Recovered(TxAlloc(p, o, c)) = Recovered(p) /\ IsTx(TxAlloc(p, o, c))
         /\ TxAlloc(p, o, c).fresh = p.fresh \cup {o}
         /\ DOMAIN TxAlloc(p, o, c).mem = DOMAIN p.mem \cup DOMAIN c
  BY TxAllocRecovered, TxAllocFields

(* So do snapshots. *)
LEMMA AddKeeps ==
  ASSUME NEW p, IsTx(p), NEW L
  PROVE  /\ Recovered(TxAdd(p, L)) = Recovered(p) /\ IsTx(TxAdd(p, L))
         /\ TxAdd(p, L).mem = p.mem /\ TxAdd(p, L).fresh = p.fresh
  BY TxAddRecovered, TxAddFields

(* TX_END keeps the image of a client's open transaction, or makes a new one. *)
LEMMA EndKeeps ==
  ASSUME NEW p, IsTx(p), Recovered(p) = durable, TxEnd(p)
  PROVE  IsTx(pm') /\ RollbackExact'
  BY CommitRecovered DEF TxEnd, RollbackExact
-----------------------------------------------------------------------------
(* The invariant holds in a pool without a map. *)
LEMMA LogInit == Init => LogInv
<1> SUFFICES ASSUME Init PROVE LogInv
  OBVIOUS
<1>1. durable = [l \in {MapLoc} |-> durable[l]] /\ pm = NoTx(durable)
  BY DEF Init
<1>2. IsTx(pm) /\ RollbackExact
  BY <1>1, NoTxFields, NoTxRecovered DEF RollbackExact
<1> QED
  BY <1>2 DEF LogInv, LogOK, IsFrame, NoFrame, Init

(* The steps that leave the pool alone and do not start to store. *)
LEMMA LogQuiet ==
  ASSUME LogInv, pc' \notin {"ins_log", "ins_new", "ins_link", "rb_loop", "rb_push"},
         pc' = "ins_scan" => f'.buckets = pm'.mem[BucketsLoc],
         IsFrame(f'), UNCHANGED <<pm, durable>>
  PROVE  LogInv'
  BY DEF LogInv, LogOK, RollbackExact

(* TX_ONABORT and a crash: the log is applied and the call is over. *)
LEMMA LogRollback ==
  ASSUME LogInv, pm' = Rollback(pm), durable' = durable, pc' = "idle", f' = NoFrame
  PROVE  LogInv'
<1>1. IsTx(pm') /\ RollbackExact'
  BY RollbackRecovered DEF LogInv, RollbackExact
<1> QED
  BY <1>1 DEF LogInv, LogOK, IsFrame, NoFrame

(* hm_tx_create and create_hashmap: the TOID is snapshotted, the rest is new. *)
LEMMA LogCreate ==
  ASSUME LogInv, CreateMap \/ create_hashmap
  PROVE  LogInv'
<1>0. IsTx(pm) /\ IsFrame(f) /\ Recovered(pm) = durable
  BY DEF LogInv, RollbackExact
<1>1. CASE CreateMap
  <2> DEFINE z == [l \in {FunA, FunB, CountLoc, BucketsLoc} |->
                     IF l = BucketsLoc THEN Null ELSE 0]
             p1 == TxAdd(pm, {MapLoc})
             p2 == TxAlloc(p1, "map", z)
  <2>1. IsTx(p1) /\ Recovered(p1) = Recovered(pm) /\ p1.mem = pm.mem /\ Covered(p1, MapLoc)
    BY <1>0, AddKeeps, TxAddCovers
  <2>2. \A l \in DOMAIN z : l[1] = "map"
    BY DEF FunA, FunB, CountLoc, BucketsLoc
  <2>3. pm' = Store(p2, MapLoc, "map") /\ "map" \notin Objects(pm.mem)
    BY <1>1 DEF CreateMap
  <2> HIDE DEF z, p1
  <2>4. IsTx(p2) /\ Recovered(p2) = Recovered(p1) /\ Covered(p2, MapLoc)
    BY <2>1, <2>2, <2>3, AllocKeeps, CoveredStays
  <2> HIDE DEF p2
  <2>5. IsTx(pm') /\ Recovered(pm') = Recovered(p2)
    BY <2>3, <2>4, StoreKeeps
  <2> QED
    BY <1>0, <1>1, <2>1, <2>4, <2>5 DEF LogInv, LogOK, RollbackExact, CreateMap
<1>2. CASE create_hashmap
  <2>1. PICK a \in Rands \ {0}, b \in Rands, arr \in Arrays \ Objects(pm.mem) :
          LET p == TxAlloc(TxAdd(pm, LocsOf(pm.mem, {"map"})), arr,
                           ZeroArray(arr, INIT_BUCKETS_NUM))
          IN  TxEnd(Store(Store(Store(p, FunA, a), FunB, b), BucketsLoc, arr))
    BY <1>2 DEF create_hashmap
  <2> DEFINE z  == ZeroArray(arr, INIT_BUCKETS_NUM)
             p1 == TxAdd(pm, LocsOf(pm.mem, {"map"}))
             p2 == TxAlloc(p1, arr, z)
             p3 == Store(p2, FunA, a)
             p4 == Store(p3, FunB, b)
             p5 == Store(p4, BucketsLoc, arr)
  <2>2. IsTx(p1) /\ Recovered(p1) = Recovered(pm) /\ p1.mem = pm.mem
    BY <1>0, AddKeeps
  <2>3. Covered(p1, FunA) /\ Covered(p1, FunB) /\ Covered(p1, BucketsLoc)
    BY <1>0, TxAddFields DEF Covered, LocsOf, FunA, FunB, BucketsLoc
  <2>4. \A l \in DOMAIN z : l[1] = arr
    BY DEF ZeroArray, LenLoc, SlotLoc
  <2>5. TxEnd(p5)
    BY <2>1
  <2> HIDE DEF z, p1
  <2>6. /\ IsTx(p2) /\ Recovered(p2) = Recovered(p1)
        /\ Covered(p2, FunA) /\ Covered(p2, FunB) /\ Covered(p2, BucketsLoc)
    BY <2>1, <2>2, <2>3, <2>4, AllocKeeps, CoveredStays
  <2> HIDE DEF p2
  <2>7. /\ IsTx(p3) /\ Recovered(p3) = Recovered(p2)
        /\ Covered(p3, FunB) /\ Covered(p3, BucketsLoc)
    BY <2>6, StoreKeeps, CoveredStays
  <2> HIDE DEF p3
  <2>8. IsTx(p4) /\ Recovered(p4) = Recovered(p3) /\ Covered(p4, BucketsLoc)
    BY <2>7, StoreKeeps, CoveredStays
  <2> HIDE DEF p4
  <2>9. IsTx(p5) /\ Recovered(p5) = Recovered(p4)
    BY <2>8, StoreKeeps
  <2> HIDE DEF p5
  <2>10. IsTx(pm') /\ RollbackExact'
    BY <1>0, <2>2, <2>5, <2>6, <2>7, <2>8, <2>9, EndKeeps
  <2> QED
    BY <1>2, <2>10 DEF create_hashmap, Return, LogInv, LogOK, IsFrame, NoFrame
<1> QED
  BY <1>1, <1>2

(* A call that is done, or goes on to hm_tx_rebuild, has a new frame. *)
LEMMA FrameAtEnd ==
  ASSUME (\E n : Rebuild(n)) \/ Done
  PROVE  IsFrame(f') /\ pc' \in {"idle", "rb_log"}
<1>1. ASSUME NEW n, Rebuild(n)
      PROVE  IsFrame(f') /\ pc' \in {"idle", "rb_log"}
  BY <1>1 DEF Rebuild, NoFrame, IsFrame
<1>2. CASE Done
  BY <1>2 DEF Done, NoFrame, IsFrame
<1> QED
  BY <1>1, <1>2

(* hm_tx_insert: the slot and count are in the log before they are stored to. *)
LEMMA LogInsert ==
  ASSUME LogInv, InsertScan \/ InsertLog \/ InsertNew \/ InsertLink \/ InsertEnd
  PROVE  LogInv'
<1>0. IsTx(pm) /\ IsFrame(f) /\ Recovered(pm) = durable
  BY DEF LogInv, RollbackExact
<1>1. CASE InsertScan
  <2>1. IsFrame(f') /\ (pc' \in {"ins_scan", "ins_log"} => f'.buckets = f.buckets)
    BY <1>0, <1>1 DEF InsertScan, Return, IsFrame, NoFrame
  <2> QED
    BY <1>1, <2>1 DEF InsertScan, Return, LogInv, LogOK, RollbackExact
<1>2. CASE InsertLog
  <2>1. pm' = TxAdd(pm, InsertLogs) /\ f.buckets = pm.mem[BucketsLoc]
    BY <1>2 DEF InsertLog, LogInv, LogOK
  <2>2. IsTx(pm') /\ Recovered(pm') = Recovered(pm)
    BY <1>0, <2>1, AddKeeps
  <2>3. Covered(pm', SlotLoc(f.buckets, f.h)) /\ Covered(pm', CountLoc)
    BY <1>0, <2>1, TxAddCovers DEF InsertLogs
  <2> QED
    BY <1>0, <1>2, <2>2, <2>3 DEF InsertLog, LogInv, LogOK, RollbackExact
<1>3. CASE InsertNew
  <2>1. PICK e \in Entries \ Objects(pm.mem) :
          /\ pm' = TxAlloc(pm, e, [l \in {KeyLoc(e), ValueLoc(e), NextLoc(e)} |->
                     CASE l = KeyLoc(e)   -> f.key
                       [] l = ValueLoc(e) -> f.value
                       [] OTHER           -> pm.mem[SlotLoc(f.buckets, f.h)]])
          /\ f' = [f EXCEPT !.var = e]
    BY <1>3 DEF InsertNew
  <2> DEFINE z == [l \in {KeyLoc(e), ValueLoc(e), NextLoc(e)} |->
                     CASE l = KeyLoc(e)   -> f.key
                       [] l = ValueLoc(e) -> f.value
                       [] OTHER           -> pm.mem[SlotLoc(f.buckets, f.h)]]
  <2>2. \A l \in DOMAIN z : l[1] = e
    BY DEF KeyLoc, ValueLoc, NextLoc
  <2>3. Covered(pm, SlotLoc(f.buckets, f.h)) /\ Covered(pm, CountLoc)
    BY <1>3 DEF InsertNew, LogInv, LogOK
  <2> HIDE DEF z
  <2>4. /\ IsTx(pm') /\ Recovered(pm') = Recovered(pm)
        /\ Covered(pm', SlotLoc(f.buckets, f.h)) /\ Covered(pm', CountLoc)
    BY <1>0, <2>1, <2>2, <2>3, AllocKeeps, CoveredStays DEF z
  <2>5. IsFrame(f') /\ f'.buckets = f.buckets /\ f'.h = f.h
    BY <1>0, <2>1 DEF IsFrame
  <2> QED
    BY <1>0, <1>3, <2>4, <2>5 DEF InsertNew, LogInv, LogOK, RollbackExact
<1>4. CASE InsertLink
  <2> DEFINE p1 == Store(pm, SlotLoc(f.buckets, f.h), f.var)
  <2>1. pm' = Store(p1, CountLoc, (pm.mem[CountLoc] + 1) % Word)
    BY <1>4 DEF InsertLink
  <2>2. Covered(pm, SlotLoc(f.buckets, f.h)) /\ Covered(pm, CountLoc)
    BY <1>4 DEF InsertLink, LogInv, LogOK
  <2>3. IsTx(p1) /\ Recovered(p1) = Recovered(pm) /\ Covered(p1, CountLoc)
    BY <1>0, <2>2, StoreKeeps, CoveredStays
  <2> HIDE DEF p1
  <2>4. IsTx(pm') /\ Recovered(pm') = Recovered(p1)
    BY <2>1, <2>3, StoreKeeps
  <2>5. IsFrame(f')
    BY <1>0, <1>4 DEF InsertLink, IsFrame
  <2> QED
    BY <1>0, <1>4, <2>3, <2>4, <2>5 DEF InsertLink, LogInv, LogOK, RollbackExact
<1>5. CASE InsertEnd
  <2>1. IsTx(pm') /\ RollbackExact'
    BY <1>0, <1>5, EndKeeps DEF InsertEnd
  <2>2. (\E n : Rebuild(n)) \/ Done
    BY <1>5 DEF InsertEnd
  <2>3. IsFrame(f') /\ pc' \in {"idle", "rb_log"}
    BY <2>2, FrameAtEnd
  <2> QED
    BY <2>1, <2>3 DEF LogInv, LogOK
<1> QED
  BY <1>1, <1>2, <1>3, <1>4, <1>5

(* hm_tx_remove: both locations are snapshotted just before the stores. *)
LEMMA LogRemove ==
  ASSUME LogInv, RemoveScan \/ RemoveUnlink \/ RemoveFree
  PROVE  LogInv'
<1>0. IsTx(pm) /\ IsFrame(f) /\ Recovered(pm) = durable
  BY DEF LogInv, RollbackExact
<1>1. CASE RemoveScan
  <2>1. IsFrame(f') /\ pc' \in {"idle", "rm_scan", "rm_log"}
    BY <1>0, <1>1 DEF RemoveScan, Return, IsFrame, NoFrame
  <2> QED
    BY <1>1, <2>1, LogQuiet DEF RemoveScan
<1>2. CASE RemoveUnlink
  <2> DEFINE p1 == TxAdd(pm, {LinkLoc})
             p2 == TxAdd(p1, {CountLoc})
             p3 == Store(p2, LinkLoc, pm.mem[NextLoc(f.var)])
  <2>1. pm' = Store(p3, CountLoc, (pm.mem[CountLoc] - 1) % Word)
    BY <1>2 DEF RemoveUnlink
  <2>2. IsTx(p1) /\ Recovered(p1) = Recovered(pm) /\ Covered(p1, LinkLoc)
    BY <1>0, AddKeeps, TxAddCovers
  <2> HIDE DEF p1
  <2>3. /\ IsTx(p2) /\ Recovered(p2) = Recovered(p1)
        /\ Covered(p2, LinkLoc) /\ Covered(p2, CountLoc)
    BY <2>2, AddKeeps, TxAddCovers, CoveredStays
  <2> HIDE DEF p2
  <2>4. IsTx(p3) /\ Recovered(p3) = Recovered(p2) /\ Covered(p3, CountLoc)
    BY <2>3, StoreKeeps, CoveredStays
  <2> HIDE DEF p3
  <2>5. IsTx(pm') /\ Recovered(pm') = Recovered(p3)
    BY <2>1, <2>4, StoreKeeps
  <2> QED
    BY <1>0, <1>2, <2>2, <2>3, <2>4, <2>5 DEF RemoveUnlink, LogInv, LogOK, RollbackExact
<1>3. CASE RemoveFree
  <2>1. IsTx(pm') /\ RollbackExact'
    BY <1>0, <1>3, EndKeeps, TxFreeRecovered DEF RemoveFree
  <2>2. (\E n : Rebuild(n)) \/ Done
    BY <1>3 DEF RemoveFree
  <2>3. IsFrame(f') /\ pc' \in {"idle", "rb_log"}
    BY <2>2, FrameAtEnd
  <2> QED
    BY <2>1, <2>3 DEF LogInv, LogOK
<1> QED
  BY <1>1, <1>2, <1>3

(* hm_tx_rebuild: the old array and hashmap.buckets are in the log before the
   loop, the new array is an object of the transaction, and each `next' is
   snapshotted just before it is stored to. *)
LEMMA LogRebuild ==
  ASSUME LogInv,
         RebuildLog \/ RebuildTake \/ RebuildPush \/ RebuildSwitch \/ RebuildFree
  PROVE  LogInv'
<1>0. IsTx(pm) /\ IsFrame(f) /\ Recovered(pm) = durable
  BY DEF LogInv, RollbackExact
<1>1. CASE RebuildLog
  <2>1. PICK b \in Arrays \ Objects(pm.mem) :
          /\ pm' = TxAdd(TxAlloc(TxAdd(pm, {BucketsLoc}), b, ZeroArray(b, NewLen)),
                         LocsOf(pm.mem, {f.buckets}))
          /\ f' = [f EXCEPT !.buckets_new = b]
    BY <1>1 DEF RebuildLog
  <2> DEFINE z  == ZeroArray(b, NewLen)
             p1 == TxAdd(pm, {BucketsLoc})
             p2 == TxAlloc(p1, b, z)
  <2>2. /\ IsTx(p1) /\ Recovered(p1) = Recovered(pm) /\ p1.mem = pm.mem
        /\ Covered(p1, BucketsLoc)
    BY <1>0, AddKeeps, TxAddCovers
  <2>3. \A l \in DOMAIN z : l[1] = b
    BY DEF ZeroArray, LenLoc, SlotLoc
  <2>4. pm' = TxAdd(p2, LocsOf(pm.mem, {f.buckets}))
    BY <2>1
  <2> HIDE DEF z, p1
  <2>5. /\ IsTx(p2) /\ Recovered(p2) = Recovered(p1) /\ Covered(p2, BucketsLoc)
        /\ p2.fresh = p1.fresh \cup {b}
        /\ DOMAIN p2.mem = DOMAIN pm.mem \cup DOMAIN z
    BY <2>1, <2>2, <2>3, AllocKeeps, CoveredStays
  <2> HIDE DEF p2
  <2>6. /\ IsTx(pm') /\ Recovered(pm') = Recovered(p2) /\ Covered(pm', BucketsLoc)
        /\ pm'.mem = p2.mem /\ pm'.fresh = p2.fresh
    BY <2>4, <2>5, AddKeeps, CoveredStays
  <2>7. ASSUME NEW i PROVE Covered(pm', SlotLoc(f.buckets, i))
    <3> DEFINE l == SlotLoc(f.buckets, i)
    <3>1. l[1] = f.buckets
      BY DEF SlotLoc
    <3> HIDE DEF l
    <3>2. CASE l \in DOMAIN pm.mem
      <4>1. l \in LocsOf(pm.mem, {f.buckets})
        BY <3>1, <3>2 DEF LocsOf
      <4> QED
        BY <2>4, <2>5, <4>1, TxAddCovers DEF l
    <3>3. CASE l \in DOMAIN z
      <4>1. l[1] \in pm'.fresh
        BY <2>3, <2>5, <2>6, <3>3
      <4> QED
        BY <4>1 DEF Covered, l
    <3> QED
      BY <2>5, <2>6, <3>2, <3>3 DEF Covered, l
  <2>8. IsFrame(f') /\ f'.buckets = f.buckets /\ f'.buckets_new = b
    BY <1>0, <2>1 DEF IsFrame
  <2> QED
    BY <1>0, <1>1, <2>2, <2>5, <2>6, <2>7, <2>8
    DEF RebuildLog, LogInv, LogOK, RollbackExact
<1>2. CASE RebuildTake
  <2>1. PICK i, v, e, h : /\ pm' = Store(pm, SlotLoc(f.buckets, i), v)
                          /\ f' = [f EXCEPT !.var = e, !.h = h]
    BY <1>2 DEF RebuildTake
  <2>2. /\ \A j : Covered(pm, SlotLoc(f.buckets, j))
        /\ Covered(pm, BucketsLoc) /\ f.buckets_new \in pm.fresh
    BY <1>2 DEF RebuildTake, LogInv, LogOK
  <2>3. IsTx(pm') /\ Recovered(pm') = Recovered(pm) /\ pm'.fresh = pm.fresh
    BY <1>0, <2>1, <2>2, StoreKeeps
  <2>4. /\ \A j : Covered(pm', SlotLoc(f.buckets, j))
        /\ Covered(pm', BucketsLoc)
    BY <1>0, <2>1, <2>2, CoveredStays
  <2>5. IsFrame(f') /\ f'.buckets = f.buckets /\ f'.buckets_new = f.buckets_new
    BY <1>0, <2>1 DEF IsFrame
  <2> QED
    BY <1>0, <1>2, <2>2, <2>3, <2>4, <2>5
    DEF RebuildTake, LogInv, LogOK, RollbackExact
<1>3. CASE RebuildPush
  <2> DEFINE slot == SlotLoc(f.buckets_new, f.h)
             p1 == TxAdd(pm, {NextLoc(f.var)})
             p2 == Store(p1, NextLoc(f.var), pm.mem[slot])
  <2>1. pm' = Store(p2, slot, f.var)
    BY <1>3 DEF RebuildPush
  <2>2. /\ \A j : Covered(pm, SlotLoc(f.buckets, j))
        /\ Covered(pm, BucketsLoc) /\ f.buckets_new \in pm.fresh
    BY <1>3 DEF RebuildPush, LogInv, LogOK
  <2>3. slot[1] = f.buckets_new
    BY DEF SlotLoc
  <2> HIDE DEF slot
  <2>4. /\ IsTx(p1) /\ Recovered(p1) = Recovered(pm) /\ Covered(p1, NextLoc(f.var))
        /\ p1.fresh = pm.fresh
        /\ \A j : Covered(p1, SlotLoc(f.buckets, j))
        /\ Covered(p1, BucketsLoc)
    BY <1>0, <2>2, AddKeeps, TxAddCovers, CoveredStays
  <2> HIDE DEF p1
  <2>5. /\ IsTx(p2) /\ Recovered(p2) = Recovered(p1) /\ p2.fresh = pm.fresh
        /\ \A j : Covered(p2, SlotLoc(f.buckets, j))
        /\ Covered(p2, BucketsLoc)
    BY <2>4, StoreKeeps, CoveredStays
  <2> HIDE DEF p2
  <2>6. Covered(p2, slot)
    BY <2>2, <2>3, <2>5 DEF Covered
  <2>7. /\ IsTx(pm') /\ Recovered(pm') = Recovered(p2) /\ pm'.fresh = pm.fresh
        /\ \A j : Covered(pm', SlotLoc(f.buckets, j))
        /\ Covered(pm', BucketsLoc)
    BY <2>1, <2>5, <2>6, StoreKeeps, CoveredStays
  <2>8. IsFrame(f') /\ f'.buckets = f.buckets /\ f'.buckets_new = f.buckets_new
    BY <1>0, <1>3 DEF RebuildPush, IsFrame
  <2> QED
    BY <1>0, <1>3, <2>2, <2>4, <2>5, <2>7, <2>8
    DEF RebuildPush, LogInv, LogOK, RollbackExact
<1>4. CASE RebuildSwitch
  <2>1. IsTx(pm') /\ Recovered(pm') = Recovered(pm)
    BY <1>0, <1>4, StoreKeeps DEF RebuildSwitch, LogInv, LogOK
  <2> QED
    BY <1>0, <1>4, <2>1 DEF RebuildSwitch, LogInv, LogOK, RollbackExact
<1>5. CASE RebuildFree
  <2>1. IsTx(pm') /\ RollbackExact'
    BY <1>0, <1>5, EndKeeps, TxFreeRecovered DEF RebuildFree
  <2>2. IsFrame(f') /\ pc' \in {"idle", "rb_log"}
    BY <1>5, FrameAtEnd DEF RebuildFree
  <2> QED
    BY <2>1, <2>2 DEF LogInv, LogOK
<1> QED
  BY <1>1, <1>2, <1>3, <1>4, <1>5

(* The calls start from a frame of their own and touch nothing persistent. *)
LEMMA LogCalls ==
  ASSUME LogInv,
         \/ TxBegin \/ hm_tx_create
         \/ \E k \in Keys, v \in Vals : hm_tx_insert(k, v)
         \/ \E k \in Keys : hm_tx_remove(k)
         \/ \E n \in RebuildLens : hm_tx_cmd(n)
  PROVE  LogInv'
<1>0. IsFrame(f)
  BY DEF LogInv
<1>1. CASE TxBegin
  BY <1>0, <1>1, LogQuiet DEF TxBegin, LogInv, LogOK
<1>2. CASE hm_tx_create
  BY <1>0, <1>2, LogQuiet DEF hm_tx_create
<1>3. ASSUME NEW k, NEW v, hm_tx_insert(k, v) PROVE LogInv'
  <2>1. IsFrame(f') /\ f'.buckets = pm.mem[BucketsLoc]
    BY <1>3 DEF hm_tx_insert, Walk, NoFrame, IsFrame
  <2> QED
    BY <1>3, <2>1, LogQuiet DEF hm_tx_insert
<1>4. ASSUME NEW k, hm_tx_remove(k) PROVE LogInv'
  <2>1. IsFrame(f')
    BY <1>4 DEF hm_tx_remove, Walk, NoFrame, IsFrame
  <2> QED
    BY <1>4, <2>1, LogQuiet DEF hm_tx_remove
<1>5. ASSUME NEW n, hm_tx_cmd(n) PROVE LogInv'
  <2>1. IsFrame(f')
    BY <1>5 DEF hm_tx_cmd, NoFrame, IsFrame
  <2> QED
    BY <1>5, <2>1, LogQuiet DEF hm_tx_cmd
<1> QED
  BY <1>1, <1>2, <1>3, <1>4, <1>5

(* The commit of a client's transaction. *)
LEMMA LogCommit ==
  ASSUME LogInv, TxCommit
  PROVE  LogInv'
<1>1. IsTx(pm') /\ RollbackExact'
  BY CommitRecovered DEF TxCommit, RollbackExact, LogInv
<1> QED
  BY <1>1 DEF TxCommit, LogInv, LogOK
-----------------------------------------------------------------------------
(* LogInv is inductive: it holds in every state of the map. *)
THEOREM HashmapLogInvariant == Spec => []LogInv
<1>1. LogInv /\ [Next]_vars => LogInv'
  <2> SUFFICES ASSUME LogInv, [Next]_vars PROVE LogInv'
    OBVIOUS
  <2>1. CASE TxAbort \/ Crash
    BY <2>1, LogRollback DEF TxAbort, Crash, Return
  <2>2. CASE UNCHANGED vars
    BY <2>2 DEF vars, LogInv, LogOK, RollbackExact
  <2> QED
    BY <2>1, <2>2, LogCreate, LogInsert, LogRemove, LogRebuild, LogCalls, LogCommit
    DEF Next, Step
<1> QED
  BY <1>1, LogInit, PTL DEF Spec

(* RollbackExact, for every pool, hash function and sequence of calls: an abort
   or a crash at any step of hashmap_tx.c gives back the last commit. *)
THEOREM HashmapRollbackExact == Spec => []RollbackExact
<1>1. LogInv => RollbackExact
  BY DEF LogInv
<1> QED
  BY <1>1, HashmapLogInvariant, PTL
-----------------------------------------------------------------------------
(***************************************************************************)
(* The shape of the map.  Whatever was inserted, removed and rebuilt, in   *)
(* transactions of the map's own or of a client, and wherever a call was   *)
(* cut off, the chains are finite and disjoint, each entry is in the slot  *)
(* of its key, keys are unique and `count' counts.                         *)
(*                                                                         *)
(* A chain is told without recursion: a rank for each entry that falls by  *)
(* one along `next' and is 0 at the end, and no two entries of a slot with *)
(* the same rank.                                                          *)
(***************************************************************************)

Ranks == [Entries -> Nat]

(* The slots S with first entries `head' hold the entries E, each in its `home'. *)
Linked(E, S, head, next, home, rk) ==
  /\ E \subseteq Entries /\ rk \in Ranks
  /\ \A e \in E : home[e] \in S
  /\ \A i \in S : head[i] # Null => head[i] \in E /\ home[head[i]] = i
  /\ \A e \in E : head[home[e]] # Null /\ rk[e] <= rk[head[home[e]]]
  /\ \A e \in E :
       IF rk[e] = 0 THEN next[e] = Null
       ELSE next[e] \in E /\ home[next[e]] = home[e] /\ rk[next[e]] = rk[e] - 1
  /\ \A e, g \in E : home[e] = home[g] /\ rk[e] = rk[g] => e = g

Heads(m, b)    == [i \in Slots(m, b) |-> m[SlotLoc(b, i)]]
Nexts(m, E)    == [e \in E |-> m[NextLoc(e)]]
Homes(m, b, E) == [e \in E |-> hash(m, b, m[KeyLoc(e)])]

(* Array b of image m holds the entries E. *)
Chained(m, b, E, rk) ==
  Linked(E, Slots(m, b), Heads(m, b), Nexts(m, E), Homes(m, b, E), rk)

(* Each object of image m has the fields of its type, and nothing else is there. *)
RootOK(m) == LocsOf(m, {"root"}) = {MapLoc} /\ m[MapLoc] \in {Null, "map"}
MapOK(m) ==
  /\ LocsOf(m, {"map"}) = {FunA, FunB, CountLoc, BucketsLoc}
  /\ m[FunA] \in Nat /\ m[FunB] \in Nat
EntryOK(m, e) ==
  /\ LocsOf(m, {e}) = {KeyLoc(e), ValueLoc(e), NextLoc(e)}
  /\ m[KeyLoc(e)] \in Keys /\ m[ValueLoc(e)] \in Vals
ArrayOK(m, b) ==
  /\ LocsOf(m, {b}) = {LenLoc(b)} \cup {SlotLoc(b, i) : i \in Slots(m, b)}
  /\ m[LenLoc(b)] \in Nat \ {0}

Layout(m) ==
  /\ Objects(m) \subseteq {"root", "map"} \cup Entries \cup Arrays
  /\ RootOK(m)
  /\ "map" \in Objects(m) => MapOK(m)
  /\ \A e \in Entries \cap Objects(m) : EntryOK(m, e)
  /\ \A b \in Arrays \cap Objects(m) : ArrayOK(m, b)

(* The entries E have different keys, and `count' is their number. *)
Counted(m, E) ==
  /\ \A e, g \in E : m[KeyLoc(e)] = m[KeyLoc(g)] => e = g
  /\ m[CountLoc] = Cardinality(E)

(* The objects O of image m are a map, or there is none. *)
Whole(m, O, rk) ==
  IF m[MapLoc] = Null THEN O = {"root"}
  ELSE /\ m[BucketsLoc] \in Arrays
       /\ O = {"root", "map", m[BucketsLoc]} \cup (O \cap Entries)
       /\ Chained(m, m[BucketsLoc], O \cap Entries, rk)
       /\ Counted(m, O \cap Entries)

(* Transaction p, and the objects that its commit would leave. *)
TxOK(p) ==
  /\ IsTx(p) /\ Layout(p.mem)
  /\ p.fresh \subseteq Objects(p.mem) \ {"root"}
  /\ p.doomed \subseteq Objects(p.mem) \ ({"root", "map"} \cup p.fresh)
Left(p) == Objects(p.mem) \ p.doomed
Live == Left(pm)
-----------------------------------------------------------------------------
(* Where a call is, E being the entries in the map. *)

Walking == {"ins_scan", "ins_log", "ins_new", "ins_link", "rm_scan", "rm_log"}
OnArray == Walking \cup {"ins_end", "rm_free", "rb_log"}

Unused(E) == \A e \in E : pm.mem[KeyLoc(e)] # f.key

(* Entry e is in the slot that is being walked. *)
Here(e) == e \in Live \cap Entries /\ hash(pm.mem, f.buckets, pm.mem[KeyLoc(e)]) = f.h

CallOK ==
  /\ pc \in OnArray => pm.mem[MapLoc] = "map" /\ f.buckets = pm.mem[BucketsLoc]
  /\ pc \in Walking => f.key \in Keys /\ f.h = hash(pm.mem, f.buckets, f.key)
  /\ pc = "rb_log" => f.new_len \in Nat

InsertOK(rk) ==
  /\ pc \in {"ins_scan", "ins_log", "ins_new"} => f.value \in Vals
  /\ pc = "ins_scan" =>
       /\ f.var # Null => Here(f.var)
       /\ Unused({e \in Entries : Here(e) /\ (f.var = Null \/ rk[e] > rk[f.var])})
  /\ pc \in {"ins_log", "ins_new"} => Unused(Live \cap Entries)
  /\ pc = "ins_link" =>
       /\ f.var \in Live \cap Entries /\ pm.mem[KeyLoc(f.var)] = f.key
       /\ pm.mem[NextLoc(f.var)] = pm.mem[SlotLoc(f.buckets, f.h)]
       /\ Unused((Live \cap Entries) \ {f.var})

RemoveOK ==
  /\ pc \in {"rm_scan", "rm_log"} =>
       /\ f.var # Null => Here(f.var)
       /\ IF f.prev = Null THEN f.var = pm.mem[SlotLoc(f.buckets, f.h)]
          ELSE Here(f.prev) /\ f.var = pm.mem[NextLoc(f.prev)]
  /\ pc = "rm_log" => f.var # Null
  /\ pc = "rm_free" => f.var \in Live \cap Entries

(* A rebuild has moved the entries N to the new array and has `hand' in hand. *)
Split(N, hand, rk) ==
  LET E == Live \cap Entries
  IN  /\ pm.mem[MapLoc] = "map" /\ pm.mem[BucketsLoc] = f.buckets
      /\ {f.buckets, f.buckets_new} \subseteq Arrays /\ f.buckets # f.buckets_new
      /\ Live = {"root", "map", f.buckets, f.buckets_new} \cup E
      /\ N \subseteq E /\ hand \subseteq E \ N
      /\ Chained(pm.mem, f.buckets, E \ (N \cup hand), rk)
      /\ Chained(pm.mem, f.buckets_new, N, rk)
      /\ Counted(pm.mem, E)

(* What there is besides the map: an entry that is not yet or no longer linked, or the
   array that is to be freed. *)
Loose ==
  CASE pc \in {"ins_link", "rm_free"} -> {f.var}
    [] pc = "rb_finish" -> {f.buckets}
    [] OTHER -> {}

ShapeOK(rk, N) ==
  /\ pc \notin {"new_buckets", "rb_loop", "rb_push"} => Whole(pm.mem, Live \ Loose, rk)
  /\ pc = "new" => pm.mem[MapLoc] = Null
  /\ pc = "new_buckets" =>
       Live = {"root", "map"} /\ pm.mem[MapLoc] = "map" /\ pm.mem[CountLoc] = 0
  /\ pc = "rb_loop" => Split(N, {}, rk)
  /\ pc = "rb_push" =>
       Split(N, {f.var}, rk) /\ f.h = hash(pm.mem, f.buckets_new, pm.mem[KeyLoc(f.var)])
  /\ pc = "rb_finish" =>
       /\ pm.mem[MapLoc] = "map"
       /\ f.buckets \in Live \cap Arrays /\ f.buckets # pm.mem[BucketsLoc]

ControlOK ==
  /\ pc \in {"idle", "new", "new_buckets", "ins_scan", "ins_log", "ins_new",
             "ins_link", "ins_end", "rm_scan", "rm_log", "rm_free",
             "rb_log", "rb_loop", "rb_push", "rb_finish"}
  /\ outer \in BOOLEAN
  /\ ret \in {0, 1, -1, Null, Aborted} \cup Vals

DiskOK(d) == Layout(d) /\ \E rk \in Ranks : Whole(d, Objects(d), rk)

PoolOK(rk, N) == ShapeOK(rk, N) /\ CallOK /\ InsertOK(rk) /\ RemoveOK

MapInv ==
  /\ ControlOK /\ TxOK(pm) /\ DiskOK(durable)
  /\ \E rk \in Ranks, N \in SUBSET Entries : PoolOK(rk, N)
-----------------------------------------------------------------------------
(* What the names of things are not. *)
LEMMA Names ==
  /\ Null \notin Entries /\ Null \notin Arrays /\ Null # "map" /\ Null # "root"
  /\ "root" \notin Entries \cup Arrays /\ "map" \notin Entries \cup Arrays
  /\ Entries \cap Arrays = {}
  BY HashmapAssumption DEF Distinct

-----------------------------------------------------------------------------
(* A set of numbers has a least one. *)
LEMMA LeastOf ==
  ASSUME NEW S \in SUBSET Nat, S # {}
  PROVE  \E j \in S : \A k \in S : j <= k
<1> DEFINE R == StrictSubsetOrdering(Nat)
           T == {0 .. n : n \in S}
<1>1. T # {} /\ T \subseteq FiniteSubsetsOf(Nat)
  <2>1. \A n \in S : IsFiniteSet(0 .. n) /\ 0 .. n \in SUBSET Nat
    BY FS_Interval
  <2> QED
    BY <2>1 DEF FiniteSubsetsOf
<1>2. PICK t \in T : \A y \in T : ~ (<<y, t>> \in R)
  <2> HIDE DEF R, T
  <2> QED
    BY <1>1, FS_StrictSubsetOrderingWellFounded, WFMin DEF R
<1>3. PICK j \in S : t = 0 .. j
  OBVIOUS
<1>4. ASSUME NEW k \in S, k < j PROVE FALSE
  <2>1. 0 .. k \in SUBSET Nat /\ 0 .. j \in SUBSET Nat /\ 0 .. k \subseteq 0 .. j
    BY <1>4
  <2>2. j \in 0 .. j /\ j \notin 0 .. k
    BY <1>4
  <2>3. 0 .. k # 0 .. j
    BY <2>2
  <2>4. <<0 .. k, t>> \in R
    BY <1>3, <2>1, <2>3 DEF StrictSubsetOrdering
  <2> QED
    BY <1>2, <2>4
<1>5. \A k \in S : j <= k
  <2> SUFFICES ASSUME NEW k \in S PROVE j <= k
    OBVIOUS
  <2>1. ~(k < j)
    BY <1>4
  <2> QED
    BY <2>1
<1> QED
  BY <1>5

(* So what holds of 0, and of n + 1 whenever it holds of n, holds of every number. *)
LEMMA Induction ==
  ASSUME NEW S, 0 \in S, \A n \in Nat : n \in S => n + 1 \in S
  PROVE  Nat \subseteq S
<1>1. ASSUME Nat \ S # {} PROVE FALSE
  <2>1. PICK j \in Nat \ S : \A k \in Nat \ S : j <= k
    BY <1>1, LeastOf
  <2>2. j - 1 \in Nat /\ j = (j - 1) + 1 /\ ~(j <= j - 1)
    BY <2>1
  <2> QED
    BY <2>1, <2>2
<1> QED
  BY <1>1
-----------------------------------------------------------------------------
(* Chains, as functions of slots and entries. *)

(* A new entry in front of its slot. *)
LEMMA LinkedPush ==
  ASSUME NEW E, NEW S, NEW head, NEW next, NEW home, NEW rk,
         Linked(E, S, head, next, home, rk),
         NEW head2, NEW next2, NEW home2, NEW h \in S, NEW e \in Entries \ E,
         \A i \in S \ {h} : head2[i] = head[i],
         head2[h] = e, next2[e] = head[h], home2[e] = h,
         \A x \in E : next2[x] = next[x] /\ home2[x] = home[x]
  PROVE  \E rk2 \in Ranks :
           /\ Linked(E \cup {e}, S, head2, next2, home2, rk2)
           /\ \A x \in Entries \ {e} : rk2[x] = rk[x]
<1> DEFINE r   == IF head[h] = Null THEN 0 ELSE rk[head[h]] + 1
           rk2 == [rk EXCEPT ![e] = r]
<1>1. /\ r \in Nat /\ rk2 \in Ranks /\ rk2[e] = r
      /\ \A x \in E : rk2[x] = rk[x]
      /\ \A x \in Entries \ {e} : rk2[x] = rk[x]
  BY DEF Linked, Ranks
<1>2. \A x \in E : home[x] = h => rk[x] < r /\ head[h] # Null
  BY DEF Linked, Ranks
<1> HIDE DEF rk2
<1>3. \A x \in E \cup {e} : home2[x] \in S
  BY DEF Linked
<1>4. \A i \in S : head2[i] # Null => head2[i] \in E \cup {e} /\ home2[head2[i]] = i
  BY DEF Linked
<1>5. \A x \in E \cup {e} : head2[home2[x]] # Null /\ rk2[x] <= rk2[head2[home2[x]]]
  <2>1. head2[home2[e]] # Null /\ rk2[e] <= rk2[head2[home2[e]]]
    BY <1>1, Names
  <2>2. ASSUME NEW x \in E, home[x] = h
        PROVE  head2[home2[x]] # Null /\ rk2[x] <= rk2[head2[home2[x]]]
    BY <1>1, <1>2, <2>2, Names DEF Linked, Ranks
  <2>3. ASSUME NEW x \in E, home[x] # h
        PROVE  head2[home2[x]] # Null /\ rk2[x] <= rk2[head2[home2[x]]]
    BY <1>1, <2>3 DEF Linked
  <2> QED
    BY <2>1, <2>2, <2>3
<1>6. \A x \in E \cup {e} :
        IF rk2[x] = 0 THEN next2[x] = Null
        ELSE next2[x] \in E \cup {e} /\ home2[next2[x]] = home2[x] /\ rk2[next2[x]] = rk2[x] - 1
  <2>1. CASE head[h] = Null
    BY <1>1, <2>1 DEF Linked
  <2>2. CASE head[h] # Null
    <3>1. head[h] \in E /\ home[head[h]] = h /\ rk2[e] = rk[head[h]] + 1 /\ rk[head[h]] \in Nat
      BY <1>1, <2>2 DEF Linked, Ranks
    <3>2. next2[e] \in E \cup {e} /\ home2[next2[e]] = home2[e] /\ rk2[next2[e]] = rk2[e] - 1 /\ rk2[e] # 0
      BY <1>1, <3>1
    <3> QED
      BY <1>1, <3>2 DEF Linked
  <2> QED BY <2>1, <2>2
<1>7. \A x, g \in E \cup {e} : home2[x] = home2[g] /\ rk2[x] = rk2[g] => x = g
  BY <1>1, <1>2 DEF Linked, Ranks
<1> QED
  BY <1>1, <1>3, <1>4, <1>5, <1>6, <1>7 DEF Linked

(* The first entry of a slot goes. *)
LEMMA LinkedPop ==
  ASSUME NEW E, NEW S, NEW head, NEW next, NEW home, NEW rk,
         Linked(E, S, head, next, home, rk),
         NEW head2, NEW next2, NEW home2, NEW h \in S, NEW e,
         head[h] = e, e # Null,
         \A i \in S \ {h} : head2[i] = head[i],
         head2[h] = next[e],
         \A x \in E \ {e} : next2[x] = next[x] /\ home2[x] = home[x]
  PROVE  Linked(E \ {e}, S, head2, next2, home2, rk)
<1>1. e \in E /\ home[e] = h /\ rk[e] \in Nat
  BY DEF Linked, Ranks
<1>2. \A x \in E \ {e} : home[x] = h => rk[x] < rk[e]
  <2> SUFFICES ASSUME NEW x \in E \ {e}, home[x] = h PROVE rk[x] < rk[e]
    OBVIOUS
  <2>1. rk[x] <= rk[e] /\ rk[x] # rk[e] /\ rk[x] \in Nat
    BY <1>1 DEF Linked, Ranks
  <2> QED BY <1>1, <2>1
<1>3. \A i \in S : head2[i] # Null => head2[i] \in E \ {e} /\ home2[head2[i]] = i
  <2>1. head2[h] # Null => head2[h] \in E \ {e} /\ home2[head2[h]] = h
    BY <1>1 DEF Linked
  <2>2. \A i \in S \ {h} : head2[i] # Null => head2[i] \in E \ {e} /\ home2[head2[i]] = i
    BY <1>1 DEF Linked
  <2> QED BY <2>1, <2>2
<1>4. \A x \in E \ {e} : head2[home2[x]] # Null /\ rk[x] <= rk[head2[home2[x]]]
  <2>1. ASSUME NEW x \in E \ {e}, home[x] = h
        PROVE  head2[home2[x]] # Null /\ rk[x] <= rk[head2[home2[x]]]
    <3>1. rk[x] < rk[e] /\ rk[x] \in Nat
      BY <1>2, <2>1 DEF Linked, Ranks
    <3>2. next[e] \in E /\ rk[next[e]] = rk[e] - 1
      BY <1>1, <3>1 DEF Linked
    <3> QED
      BY <1>1, <2>1, <3>1, <3>2, Names DEF Linked
  <2>2. ASSUME NEW x \in E \ {e}, home[x] # h
        PROVE  head2[home2[x]] # Null /\ rk[x] <= rk[head2[home2[x]]]
    BY <2>2 DEF Linked
  <2> QED
    BY <2>1, <2>2
<1>5. \A x \in E \ {e} :
        IF rk[x] = 0 THEN next2[x] = Null
        ELSE next2[x] \in E \ {e} /\ home2[next2[x]] = home2[x] /\ rk[next2[x]] = rk[x] - 1
  <2> SUFFICES ASSUME NEW x \in E \ {e}, rk[x] # 0
               PROVE  next[x] \in E \ {e} /\ home[next[x]] = home[x] /\ rk[next[x]] = rk[x] - 1
    BY DEF Linked
  <2>1. next[x] \in E /\ home[next[x]] = home[x] /\ rk[next[x]] = rk[x] - 1 /\ rk[x] \in Nat
    BY DEF Linked, Ranks
  <2>2. next[x] # e
    BY <1>1, <1>2, <2>1
  <2> QED BY <2>1, <2>2
<1> QED
  BY <1>3, <1>4, <1>5 DEF Linked

(* The entry after p goes: all ranks before it fall by one. *)
LEMMA LinkedCut ==
  ASSUME NEW E, NEW S, NEW head, NEW next, NEW home, NEW rk,
         Linked(E, S, head, next, home, rk),
         NEW head2, NEW next2, NEW home2, NEW p \in E, NEW e,
         next[p] = e, e # Null,
         \A i \in S : head2[i] = head[i],
         next2[p] = next[e],
         \A x \in E \ {e, p} : next2[x] = next[x],
         \A x \in E \ {e} : home2[x] = home[x]
  PROVE  \E rk2 \in Ranks : Linked(E \ {e}, S, head2, next2, home2, rk2)
<1> DEFINE rk2 == [x \in Entries |-> IF x \in E /\ home[x] = home[e] /\ rk[x] > rk[e]
                                     THEN rk[x] - 1 ELSE rk[x]]
<1>0. \A x \in E : rk[x] \in Nat
  BY DEF Linked, Ranks
<1>1. e \in E /\ home[p] = home[e] /\ rk[p] = rk[e] + 1
  BY <1>0 DEF Linked
<1>2. p # e
  BY <1>0, <1>1
<1>3. rk2 \in Ranks
  BY <1>0, <1>1 DEF Linked, Ranks
<1>4. \A x \in E : rk2[x] = IF home[x] = home[e] /\ rk[x] > rk[e] THEN rk[x] - 1 ELSE rk[x]
  BY DEF Linked
<1> HIDE DEF rk2
<1>5. \A x \in E \ {e} : home[x] = home[e] => rk[x] # rk[e]
  BY <1>1 DEF Linked
<1>6. \A x \in E \ {e} : head[home[x]] \in E \ {e}
  <2> SUFFICES ASSUME NEW x \in E \ {e} PROVE head[home[x]] \in E \ {e}
    OBVIOUS
  <2>1. head[home[x]] \in E
    BY DEF Linked
  <2>2. head[home[e]] # e
    BY <1>0, <1>1 DEF Linked
  <2>3. head[home[x]] = e => home[e] = home[x]
    BY DEF Linked
  <2> QED BY <2>1, <2>2, <2>3
<1>7. \A i \in S : head2[i] # Null => head2[i] \in E \ {e} /\ home2[head2[i]] = i
  <2> SUFFICES ASSUME NEW i \in S, head[i] # Null PROVE head[i] \in E \ {e} /\ home[head[i]] = i
    OBVIOUS
  <2>1. head[i] \in E /\ home[head[i]] = i
    BY DEF Linked
  <2>2. head[home[e]] # e
    BY <1>0, <1>1 DEF Linked
  <2> QED BY <2>1, <2>2
<1>8. \A x \in E \ {e} : head2[home2[x]] # Null /\ rk2[x] <= rk2[head2[home2[x]]]
  <2> SUFFICES ASSUME NEW x \in E \ {e} PROVE head[home[x]] # Null /\ rk2[x] <= rk2[head[home[x]]]
    BY DEF Linked
  <2>1. head[home[x]] # Null /\ rk[x] <= rk[head[home[x]]] /\ home[head[home[x]]] = home[x]
    BY DEF Linked
  <2>2. head[home[x]] \in E
    BY <1>6
  <2> QED
    BY <1>0, <1>1, <1>4, <2>1, <2>2
<1>9. \A x \in E \ {e} :
        IF rk2[x] = 0 THEN next2[x] = Null
        ELSE next2[x] \in E \ {e} /\ home2[next2[x]] = home2[x] /\ rk2[next2[x]] = rk2[x] - 1
  <2>1. /\ IF rk2[p] = 0 THEN next[e] = Null
           ELSE next[e] \in E \ {e} /\ home[next[e]] = home[p] /\ rk2[next[e]] = rk2[p] - 1
    <3>1. rk2[p] = rk[e]
      BY <1>0, <1>1, <1>4
    <3>2. CASE rk[e] = 0
      BY <1>1, <3>1, <3>2 DEF Linked
    <3>3. CASE rk[e] # 0
      <4>1. next[e] \in E /\ home[next[e]] = home[e] /\ rk[next[e]] = rk[e] - 1
        BY <1>1, <3>3 DEF Linked
      <4>2. next[e] # e
        BY <1>0, <1>1, <4>1
      <4>3. rk2[next[e]] = rk[e] - 1
        BY <1>0, <1>1, <1>4, <4>1
      <4> QED
        BY <1>1, <3>1, <3>3, <4>1, <4>2, <4>3
    <3> QED BY <3>2, <3>3
  <2>2. ASSUME NEW x \in E \ {e, p}
        PROVE  IF rk2[x] = 0 THEN next[x] = Null
               ELSE next[x] \in E \ {e} /\ home[next[x]] = home[x] /\ rk2[next[x]] = rk2[x] - 1
    <3>1. CASE rk[x] = 0
      BY <1>0, <1>1, <1>4, <3>1 DEF Linked
    <3>2. CASE rk[x] # 0
      <4>1. next[x] \in E /\ home[next[x]] = home[x] /\ rk[next[x]] = rk[x] - 1
        BY <3>2 DEF Linked
      <4>2. next[x] # e
        <5>1. next[x] = e => home[x] = home[p] /\ rk[x] = rk[p]
          BY <1>0, <1>1, <4>1
        <5> QED BY <5>1 DEF Linked
      <4>3. home[x] = home[e] => rk[next[x]] # rk[e] /\ rk[x] # rk[e]
        BY <1>5, <4>1, <4>2
      <4>4. rk2[next[x]] = rk2[x] - 1 /\ rk2[x] # 0
        BY <1>0, <1>1, <1>4, <3>2, <4>1, <4>3
      <4> QED BY <4>1, <4>2, <4>4
    <3> QED BY <3>1, <3>2
  <2>3. \A x \in E \ {e} : x # p => next2[x] = next[x]
    OBVIOUS
  <2>4. \A x \in E \ {e} : home2[x] = home[x]
    OBVIOUS
  <2> QED
    BY <1>2, <2>1, <2>2, <2>3, <2>4
<1>10. \A x, g \in E \ {e} : home2[x] = home2[g] /\ rk2[x] = rk2[g] => x = g
  <2> SUFFICES ASSUME NEW x \in E \ {e}, NEW g \in E \ {e}, home[x] = home[g], rk2[x] = rk2[g]
               PROVE  x = g
    OBVIOUS
  <2>1. rk[x] = rk[g]
    BY <1>0, <1>1, <1>4, <1>5
  <2> QED BY <2>1 DEF Linked
<1>11. E \ {e} \subseteq Entries /\ \A x \in E \ {e} : home2[x] \in S
  BY DEF Linked
<1> QED
  BY <1>3, <1>7, <1>8, <1>9, <1>10, <1>11 DEF Linked
-----------------------------------------------------------------------------
(* Images. *)

(* m and n have the same locations of the objects O, with the same values. *)
Agree(m, n, O) ==
  \A l : l[1] \in O => /\ l \in DOMAIN m <=> l \in DOMAIN n
                       /\ l \in DOMAIN m => n[l] = m[l]

(* The objects of an image are those of its locations. *)
LEMMA ObjectsLocs ==
  ASSUME NEW m, NEW o
  PROVE  /\ o \in Objects(m) <=> LocsOf(m, {o}) # {}
         /\ \A l \in DOMAIN m : l[1] \in Objects(m)
  BY DEF Objects, LocsOf

(* The fields that an object has, if it is there. *)
LEMMA Fields ==
  ASSUME NEW m, Layout(m)
  PROVE  /\ MapLoc \in DOMAIN m /\ "root" \in Objects(m)
         /\ "map" \in Objects(m) =>
              /\ {FunA, FunB, CountLoc, BucketsLoc} \subseteq DOMAIN m
              /\ m[FunA] \in Nat /\ m[FunB] \in Nat
         /\ \A e \in Entries \cap Objects(m) :
              /\ {KeyLoc(e), ValueLoc(e), NextLoc(e)} \subseteq DOMAIN m
              /\ m[KeyLoc(e)] \in Keys /\ m[ValueLoc(e)] \in Vals
         /\ \A b \in Arrays \cap Objects(m) :
              /\ LenLoc(b) \in DOMAIN m /\ m[LenLoc(b)] \in Nat \ {0}
              /\ \A i \in Slots(m, b) : SlotLoc(b, i) \in DOMAIN m
<1>1. MapLoc \in LocsOf(m, {"root"})
  BY DEF Layout, RootOK
<1>2. MapLoc \in DOMAIN m /\ "root" \in Objects(m)
  BY <1>1, ObjectsLocs DEF LocsOf
<1>3. "map" \in Objects(m) =>
              /\ {FunA, FunB, CountLoc, BucketsLoc} \subseteq DOMAIN m
              /\ m[FunA] \in Nat /\ m[FunB] \in Nat
  BY DEF Layout, MapOK, LocsOf
<1>4. ASSUME NEW e \in Entries \cap Objects(m)
      PROVE  /\ {KeyLoc(e), ValueLoc(e), NextLoc(e)} \subseteq DOMAIN m
             /\ m[KeyLoc(e)] \in Keys /\ m[ValueLoc(e)] \in Vals
  BY DEF Layout, EntryOK, LocsOf
<1>5. ASSUME NEW b \in Arrays \cap Objects(m)
      PROVE  /\ LenLoc(b) \in DOMAIN m /\ m[LenLoc(b)] \in Nat \ {0}
             /\ \A i \in Slots(m, b) : SlotLoc(b, i) \in DOMAIN m
  <2>1. ArrayOK(m, b)
    BY DEF Layout
  <2>2. LenLoc(b) \in LocsOf(m, {b}) /\ \A i \in Slots(m, b) : SlotLoc(b, i) \in LocsOf(m, {b})
    BY <2>1 DEF ArrayOK
  <2> QED
    BY <2>1, <2>2 DEF ArrayOK, LocsOf
<1> QED
  BY <1>2, <1>3, <1>4, <1>5

(* An object keeps its layout where an image agrees on it. *)
LEMMA AgreeFields ==
  ASSUME NEW m, NEW n, NEW o, Agree(m, n, {o})
  PROVE  /\ LocsOf(n, {o}) = LocsOf(m, {o})
         /\ \A l \in LocsOf(m, {o}) : n[l] = m[l]
         /\ o \in Objects(n) <=> o \in Objects(m)
<1>1. /\ LocsOf(n, {o}) = LocsOf(m, {o})
      /\ \A l \in LocsOf(m, {o}) : n[l] = m[l]
  BY DEF Agree, LocsOf
<1> QED
  BY <1>1, ObjectsLocs

(* So it keeps being laid out as its type. *)
LEMMA AgreeLayout ==
  ASSUME NEW m, NEW n, NEW o, Agree(m, n, {o})
  PROVE  /\ o = "root" /\ RootOK(m) => RootOK(n)
         /\ o = "map" /\ MapOK(m) => MapOK(n)
         /\ EntryOK(m, o) => EntryOK(n, o)
         /\ ArrayOK(m, o) => ArrayOK(n, o)
<1>1. /\ LocsOf(n, {o}) = LocsOf(m, {o})
      /\ \A l \in LocsOf(m, {o}) : n[l] = m[l]
  BY AgreeFields
<1>2. o = "root" /\ RootOK(m) => RootOK(n)
  BY <1>1 DEF RootOK
<1>3. o = "map" /\ MapOK(m) => MapOK(n)
  BY <1>1 DEF MapOK
<1>4. EntryOK(m, o) => EntryOK(n, o)
  BY <1>1 DEF EntryOK
<1>5. ASSUME ArrayOK(m, o) PROVE ArrayOK(n, o)
  <2>1. LenLoc(o) \in LocsOf(m, {o})
    BY <1>5 DEF ArrayOK
  <2>2. n[LenLoc(o)] = m[LenLoc(o)]
    BY <1>1, <2>1
  <2> QED
    BY <1>1, <1>5, <2>2 DEF ArrayOK, Slots
<1> QED
  BY <1>2, <1>3, <1>4, <1>5

(* An image whose objects each have the layout of m, or a layout of their own. *)
LEMMA LayoutFrom ==
  ASSUME NEW m, Layout(m), NEW n, NEW D, "root" \notin D,
         Objects(n) \subseteq Objects(m) \cup D,
         \A o \in Objects(n) \ D : Agree(m, n, {o}),
         Agree(m, n, {"root"}),
         D \cap Objects(n) \subseteq {"map"} \cup Entries \cup Arrays,
         "map" \in D \cap Objects(n) => MapOK(n),
         \A e \in D \cap Objects(n) \cap Entries : EntryOK(n, e),
         \A b \in D \cap Objects(n) \cap Arrays : ArrayOK(n, b)
  PROVE  Layout(n)
<1>1. Objects(n) \subseteq {"root", "map"} \cup Entries \cup Arrays
  BY DEF Layout
<1>2. RootOK(n)
  BY AgreeLayout DEF Layout
<1>3. "map" \in Objects(n) => MapOK(n)
  BY AgreeLayout DEF Layout
<1>4. \A e \in Entries \cap Objects(n) : EntryOK(n, e)
  BY AgreeLayout DEF Layout
<1>5. \A b \in Arrays \cap Objects(n) : ArrayOK(n, b)
  BY AgreeLayout DEF Layout
<1> QED
  BY <1>1, <1>2, <1>3, <1>4, <1>5 DEF Layout

(* Fields that may hold anything. *)
Free(l) == l \in {CountLoc, BucketsLoc} \/ (\E b \in Arrays : \E i : l = SlotLoc(b, i))
                                        \/ (\E e \in Entries : l = NextLoc(e))

(* Storing to one of them keeps the layout. *)
LEMMA LayoutStore ==
  ASSUME NEW m, Layout(m), NEW l \in DOMAIN m, NEW n, DOMAIN n = DOMAIN m,
         \A x \in DOMAIN m : x # l => n[x] = m[x],
         \/ Free(l)
         \/ l = MapLoc /\ n[l] \in {Null, "map"}
         \/ l \in {FunA, FunB} /\ n[l] \in Nat
  PROVE  Layout(n) /\ Objects(n) = Objects(m)
<1>1. Objects(n) = Objects(m)
  BY DEF Objects
<1>2. \A O : LocsOf(n, O) = LocsOf(m, O)
  BY DEF LocsOf
<1>3. RootOK(n)
  BY <1>2, Fields, Names DEF Layout, RootOK, Free, MapLoc, CountLoc, BucketsLoc, SlotLoc, NextLoc, FunA, FunB
<1>4. "map" \in Objects(n) => MapOK(n)
  BY <1>1, <1>2, Fields, Names DEF Layout, MapOK, Free, MapLoc, CountLoc, BucketsLoc, SlotLoc, NextLoc, FunA, FunB
<1>5. ASSUME NEW e \in Entries \cap Objects(n) PROVE EntryOK(n, e)
  <2>1. KeyLoc(e) # l /\ ValueLoc(e) # l
    BY Names DEF Free, KeyLoc, ValueLoc, MapLoc, CountLoc, BucketsLoc, SlotLoc, NextLoc, FunA, FunB
  <2> QED
    BY <1>1, <1>2, <2>1, Fields DEF Layout, EntryOK
<1>6. ASSUME NEW b \in Arrays \cap Objects(n) PROVE ArrayOK(n, b)
  <2>1. LenLoc(b) # l
    BY Names DEF Free, LenLoc, MapLoc, CountLoc, BucketsLoc, SlotLoc, NextLoc, FunA, FunB
  <2>2. n[LenLoc(b)] = m[LenLoc(b)]
    BY <1>1, <2>1, Fields
  <2> QED
    BY <1>1, <1>2, <2>2 DEF Layout, ArrayOK, Slots
<1> QED
  BY <1>1, <1>3, <1>4, <1>5, <1>6 DEF Layout
-----------------------------------------------------------------------------
(* The operators of PmemTx on a pool with this layout. *)

(* A store to a field, which it does not take out of its type. *)
LEMMA StoreTx ==
  ASSUME NEW p, TxOK(p), NEW l \in DOMAIN p.mem, NEW v,
         \/ Free(l)
         \/ l = MapLoc /\ v \in {Null, "map"}
         \/ l \in {FunA, FunB} /\ v \in Nat
  PROVE  LET q == Store(p, l, v)
         IN  /\ TxOK(q) /\ Left(q) = Left(p) /\ DOMAIN q.mem = DOMAIN p.mem
             /\ q.mem[l] = v /\ \A x \in DOMAIN p.mem : x # l => q.mem[x] = p.mem[x]
             /\ q.fresh = p.fresh /\ q.doomed = p.doomed
<1> DEFINE q == Store(p, l, v)
<1>1. IsTx(p)
  BY DEF TxOK
<1>2. IsTx(q) /\ q.fresh = p.fresh /\ q.doomed = p.doomed
  BY <1>1, StoreFields
<1>3. /\ DOMAIN q.mem = DOMAIN p.mem /\ q.mem[l] = v
      /\ \A x \in DOMAIN p.mem : x # l => q.mem[x] = p.mem[x]
  BY <1>1, StoreDomain
<1> HIDE DEF q
<1>4. Layout(q.mem) /\ Objects(q.mem) = Objects(p.mem)
  BY <1>3, LayoutStore DEF TxOK
<1> QED
  BY <1>2, <1>3, <1>4 DEF TxOK, Left, q

(* A snapshot. *)
LEMMA AddTx ==
  ASSUME NEW p, TxOK(p), NEW L
  PROVE  LET q == TxAdd(p, L)
         IN  /\ TxOK(q) /\ Left(q) = Left(p) /\ q.mem = p.mem
             /\ q.fresh = p.fresh /\ q.doomed = p.doomed
  BY TxAddFields DEF TxOK, Left

(* A new object that is laid out as its type. *)
LEMMA AllocTx ==
  ASSUME NEW p, TxOK(p), NEW o, o \notin Objects(p.mem), o # "root",
         NEW c, DOMAIN c # {}, \A l \in DOMAIN c : l[1] = o,
         \/ o = "map" /\ MapOK(c)
         \/ o \in Entries /\ EntryOK(c, o)
         \/ o \in Arrays /\ ArrayOK(c, o)
  PROVE  LET q == TxAlloc(p, o, c)
         IN  /\ TxOK(q) /\ Left(q) = Left(p) \cup {o} /\ o \notin Left(p)
             /\ Agree(p.mem, q.mem, Left(p)) /\ Agree(c, q.mem, {o})
             /\ q.fresh = p.fresh \cup {o} /\ q.doomed = p.doomed
<1> DEFINE q == TxAlloc(p, o, c)
<1>1. /\ IsTx(q)
      /\ DOMAIN q.mem = DOMAIN p.mem \cup DOMAIN c
      /\ \A l \in DOMAIN c : q.mem[l] = c[l]
      /\ \A l \in DOMAIN p.mem \ DOMAIN c : q.mem[l] = p.mem[l]
      /\ q.fresh = p.fresh \cup {o} /\ q.doomed = p.doomed
  BY TxAllocFields DEF TxOK
<1> HIDE DEF q
<1>2. \A l \in DOMAIN p.mem : l[1] # o
  BY ObjectsLocs
<1>3. Agree(c, q.mem, {o})
  BY <1>1, <1>2 DEF Agree
<1>4. ASSUME NEW O, o \notin O PROVE Agree(p.mem, q.mem, O)
  BY <1>1, <1>4 DEF Agree
<1>5. Objects(q.mem) = Objects(p.mem) \cup {o}
  BY <1>1 DEF Objects
<1>6. o \notin Left(p) /\ o \notin p.doomed
  BY DEF Left, TxOK
<1>7. Layout(q.mem)
  <2> DEFINE D == {o}
  <2>1. Layout(p.mem) /\ "root" \notin D
    BY DEF TxOK
  <2>2. Objects(q.mem) \subseteq Objects(p.mem) \cup D
    BY <1>5
  <2>3. /\ \A x \in Objects(q.mem) \ D : Agree(p.mem, q.mem, {x})
        /\ Agree(p.mem, q.mem, {"root"})
    BY <1>4
  <2>4. D \cap Objects(q.mem) \subseteq {"map"} \cup Entries \cup Arrays
    OBVIOUS
  <2>5. /\ "map" \in D \cap Objects(q.mem) => MapOK(q.mem)
        /\ \A e \in D \cap Objects(q.mem) \cap Entries : EntryOK(q.mem, e)
        /\ \A b \in D \cap Objects(q.mem) \cap Arrays : ArrayOK(q.mem, b)
    BY <1>3, AgreeLayout, Names
  <2> HIDE DEF D
  <2> QED
    BY <2>1, <2>2, <2>3, <2>4, <2>5, LayoutFrom
<1> QED
  BY <1>1, <1>3, <1>4, <1>5, <1>6, <1>7 DEF TxOK, Left, q

(* Image m without some of its entries and arrays. *)
LEMMA WithoutTx ==
  ASSUME NEW m, Layout(m), NEW O, O \cap {"root", "map"} = {}
  PROVE  LET n == Without(m, O)
         IN  /\ Layout(n) /\ Objects(n) = Objects(m) \ O
             /\ Agree(m, n, Objects(m) \ O)
<1> DEFINE n == Without(m, O)
<1>1. DOMAIN n = {l \in DOMAIN m : l[1] \notin O} /\ \A l \in DOMAIN n : n[l] = m[l]
  BY DEF Without, LocsOf
<1> HIDE DEF n
<1>2. Objects(n) = Objects(m) \ O
  BY <1>1 DEF Objects
<1>3. ASSUME NEW P, P \cap O = {} PROVE Agree(m, n, P)
  BY <1>1, <1>3 DEF Agree
<1>4. Layout(n)
  <2> DEFINE D == O
  <2>1. /\ \A x \in Objects(n) \ D : Agree(m, n, {x})
        /\ Agree(m, n, {"root"}) /\ "root" \notin D
    BY <1>3
  <2>2. D \cap Objects(n) = {}
    BY <1>2
  <2>3. Objects(n) \subseteq Objects(m) \cup D
    BY <1>2
  <2> HIDE DEF D
  <2> QED
    BY <2>1, <2>2, <2>3, LayoutFrom
<1> QED
  BY <1>2, <1>3, <1>4 DEF n

(* TX_FREE takes one object from those that are left, at once or at the commit. *)
LEMMA FreeTx ==
  ASSUME NEW p, TxOK(p), NEW o \in Left(p) \ {"root", "map"}
  PROVE  LET q == TxFree(p, o)
         IN  TxOK(q) /\ Left(q) = Left(p) \ {o} /\ Agree(p.mem, q.mem, Left(q))
<1> DEFINE q == TxFree(p, o)
<1>1. CASE o \in p.fresh
  <2>1. /\ IsTx(q) /\ q.mem = Without(p.mem, {o})
        /\ q.fresh = p.fresh \ {o} /\ q.doomed = p.doomed
    BY <1>1, TxFreeFresh DEF TxOK
  <2> HIDE DEF q
  <2>2. /\ Layout(q.mem) /\ Objects(q.mem) = Objects(p.mem) \ {o}
        /\ Agree(p.mem, q.mem, Objects(p.mem) \ {o})
    BY <2>1, WithoutTx DEF TxOK
  <2>3. Left(q) = Left(p) \ {o} /\ Left(q) \subseteq Objects(p.mem) \ {o}
    BY <2>1, <2>2 DEF Left
  <2>4. TxOK(q)
    BY <1>1, <2>1, <2>2 DEF TxOK
  <2>5. Agree(p.mem, q.mem, Left(q))
    BY <2>2, <2>3 DEF Agree
  <2> QED
    BY <2>3, <2>4, <2>5 DEF q
<1>2. CASE o \notin p.fresh
  <2>1. /\ IsTx(q) /\ q.mem = p.mem /\ q.fresh = p.fresh /\ q.doomed = p.doomed \cup {o}
    BY <1>2, TxFreeLater DEF TxOK
  <2> QED
    BY <1>2, <2>1 DEF TxOK, Left, Agree
<1> QED
  BY <1>1, <1>2

(* A commit leaves what was left. *)
LEMMA CommitTx ==
  ASSUME NEW p, TxOK(p)
  PROVE  LET q == Commit(p)
         IN  /\ TxOK(q) /\ Left(q) = Left(p) /\ Objects(q.mem) = Left(p)
             /\ Agree(p.mem, q.mem, Left(p))
<1> DEFINE q == Commit(p)
<1>1. /\ IsTx(q) /\ q.mem = Without(p.mem, p.doomed) /\ q.fresh = {} /\ q.doomed = {}
  BY NoTxFields DEF Commit
<1> HIDE DEF q
<1>2. p.doomed \cap {"root", "map"} = {}
  BY DEF TxOK
<1>3. /\ Layout(q.mem) /\ Objects(q.mem) = Left(p) /\ Agree(p.mem, q.mem, Left(p))
  BY <1>1, <1>2, WithoutTx DEF TxOK, Left
<1> QED
  BY <1>1, <1>3 DEF TxOK, Left, q

(* No transaction on an image. *)
LEMMA NoTxTx ==
  ASSUME NEW m, Layout(m)
  PROVE  TxOK(NoTx(m)) /\ NoTx(m).mem = m /\ Left(NoTx(m)) = Objects(m)
  BY NoTxFields DEF TxOK, Left
-----------------------------------------------------------------------------
(* The map in two images. *)

(* What is computed from an array and its entries is the same where they are. *)
LEMMA ChainedSame ==
  ASSUME NEW m, NEW n, NEW b, NEW E, NEW rk, Chained(m, b, E, rk),
         n[FunA] = m[FunA], n[FunB] = m[FunB], n[LenLoc(b)] = m[LenLoc(b)],
         \A i \in Slots(m, b) : n[SlotLoc(b, i)] = m[SlotLoc(b, i)],
         \A e \in E : n[KeyLoc(e)] = m[KeyLoc(e)] /\ n[NextLoc(e)] = m[NextLoc(e)]
  PROVE  Chained(n, b, E, rk)
<1>1. Slots(n, b) = Slots(m, b) /\ \A k : hash(n, b, k) = hash(m, b, k)
  BY DEF Slots, hash
<1>2. Heads(n, b) = Heads(m, b)
  BY <1>1 DEF Heads
<1>3. Nexts(n, E) = Nexts(m, E) /\ Homes(n, b, E) = Homes(m, b, E)
  BY <1>1 DEF Nexts, Homes
<1> QED
  BY <1>1, <1>2, <1>3 DEF Chained

(* So the array is the same in an image that agrees on its objects, *)
LEMMA ChainedAgree ==
  ASSUME NEW m, Layout(m), NEW n, NEW b \in Arrays, NEW E, NEW rk, Chained(m, b, E, rk),
         NEW O, Agree(m, n, O), O \subseteq Objects(m), {"map", b} \cup E \subseteq O
  PROVE  Chained(n, b, E, rk)
<1>1. E \subseteq Entries
  BY DEF Chained, Linked
<1>2. /\ {FunA, FunB, LenLoc(b)} \subseteq DOMAIN m
      /\ \A i \in Slots(m, b) : SlotLoc(b, i) \in DOMAIN m
      /\ \A e \in E : KeyLoc(e) \in DOMAIN m /\ NextLoc(e) \in DOMAIN m
  BY <1>1, Fields
<1>3. \A l \in DOMAIN m : l[1] \in O => n[l] = m[l]
  BY DEF Agree
<1> QED
  BY <1>2, <1>3, ChainedSame DEF FunA, FunB, LenLoc, SlotLoc, KeyLoc, NextLoc

(* and so are the keys and `count', *)
LEMMA CountedAgree ==
  ASSUME NEW m, Layout(m), NEW n, NEW E, E \subseteq Entries, Counted(m, E),
         NEW O, Agree(m, n, O), O \subseteq Objects(m), {"map"} \cup E \subseteq O
  PROVE  Counted(n, E)
<1>1. CountLoc \in DOMAIN m /\ \A e \in E : KeyLoc(e) \in DOMAIN m
  BY Fields
<1>2. \A l \in DOMAIN m : l[1] \in O => n[l] = m[l]
  BY DEF Agree
<1> QED
  BY <1>1, <1>2 DEF Counted, CountLoc, KeyLoc

(* and the map. *)
LEMMA WholeAgree ==
  ASSUME NEW m, Layout(m), NEW n, NEW O, NEW rk, Whole(m, O, rk),
         Agree(m, n, O), O \subseteq Objects(m)
  PROVE  /\ Whole(n, O, rk) /\ n[MapLoc] = m[MapLoc]
         /\ m[MapLoc] # Null => n[BucketsLoc] = m[BucketsLoc]
<1>1. "root" \in O
  BY DEF Whole
<1>2. n[MapLoc] = m[MapLoc]
  BY <1>1, Fields DEF Agree, MapLoc
<1>3. CASE m[MapLoc] = Null
  BY <1>2, <1>3 DEF Whole
<1>4. CASE m[MapLoc] # Null
  <2>1. "map" \in O /\ m[BucketsLoc] \in O \cap Arrays
    BY <1>4 DEF Whole
  <2>2. n[BucketsLoc] = m[BucketsLoc]
    BY <2>1, Fields DEF Agree, BucketsLoc
  <2>3. Chained(m, m[BucketsLoc], O \cap Entries, rk) /\ Counted(m, O \cap Entries)
    BY <1>4 DEF Whole
  <2>4. Chained(n, m[BucketsLoc], O \cap Entries, rk)
    BY <2>1, <2>3, ChainedAgree
  <2>5. Counted(n, O \cap Entries)
    BY <2>1, <2>3, CountedAgree
  <2> QED
    BY <1>2, <1>4, <2>2, <2>4, <2>5 DEF Whole
<1> QED
  BY <1>2, <1>3, <1>4
-----------------------------------------------------------------------------
(* The hash of a key is the index of a slot. *)
LEMMA HashInSlots ==
  ASSUME NEW m, NEW b, m[FunA] \in Nat, m[FunB] \in Nat, m[LenLoc(b)] \in Nat \ {0},
         NEW key \in Keys
  PROVE  hash(m, b, key) \in Slots(m, b)
<1> DEFINE v == ((m[FunA] * key + m[FunB]) % Word) % HASH_FUNC_COEFF_P
<1>1. key \in Nat
  BY HashmapAssumption
<1>2. m[FunA] * key + m[FunB] \in Nat
  BY <1>1
<1>3. v \in Nat
  BY <1>2, HashmapAssumption
<1> HIDE DEF v
<1>4. v % m[LenLoc(b)] \in 0 .. m[LenLoc(b)] - 1
  BY <1>3
<1> QED
  BY <1>4 DEF hash, Slots, v

(* What the chains of array b say of the image. *)
LEMMA ChainedIs ==
  ASSUME NEW m, NEW b, NEW E, NEW rk, Chained(m, b, E, rk)
  PROVE  /\ E \subseteq Entries /\ rk \in Ranks
         /\ \A i \in Slots(m, b) : m[SlotLoc(b, i)] # Null =>
              /\ m[SlotLoc(b, i)] \in E
              /\ hash(m, b, m[KeyLoc(m[SlotLoc(b, i)])]) = i
         /\ \A e \in E :
              LET i == hash(m, b, m[KeyLoc(e)])
              IN  /\ i \in Slots(m, b)
                  /\ m[SlotLoc(b, i)] # Null /\ rk[e] <= rk[m[SlotLoc(b, i)]]
                  /\ IF rk[e] = 0 THEN m[NextLoc(e)] = Null
                     ELSE /\ m[NextLoc(e)] \in E /\ rk[m[NextLoc(e)]] = rk[e] - 1
                          /\ hash(m, b, m[KeyLoc(m[NextLoc(e)])]) = i
         /\ \A e, g \in E :
              hash(m, b, m[KeyLoc(e)]) = hash(m, b, m[KeyLoc(g)]) /\ rk[e] = rk[g] => e = g
<1> DEFINE S == Slots(m, b)
           head == Heads(m, b)
           next == Nexts(m, E)
           home == Homes(m, b, E)
<1>1. Linked(E, S, head, next, home, rk)
  BY DEF Chained
<1>2. \A i \in S : head[i] = m[SlotLoc(b, i)]
  BY DEF Heads
<1>3. \A e \in E : next[e] = m[NextLoc(e)] /\ home[e] = hash(m, b, m[KeyLoc(e)])
  BY DEF Nexts, Homes
<1> HIDE DEF S, head, next, home
<1>4. /\ E \subseteq Entries /\ rk \in Ranks
      /\ \A i \in S : m[SlotLoc(b, i)] # Null =>
           /\ m[SlotLoc(b, i)] \in E
           /\ hash(m, b, m[KeyLoc(m[SlotLoc(b, i)])]) = i
  BY <1>1, <1>2, <1>3 DEF Linked
<1>5. ASSUME NEW e \in E
      PROVE  LET i == hash(m, b, m[KeyLoc(e)])
             IN  /\ i \in S
                 /\ m[SlotLoc(b, i)] # Null /\ rk[e] <= rk[m[SlotLoc(b, i)]]
                 /\ IF rk[e] = 0 THEN m[NextLoc(e)] = Null
                    ELSE /\ m[NextLoc(e)] \in E /\ rk[m[NextLoc(e)]] = rk[e] - 1
                         /\ hash(m, b, m[KeyLoc(m[NextLoc(e)])]) = i
  <2>1. home[e] \in S /\ head[home[e]] # Null /\ rk[e] <= rk[head[home[e]]]
    BY <1>1 DEF Linked
  <2>2. IF rk[e] = 0 THEN next[e] = Null
        ELSE next[e] \in E /\ home[next[e]] = home[e] /\ rk[next[e]] = rk[e] - 1
    BY <1>1 DEF Linked
  <2> QED
    BY <1>2, <1>3, <2>1, <2>2
<1>6. \A e, g \in E :
        hash(m, b, m[KeyLoc(e)]) = hash(m, b, m[KeyLoc(g)]) /\ rk[e] = rk[g] => e = g
  BY <1>1, <1>3 DEF Linked
<1> QED
  BY <1>4, <1>5, <1>6 DEF S

(* An array of slots that are all empty holds nothing, and nothing else does. *)
LEMMA ChainedEmpty ==
  ASSUME NEW m, NEW b, NEW rk \in Ranks, \A i \in Slots(m, b) : m[SlotLoc(b, i)] = Null
  PROVE  /\ Chained(m, b, {}, rk)
         /\ \A E : Chained(m, b, E, rk) => E = {}
<1>1. \A i \in Slots(m, b) : Heads(m, b)[i] = Null
  BY DEF Heads
<1>2. Chained(m, b, {}, rk)
  BY <1>1 DEF Chained, Linked
<1>3. ASSUME NEW E, Chained(m, b, E, rk) PROVE E = {}
  BY <1>3, ChainedIs
<1> QED
  BY <1>2, <1>3

(* Ranks of other entries do not matter. *)
LEMMA ChainedRanks ==
  ASSUME NEW m, NEW b, NEW E, NEW rk, Chained(m, b, E, rk),
         NEW rk2 \in Ranks, \A e \in E : rk2[e] = rk[e]
  PROVE  Chained(m, b, E, rk2)
<1> DEFINE S == Slots(m, b)
           head == Heads(m, b)
           next == Nexts(m, E)
           home == Homes(m, b, E)
<1>1. Linked(E, S, head, next, home, rk)
  BY DEF Chained
<1> HIDE DEF S, head, next, home
<1>2. Linked(E, S, head, next, home, rk2)
  <2>1. \A i \in S : head[i] # Null => head[i] \in E /\ home[head[i]] = i
    BY <1>1 DEF Linked
  <2>2. \A e \in E : head[home[e]] # Null /\ rk2[e] <= rk2[head[home[e]]]
    BY <1>1 DEF Linked
  <2>3. \A e \in E : IF rk2[e] = 0 THEN next[e] = Null
                     ELSE next[e] \in E /\ home[next[e]] = home[e] /\ rk2[next[e]] = rk2[e] - 1
    BY <1>1 DEF Linked
  <2>4. \A e, g \in E : home[e] = home[g] /\ rk2[e] = rk2[g] => e = g
    BY <1>1 DEF Linked
  <2> QED
    BY <1>1, <2>1, <2>2, <2>3, <2>4 DEF Linked
<1> QED
  BY <1>2 DEF Chained, S, head, next, home

(* Image n has the hash function of m, and array b of the same length. *)
SameHash(m, n, b) ==
  n[FunA] = m[FunA] /\ n[FunB] = m[FunB] /\ n[LenLoc(b)] = m[LenLoc(b)]

(* Pushing entry e on its slot h, *)
LEMMA ChainedPush ==
  ASSUME NEW m, NEW n, NEW b, NEW E, NEW rk, Chained(m, b, E, rk), SameHash(m, n, b),
         NEW h \in Slots(m, b), NEW e \in Entries \ E, hash(m, b, n[KeyLoc(e)]) = h,
         \A i \in Slots(m, b) \ {h} : n[SlotLoc(b, i)] = m[SlotLoc(b, i)],
         n[SlotLoc(b, h)] = e, n[NextLoc(e)] = m[SlotLoc(b, h)],
         \A x \in E : n[KeyLoc(x)] = m[KeyLoc(x)] /\ n[NextLoc(x)] = m[NextLoc(x)]
  PROVE  \E rk2 \in Ranks : /\ Chained(n, b, E \cup {e}, rk2)
                            /\ \A x \in Entries \ {e} : rk2[x] = rk[x]
<1> DEFINE S == Slots(m, b)
           F == E \cup {e}
           head == Heads(m, b)
           next == Nexts(m, E)
           home == Homes(m, b, E)
           head2 == Heads(n, b)
           next2 == Nexts(n, F)
           home2 == Homes(n, b, F)
<1>1. Slots(n, b) = S /\ \A k : hash(n, b, k) = hash(m, b, k)
  BY DEF Slots, hash, SameHash
<1>2. Linked(E, S, head, next, home, rk)
  BY DEF Chained
<1>3. \A i \in S \ {h} : head2[i] = head[i]
  BY <1>1 DEF Heads
<1>4. head2[h] = e /\ next2[e] = head[h] /\ home2[e] = h
  BY <1>1 DEF Heads, Nexts, Homes
<1>5. \A x \in E : next2[x] = next[x] /\ home2[x] = home[x]
  BY <1>1 DEF Nexts, Homes
<1> HIDE DEF S, head, next, home, head2, next2, home2
<1>6. h \in S
  BY DEF S
<1>7. \E rk2 \in Ranks : /\ Linked(E \cup {e}, S, head2, next2, home2, rk2)
                         /\ \A x \in Entries \ {e} : rk2[x] = rk[x]
  <2>1. e \in Entries \ E
    OBVIOUS
  <2> HIDE DEF F
  <2> QED
    BY ONLY <1>2, <1>3, <1>4, <1>5, <1>6, <2>1, LinkedPush, SMTT(200)
<1> QED
  BY <1>1, <1>7 DEF Chained, head2, next2, home2

(* taking the first entry of slot h, *)
LEMMA ChainedPop ==
  ASSUME NEW m, NEW n, NEW b, NEW E, NEW rk, Chained(m, b, E, rk), SameHash(m, n, b),
         NEW h \in Slots(m, b), NEW e, m[SlotLoc(b, h)] = e, e # Null,
         \A i \in Slots(m, b) \ {h} : n[SlotLoc(b, i)] = m[SlotLoc(b, i)],
         n[SlotLoc(b, h)] = m[NextLoc(e)],
         \A x \in E \ {e} : n[KeyLoc(x)] = m[KeyLoc(x)] /\ n[NextLoc(x)] = m[NextLoc(x)]
  PROVE  Chained(n, b, E \ {e}, rk)
<1> DEFINE S == Slots(m, b)
           F == E \ {e}
           head == Heads(m, b)
           next == Nexts(m, E)
           home == Homes(m, b, E)
           head2 == Heads(n, b)
           next2 == Nexts(n, F)
           home2 == Homes(n, b, F)
<1>1. Slots(n, b) = S /\ \A k : hash(n, b, k) = hash(m, b, k)
  BY DEF Slots, hash, SameHash
<1>2. Linked(E, S, head, next, home, rk)
  BY DEF Chained
<1>3. \A i \in S \ {h} : head2[i] = head[i]
  BY <1>1 DEF Heads
<1>4. head[h] = e /\ e \in E
  BY <1>2 DEF Heads, Linked
<1>5. head2[h] = next[e]
  BY <1>1, <1>4 DEF Heads, Nexts
<1>6. \A x \in E \ {e} : next2[x] = next[x] /\ home2[x] = home[x]
  BY <1>1 DEF Nexts, Homes
<1> HIDE DEF S, head, next, home, head2, next2, home2
<1>7. h \in S
  BY DEF S
<1>8. Linked(F, S, head2, next2, home2, rk)
  BY <1>2, <1>3, <1>4, <1>5, <1>6, <1>7, LinkedPop
<1> QED
  BY <1>1, <1>8 DEF Chained, head2, next2, home2

(* and cutting out the entry after p. *)
LEMMA ChainedCut ==
  ASSUME NEW m, NEW n, NEW b, NEW E, NEW rk, Chained(m, b, E, rk), SameHash(m, n, b),
         NEW p \in E, NEW e, m[NextLoc(p)] = e, e # Null,
         \A i \in Slots(m, b) : n[SlotLoc(b, i)] = m[SlotLoc(b, i)],
         n[NextLoc(p)] = m[NextLoc(e)],
         \A x \in E \ {e} : n[KeyLoc(x)] = m[KeyLoc(x)],
         \A x \in E \ {e, p} : n[NextLoc(x)] = m[NextLoc(x)]
  PROVE  \E rk2 \in Ranks : Chained(n, b, E \ {e}, rk2)
<1> DEFINE S == Slots(m, b)
           F == E \ {e}
           head == Heads(m, b)
           next == Nexts(m, E)
           home == Homes(m, b, E)
           head2 == Heads(n, b)
           next2 == Nexts(n, F)
           home2 == Homes(n, b, F)
<1>1. Slots(n, b) = S /\ \A k : hash(n, b, k) = hash(m, b, k)
  BY DEF Slots, hash, SameHash
<1>2. Linked(E, S, head, next, home, rk)
  BY DEF Chained
<1>3. \A i \in S : head2[i] = head[i]
  BY <1>1 DEF Heads
<1>4. next[p] = e /\ e \in E /\ p # e
  <2>1. next[p] = e
    BY DEF Nexts
  <2> HIDE DEF S, head, next, home
  <2>2. e \in E /\ rk[e] = rk[p] - 1 /\ rk[p] \in Nat
    BY <1>2, <2>1 DEF Linked, Ranks
  <2> QED BY <2>1, <2>2
<1>5. next2[p] = next[e]
  BY <1>4 DEF Nexts
<1>6. /\ \A x \in E \ {e, p} : next2[x] = next[x]
      /\ \A x \in E \ {e} : home2[x] = home[x]
  BY <1>1 DEF Nexts, Homes
<1> HIDE DEF S, head, next, home, head2, next2, home2
<1>7. \E rk2 \in Ranks : Linked(F, S, head2, next2, home2, rk2)
  BY SMTT(30), <1>2, <1>3, <1>4, <1>5, <1>6, LinkedCut
<1> QED
  BY <1>1, <1>7 DEF Chained, head2, next2, home2
-----------------------------------------------------------------------------
(* What there is in a map that is not being built. *)
LEMMA TheMap ==
  ASSUME NEW m, Layout(m), NEW O, O \subseteq Objects(m), NEW rk, Whole(m, O, rk),
         m[MapLoc] # Null
  PROVE  LET b == m[BucketsLoc]
             E == O \cap Entries
         IN  /\ m[MapLoc] = "map" /\ "root" \in O /\ "map" \in O /\ b \in O
             /\ b \in Arrays /\ O = {"root", "map", b} \cup E
             /\ MapLoc \in DOMAIN m /\ CountLoc \in DOMAIN m /\ BucketsLoc \in DOMAIN m
             /\ LenLoc(b) \in DOMAIN m /\ m[LenLoc(b)] \in Nat \ {0}
             /\ m[FunA] \in Nat /\ m[FunB] \in Nat
             /\ Chained(m, b, E, rk) /\ Counted(m, E)
<1> DEFINE b == m[BucketsLoc]
           E == O \cap Entries
<1>1. /\ "root" \in O /\ "map" \in O /\ b \in O /\ b \in Arrays
      /\ O = {"root", "map", b} \cup E
      /\ Chained(m, b, E, rk) /\ Counted(m, E)
  BY DEF Whole
<1>2. m[MapLoc] = "map"
  BY DEF Layout, RootOK
<1>3. "map" \in Objects(m) /\ b \in Arrays \cap Objects(m)
  BY <1>1
<1>4. /\ MapLoc \in DOMAIN m /\ CountLoc \in DOMAIN m /\ BucketsLoc \in DOMAIN m
      /\ LenLoc(b) \in DOMAIN m /\ m[LenLoc(b)] \in Nat \ {0}
      /\ m[FunA] \in Nat /\ m[FunB] \in Nat
  <2> HIDE DEF b, E
  <2> QED
    BY <1>3, Fields
<1> QED
  BY <1>1, <1>2, <1>4

(* Its keys hash to its slots. *)
LEMMA TheHash ==
  ASSUME NEW m, Layout(m), NEW O, O \subseteq Objects(m), NEW rk, Whole(m, O, rk),
         m[MapLoc] # Null, NEW k \in Keys
  PROVE  hash(m, m[BucketsLoc], k) \in Slots(m, m[BucketsLoc])
  BY TheMap, HashInSlots

(* Its entries have their fields, *)
LEMMA TheEntry ==
  ASSUME NEW m, Layout(m), NEW O, O \subseteq Objects(m), NEW e \in O \cap Entries
  PROVE  /\ {KeyLoc(e), ValueLoc(e), NextLoc(e)} \subseteq DOMAIN m
         /\ m[KeyLoc(e)] \in Keys /\ m[ValueLoc(e)] \in Vals
  BY Fields

(* and its array its slots. *)
LEMMA TheSlot ==
  ASSUME NEW m, Layout(m), NEW b \in Arrays \cap Objects(m), NEW i \in Slots(m, b)
  PROVE  SlotLoc(b, i) \in DOMAIN m
  BY Fields

(* TX_END leaves a whole map whole, and makes it durable when no client's transaction
   is open. *)
LEMMA EndTx ==
  ASSUME NEW p, TxOK(p), NEW rk \in Ranks, Whole(p.mem, Left(p), rk), DiskOK(durable),
         TxEnd(p)
  PROVE  /\ TxOK(pm') /\ DiskOK(durable') /\ outer' = outer
         /\ Left(pm') = Left(p) /\ Agree(p.mem, pm'.mem, Left(p))
         /\ Whole(pm'.mem, Left(p), rk)
         /\ pm'.mem[MapLoc] = p.mem[MapLoc]
         /\ p.mem[MapLoc] # Null =>
              LET b == p.mem[BucketsLoc]
              IN  pm'.mem[BucketsLoc] = b /\ pm'.mem[LenLoc(b)] = p.mem[LenLoc(b)]
<1>1. /\ TxOK(pm') /\ outer' = outer
      /\ Left(pm') = Left(p) /\ Agree(p.mem, pm'.mem, Left(p))
      /\ outer => durable' = durable
      /\ ~outer => durable' = pm'.mem /\ Objects(pm'.mem) = Left(p)
  <2>1. CASE outer
    BY <2>1 DEF TxEnd, Agree
  <2>2. CASE ~outer
    BY <2>2, CommitTx DEF TxEnd
  <2> QED
    BY <2>1, <2>2
<1>2. Layout(p.mem) /\ Left(p) \subseteq Objects(p.mem)
  BY DEF TxOK, Left
<1>3. /\ Whole(pm'.mem, Left(p), rk) /\ pm'.mem[MapLoc] = p.mem[MapLoc]
      /\ p.mem[MapLoc] # Null => pm'.mem[BucketsLoc] = p.mem[BucketsLoc]
  BY <1>1, <1>2, WholeAgree
<1>4. ASSUME p.mem[MapLoc] # Null
      PROVE  pm'.mem[LenLoc(p.mem[BucketsLoc])] = p.mem[LenLoc(p.mem[BucketsLoc])]
  BY <1>1, <1>2, <1>4, TheMap DEF Agree, LenLoc
<1>5. DiskOK(durable')
  <2>1. CASE outer
    BY <1>1, <2>1
  <2>2. CASE ~outer
    BY <1>1, <1>3, <2>2 DEF DiskOK, TxOK
  <2> QED
    BY <2>1, <2>2
<1> QED
  BY <1>1, <1>3, <1>4, <1>5

(* The frame of a call that does not walk says nothing. *)
LEMMA AtRest ==
  ASSUME TxOK(pm)', DiskOK(durable)', ControlOK', NEW rk \in Ranks,
         Whole(pm.mem, Live, rk)', pc' \in {"idle", "new"},
         pc' = "new" => pm'.mem[MapLoc] = Null
  PROVE  MapInv'
<1>1. ShapeOK(rk, {})'
  BY DEF ShapeOK, Loose
<1>2. CallOK' /\ InsertOK(rk)' /\ RemoveOK'
  BY DEF CallOK, InsertOK, RemoveOK, OnArray, Walking
<1> QED
  BY <1>1, <1>2 DEF MapInv, PoolOK

(* A rebuild of a map that is there begins. *)
LEMMA AtRebuild ==
  ASSUME TxOK(pm)', DiskOK(durable)', ControlOK', NEW rk \in Ranks,
         Whole(pm.mem, Live, rk)', pc' = "rb_log", f'.new_len \in Nat,
         pm'.mem[MapLoc] = "map", f'.buckets = pm'.mem[BucketsLoc]
  PROVE  MapInv'
<1>1. ShapeOK(rk, {})'
  BY DEF ShapeOK, Loose
<1>2. CallOK' /\ InsertOK(rk)' /\ RemoveOK'
  BY DEF CallOK, InsertOK, RemoveOK, OnArray, Walking
<1> QED
  BY <1>1, <1>2 DEF MapInv, PoolOK
-----------------------------------------------------------------------------
(* A pool without a map. *)
LEMMA MapInit == Init => MapInv
<1> SUFFICES ASSUME Init PROVE MapInv
  OBVIOUS
<1> DEFINE rk == [e \in Entries |-> 0]
<1>1. rk \in Ranks
  BY DEF Ranks
<1>2. DOMAIN durable = {MapLoc} /\ durable[MapLoc] = Null
  BY DEF Init
<1>3. Objects(durable) = {"root"} /\ LocsOf(durable, {"root"}) = {MapLoc}
  BY <1>2 DEF Objects, LocsOf, MapLoc
<1>4. Layout(durable)
  BY <1>2, <1>3, Names DEF Layout, RootOK
<1>5. Whole(durable, Objects(durable), rk)
  BY <1>2, <1>3 DEF Whole
<1> HIDE DEF rk
<1>6. TxOK(pm) /\ pm.mem = durable /\ Live = Objects(durable)
  BY <1>4, NoTxTx DEF Init, Live
<1>7. ControlOK /\ pc = "idle"
  BY DEF Init, ControlOK
<1>8. ShapeOK(rk, {}) /\ CallOK /\ InsertOK(rk) /\ RemoveOK
  BY <1>5, <1>6, <1>7
     DEF ShapeOK, Loose, CallOK, InsertOK, RemoveOK, OnArray, Walking
<1> QED
  BY <1>1, <1>4, <1>5, <1>6, <1>7, <1>8 DEF MapInv, DiskOK, PoolOK

(* An abort, or a crash, gives back the image that was durable. *)
LEMMA MapBack ==
  ASSUME MapInv, LogInv, pm' = Rollback(pm), durable' = durable, pc' = "idle", ControlOK'
  PROVE  MapInv'
<1>1. pm' = NoTx(durable)
  BY DEF LogInv, RollbackExact, Rollback
<1>2. PICK rk \in Ranks : Whole(durable, Objects(durable), rk)
  BY DEF MapInv, DiskOK
<1>3. TxOK(pm') /\ pm'.mem = durable /\ Left(pm') = Objects(durable)
  BY <1>1, NoTxTx DEF MapInv, DiskOK
<1> QED
  BY <1>2, <1>3, AtRest DEF MapInv, Live

(* The client's transaction and the calls that only start. *)
LEMMA MapIdle ==
  ASSUME MapInv, LogInv,
         TxBegin \/ TxCommit \/ TxAbort \/ Crash \/ hm_tx_create
  PROVE  MapInv'
<1>0. ControlOK /\ TxOK(pm) /\ DiskOK(durable)
  BY DEF MapInv
<1>1. CASE TxAbort \/ Crash
  <2>1. ControlOK' /\ pm' = Rollback(pm) /\ durable' = durable /\ pc' = "idle"
    BY <1>0, <1>1 DEF TxAbort, Crash, Return, OnAbort, ControlOK
  <2> QED
    BY <2>1, MapBack
<1>2. ASSUME pc = "idle"
      PROVE  \E rk \in Ranks : Whole(pm.mem, Live, rk)
  BY <1>2 DEF MapInv, PoolOK, ShapeOK, Loose
<1>3. CASE TxBegin
  <2>1. PICK rk \in Ranks : Whole(pm.mem, Live, rk)
    BY <1>2, <1>3 DEF TxBegin
  <2>2. ControlOK' /\ pm' = pm /\ durable' = durable /\ pc' = "idle"
    BY <1>0, <1>3 DEF TxBegin, ControlOK
  <2> QED
    BY <1>0, <2>1, <2>2, AtRest DEF Live
<1>4. CASE hm_tx_create
  <2>1. PICK rk \in Ranks : Whole(pm.mem, Live, rk)
    BY <1>2, <1>4 DEF hm_tx_create
  <2>2. ControlOK' /\ pm' = pm /\ durable' = durable /\ pc' = "new" /\ pm.mem[MapLoc] = Null
    BY <1>0, <1>4 DEF hm_tx_create, ControlOK, MapExists
  <2> QED
    BY <1>0, <2>1, <2>2, AtRest DEF Live
<1>5. CASE TxCommit
  <2>1. PICK rk \in Ranks : Whole(pm.mem, Live, rk)
    BY <1>2, <1>5 DEF TxCommit
  <2>2. /\ TxOK(pm') /\ Left(pm') = Live /\ Objects(pm'.mem) = Live
        /\ Agree(pm.mem, pm'.mem, Live)
    BY <1>0, <1>5, CommitTx DEF TxCommit, Live
  <2>3. Whole(pm'.mem, Live, rk)
    BY <1>0, <2>1, <2>2, WholeAgree DEF TxOK, Live, Left
  <2>4. DiskOK(durable')
    BY <1>5, <2>2, <2>3 DEF TxCommit, DiskOK, TxOK
  <2>5. ControlOK' /\ pc' = "idle"
    BY <1>0, <1>5 DEF TxCommit, ControlOK
  <2> QED
    BY <2>2, <2>3, <2>4, <2>5, AtRest DEF Live
<1> QED
  BY <1>1, <1>3, <1>4, <1>5
-----------------------------------------------------------------------------
(* hm_tx_create: the map object, and then its array of empty slots. *)
LEMMA MapCreate ==
  ASSUME MapInv, CreateMap
  PROVE  MapInv'
<1> DEFINE z  == [l \in {FunA, FunB, CountLoc, BucketsLoc} |-> IF l = BucketsLoc THEN Null ELSE 0]
           p1 == TxAdd(pm, {MapLoc})
           p2 == TxAlloc(p1, "map", z)
<1>0. /\ ControlOK /\ TxOK(pm) /\ DiskOK(durable)
      /\ pc = "new" /\ "map" \notin Objects(pm.mem)
      /\ pm' = Store(p2, MapLoc, "map") /\ pc' = "new_buckets"
      /\ durable' = durable /\ outer' = outer /\ ret' = ret
  BY DEF MapInv, CreateMap
<1>1. Live = {"root"}
  BY <1>0 DEF MapInv, PoolOK, ShapeOK, Loose, Whole
<1>2. /\ MapOK(z) /\ DOMAIN z # {} /\ \A l \in DOMAIN z : l[1] = "map"
      /\ z[CountLoc] = 0 /\ CountLoc \in DOMAIN z
  BY DEF MapOK, LocsOf, FunA, FunB, CountLoc, BucketsLoc
<1> HIDE DEF z
<1>3. TxOK(p1) /\ Left(p1) = Live /\ p1.mem = pm.mem
  BY <1>0, AddTx DEF Live
<1> HIDE DEF p1
<1>4. /\ TxOK(p2) /\ Left(p2) = {"root", "map"} /\ Agree(z, p2.mem, {"map"})
  BY <1>0, <1>1, <1>2, <1>3, AllocTx
<1>5. p2.mem[CountLoc] = 0 /\ CountLoc \in DOMAIN p2.mem
  BY <1>2, <1>4 DEF Agree, CountLoc
<1> HIDE DEF p2
<1>6. MapLoc \in DOMAIN p2.mem
  BY <1>4, Fields DEF TxOK
<1>7. /\ TxOK(pm') /\ Left(pm') = {"root", "map"} /\ pm'.mem[MapLoc] = "map"
      /\ \A x \in DOMAIN p2.mem : x # MapLoc => pm'.mem[x] = p2.mem[x]
  BY <1>0, <1>4, <1>6, StoreTx
<1>8. pm'.mem[CountLoc] = 0
  BY <1>5, <1>7 DEF CountLoc, MapLoc
<1>9. ControlOK'
  BY <1>0 DEF ControlOK
<1>10. PICK rk \in Ranks : TRUE
  BY <1>0 DEF DiskOK
<1>11. ShapeOK(rk, {})' /\ CallOK' /\ InsertOK(rk)' /\ RemoveOK'
  BY <1>0, <1>7, <1>8
     DEF ShapeOK, Loose, CallOK, InsertOK, RemoveOK, OnArray, Walking, Live
<1> QED
  BY <1>0, <1>7, <1>9, <1>11 DEF MapInv, PoolOK

(* A zeroed array is laid out as one, and all its slots are empty. *)
LEMMA ZeroArrayFacts ==
  ASSUME NEW b \in Arrays, NEW n \in Nat \ {0}
  PROVE  LET z == ZeroArray(b, n)
         IN  /\ ArrayOK(z, b) /\ DOMAIN z # {} /\ \A l \in DOMAIN z : l[1] = b
             /\ LenLoc(b) \in DOMAIN z /\ z[LenLoc(b)] = n
             /\ \A i \in 0 .. n - 1 : SlotLoc(b, i) \in DOMAIN z /\ z[SlotLoc(b, i)] = Null
<1> DEFINE z == ZeroArray(b, n)
<1>1. /\ DOMAIN z = {LenLoc(b)} \cup {SlotLoc(b, i) : i \in 0 .. n - 1}
      /\ \A l \in DOMAIN z : z[l] = IF l = LenLoc(b) THEN n ELSE Null
  BY DEF ZeroArray
<1> HIDE DEF z
<1>2. \A l \in DOMAIN z : l[1] = b
  BY <1>1 DEF LenLoc, SlotLoc
<1>3. z[LenLoc(b)] = n /\ Slots(z, b) = 0 .. n - 1
  BY <1>1 DEF Slots
<1>4. \A i \in 0 .. n - 1 : SlotLoc(b, i) \in DOMAIN z /\ z[SlotLoc(b, i)] = Null
  BY <1>1 DEF LenLoc, SlotLoc
<1>5. LocsOf(z, {b}) = DOMAIN z
  BY <1>2 DEF LocsOf
<1>6. ArrayOK(z, b)
  BY <1>1, <1>3, <1>5 DEF ArrayOK
<1> QED
  BY <1>1, <1>2, <1>3, <1>4, <1>6 DEF z

(* A new zeroed array in the pool. *)
LEMMA AllocArrayTx ==
  ASSUME NEW p, TxOK(p), NEW b \in Arrays, b \notin Objects(p.mem), NEW n \in Nat \ {0}
  PROVE  LET q == TxAlloc(p, b, ZeroArray(b, n))
         IN  /\ TxOK(q) /\ Left(q) = Left(p) \cup {b} /\ b \notin Left(p)
             /\ Agree(p.mem, q.mem, Left(p))
             /\ q.mem[LenLoc(b)] = n
             /\ \A i \in Slots(q.mem, b) : q.mem[SlotLoc(b, i)] = Null
<1> DEFINE z == ZeroArray(b, n)
           q == TxAlloc(p, b, z)
<1>1. /\ ArrayOK(z, b) /\ DOMAIN z # {} /\ \A l \in DOMAIN z : l[1] = b
      /\ LenLoc(b) \in DOMAIN z /\ z[LenLoc(b)] = n
      /\ \A i \in 0 .. n - 1 : SlotLoc(b, i) \in DOMAIN z /\ z[SlotLoc(b, i)] = Null
  BY ZeroArrayFacts
<1> HIDE DEF z
<1>2. /\ TxOK(q) /\ Left(q) = Left(p) \cup {b} /\ b \notin Left(p)
      /\ Agree(p.mem, q.mem, Left(p)) /\ Agree(z, q.mem, {b})
  <2>1. b # "root"
    BY Names
  <2> HIDE DEF q
  <2>2. q = TxAlloc(p, b, z)
    BY DEF q
  <2> QED
    BY <1>1, <2>1, <2>2, AllocTx
<1> HIDE DEF q
<1>3. \A l \in DOMAIN z : q.mem[l] = z[l]
  BY <1>1, <1>2 DEF Agree
<1>4. q.mem[LenLoc(b)] = n
  BY <1>1, <1>3
<1>5. \A i \in Slots(q.mem, b) : q.mem[SlotLoc(b, i)] = Null
  BY <1>1, <1>3, <1>4 DEF Slots
<1> QED
  BY <1>2, <1>4, <1>5 DEF q, z

(* create_hashmap. *)
LEMMA MapFirstArray ==
  ASSUME MapInv, create_hashmap
  PROVE  MapInv'
<1>0. /\ ControlOK /\ TxOK(pm) /\ DiskOK(durable) /\ pc = "new_buckets"
      /\ Live = {"root", "map"} /\ pm.mem[MapLoc] = "map" /\ pm.mem[CountLoc] = 0
  BY DEF MapInv, PoolOK, ShapeOK, create_hashmap
<1>1. PICK a \in Rands \ {0}, b \in Rands, arr \in Arrays \ Objects(pm.mem) :
        LET p == TxAlloc(TxAdd(pm, LocsOf(pm.mem, {"map"})), arr,
                         ZeroArray(arr, INIT_BUCKETS_NUM))
        IN  TxEnd(Store(Store(Store(p, FunA, a), FunB, b), BucketsLoc, arr))
  BY DEF create_hashmap
<1> DEFINE p1 == TxAdd(pm, LocsOf(pm.mem, {"map"}))
           p2 == TxAlloc(p1, arr, ZeroArray(arr, INIT_BUCKETS_NUM))
           p3 == Store(p2, FunA, a)
           p4 == Store(p3, FunB, b)
           p5 == Store(p4, BucketsLoc, arr)
<1>2. TxOK(p1) /\ Left(p1) = Live /\ p1.mem = pm.mem
  BY <1>0, AddTx DEF Live
<1>3. INIT_BUCKETS_NUM \in Nat \ {0} /\ a \in Nat /\ b \in Nat
  BY HashmapAssumption
<1>4. TxEnd(p5)
  BY <1>1
<1> HIDE DEF p1
<1>5. /\ TxOK(p2) /\ Left(p2) = {"root", "map", arr} /\ Agree(pm.mem, p2.mem, Live)
      /\ p2.mem[LenLoc(arr)] = INIT_BUCKETS_NUM
      /\ \A i \in Slots(p2.mem, arr) : p2.mem[SlotLoc(arr, i)] = Null
  <2>1. arr \in Arrays /\ arr \notin Objects(p1.mem)
    BY <1>2
  <2>2. /\ TxOK(p2) /\ Left(p2) = Left(p1) \cup {arr} /\ Agree(p1.mem, p2.mem, Left(p1))
        /\ p2.mem[LenLoc(arr)] = INIT_BUCKETS_NUM
        /\ \A i \in Slots(p2.mem, arr) : p2.mem[SlotLoc(arr, i)] = Null
    BY <1>2, <1>3, <2>1, AllocArrayTx
  <2> HIDE DEF p2
  <2> QED
    BY <1>0, <1>2, <2>2
<1> HIDE DEF p2
<1>6. /\ {MapLoc, CountLoc, FunA, FunB, BucketsLoc} \subseteq DOMAIN p2.mem
      /\ \A i \in Slots(p2.mem, arr) : SlotLoc(arr, i) \in DOMAIN p2.mem
      /\ LenLoc(arr) \in DOMAIN p2.mem
  <2>1. {"map", arr} \subseteq Objects(p2.mem) /\ Layout(p2.mem)
    BY <1>5 DEF Left, TxOK
  <2> QED
    BY <2>1, Fields
<1>7. p2.mem[MapLoc] = "map" /\ p2.mem[CountLoc] = 0
  <2>1. {MapLoc, CountLoc} \subseteq DOMAIN pm.mem
    BY <1>0, Fields DEF TxOK, Live, Left
  <2> QED
    BY <1>0, <1>5, <2>1 DEF Agree, MapLoc, CountLoc
<1>8. /\ TxOK(p3) /\ Left(p3) = Left(p2) /\ DOMAIN p3.mem = DOMAIN p2.mem
      /\ \A x \in DOMAIN p2.mem : x # FunA => p3.mem[x] = p2.mem[x]
  BY <1>3, <1>5, <1>6, StoreTx
<1> HIDE DEF p3
<1>9. /\ TxOK(p4) /\ Left(p4) = Left(p2) /\ DOMAIN p4.mem = DOMAIN p2.mem
      /\ \A x \in DOMAIN p2.mem : x # FunB => p4.mem[x] = p3.mem[x]
  BY <1>3, <1>6, <1>8, StoreTx
<1> HIDE DEF p4
<1>10. /\ TxOK(p5) /\ Left(p5) = Left(p2) /\ p5.mem[BucketsLoc] = arr
       /\ \A x \in DOMAIN p2.mem : x # BucketsLoc => p5.mem[x] = p4.mem[x]
  BY <1>6, <1>9, StoreTx DEF Free
<1> HIDE DEF p5
<1>11. \A x \in DOMAIN p2.mem : x \notin {FunA, FunB, BucketsLoc} => p5.mem[x] = p2.mem[x]
  BY <1>8, <1>9, <1>10
<1>12. p5.mem[MapLoc] = "map" /\ p5.mem[CountLoc] = 0
  BY <1>6, <1>7, <1>11 DEF MapLoc, CountLoc, FunA, FunB, BucketsLoc
<1>13. \A i \in Slots(p5.mem, arr) : p5.mem[SlotLoc(arr, i)] = Null
  <2>1. LenLoc(arr) \notin {FunA, FunB, BucketsLoc}
    BY DEF LenLoc, FunA, FunB, BucketsLoc
  <2>2. \A i : SlotLoc(arr, i) \notin {FunA, FunB, BucketsLoc}
    BY DEF SlotLoc, FunA, FunB, BucketsLoc
  <2>3. Slots(p5.mem, arr) = Slots(p2.mem, arr)
    BY <1>6, <1>11, <2>1 DEF Slots
  <2> QED
    BY <1>5, <1>6, <1>11, <2>2, <2>3
<1>14. PICK rk \in Ranks : TRUE
  BY <1>0 DEF DiskOK
<1>15. Whole(p5.mem, Left(p5), rk)
  <2>1. Left(p5) \cap Entries = {} /\ Left(p5) = {"root", "map", arr}
    BY <1>5, <1>10, Names
  <2>2. Chained(p5.mem, arr, {}, rk)
    BY <1>13, ChainedEmpty
  <2>3. Counted(p5.mem, {})
    BY <1>12, FS_EmptySet DEF Counted
  <2> QED
    BY <1>10, <1>12, <2>1, <2>2, <2>3, Names DEF Whole
<1>16. TxOK(pm') /\ DiskOK(durable') /\ outer' = outer /\ Whole(pm'.mem, Left(pm'), rk)
  BY <1>0, <1>4, <1>10, <1>15, EndTx
<1>17. ControlOK' /\ pc' = "idle"
  BY <1>0, <1>16 DEF ControlOK, create_hashmap, Return
<1> QED
  BY <1>16, <1>17, AtRest DEF Live

(* A call that starts to walk a chain is at its first entry. *)
LEMMA MapCalls ==
  ASSUME MapInv,
         \/ \E k \in Keys, v \in Vals : hm_tx_insert(k, v)
         \/ \E k \in Keys : hm_tx_remove(k)
         \/ \E n \in RebuildLens : hm_tx_cmd(n)
  PROVE  MapInv'
<1> DEFINE m == pm.mem
           b == m[BucketsLoc]
<1>0. /\ ControlOK /\ TxOK(pm) /\ DiskOK(durable) /\ pc = "idle" /\ m[MapLoc] # Null
      /\ UNCHANGED <<pm, durable, outer>>
  BY DEF MapInv, hm_tx_insert, hm_tx_remove, hm_tx_cmd, MapExists
<1>1. PICK rk \in Ranks : Whole(m, Live, rk)
  BY <1>0 DEF MapInv, PoolOK, ShapeOK, Loose
<1>2. /\ m[MapLoc] = "map"
      /\ \A k \in Keys : hash(m, b, k) \in Slots(m, b)
      /\ Chained(m, b, Live \cap Entries, rk)
  BY <1>0, <1>1, TheMap, TheHash DEF TxOK, Live, Left
<1>3. /\ \A i \in Slots(m, b) : m[SlotLoc(b, i)] # Null =>
           /\ m[SlotLoc(b, i)] \in Live \cap Entries
           /\ hash(m, b, m[KeyLoc(m[SlotLoc(b, i)])]) = i
      /\ \A e \in Live \cap Entries :
           LET h == m[SlotLoc(b, hash(m, b, m[KeyLoc(e)]))]
           IN  h # Null /\ rk[e] <= rk[h]
  BY <1>2, ChainedIs
<1>4. Live' = Live /\ TxOK(pm)' /\ DiskOK(durable)'
  BY <1>0 DEF Live
<1>5. ASSUME NEW k \in Keys, NEW v \in Vals, hm_tx_insert(k, v) PROVE MapInv'
  <2>1. /\ f'.key = k /\ f'.value = v /\ f'.buckets = b /\ f'.h = hash(m, b, k)
        /\ f'.var = m[SlotLoc(b, hash(m, b, k))] /\ pc' = "ins_scan"
    BY <1>5 DEF hm_tx_insert, Walk, NoFrame
  <2>2. ControlOK'
    BY <1>0, <1>5 DEF ControlOK, hm_tx_insert
  <2>3. ShapeOK(rk, {})' /\ CallOK' /\ RemoveOK'
    BY <1>0, <1>1, <1>2, <1>4, <2>1
       DEF ShapeOK, Loose, CallOK, RemoveOK, OnArray, Walking
  <2>4. f'.var # Null => Here(f.var)'
    BY <1>0, <1>2, <1>3, <1>4, <2>1 DEF Here
  <2>5. {e \in Entries : Here(e) /\ (f.var = Null \/ rk[e] > rk[f.var])}' = {}
    <3> SUFFICES ASSUME NEW e \in Entries, Here(e)', f'.var = Null \/ rk[e] > rk[f'.var]
                 PROVE  FALSE
      OBVIOUS
    <3>1. e \in Live \cap Entries /\ hash(m, b, m[KeyLoc(e)]) = hash(m, b, k)
      BY <1>0, <1>4, <2>1 DEF Here
    <3>2. f'.var # Null /\ rk[e] <= rk[f'.var] /\ f'.var \in Entries
      BY <1>2, <1>3, <2>1, <3>1
    <3> QED
      BY <3>2 DEF Ranks
  <2>6. InsertOK(rk)'
    BY <2>1, <2>4, <2>5 DEF InsertOK, Unused
  <2> QED
    BY <1>4, <2>2, <2>3, <2>6 DEF MapInv, PoolOK
<1>6. ASSUME NEW k \in Keys, hm_tx_remove(k) PROVE MapInv'
  <2>1. /\ f'.key = k /\ f'.buckets = b /\ f'.h = hash(m, b, k) /\ f'.prev = Null
        /\ f'.var = m[SlotLoc(b, hash(m, b, k))] /\ pc' = "rm_scan"
    BY <1>6 DEF hm_tx_remove, Walk, NoFrame
  <2>2. ControlOK'
    BY <1>0, <1>6 DEF ControlOK, hm_tx_remove
  <2>3. ShapeOK(rk, {})' /\ CallOK' /\ InsertOK(rk)'
    BY <1>0, <1>1, <1>2, <1>4, <2>1
       DEF ShapeOK, Loose, CallOK, InsertOK, OnArray, Walking
  <2>4. f'.var # Null => Here(f.var)'
    BY <1>0, <1>2, <1>3, <1>4, <2>1 DEF Here
  <2>5. RemoveOK'
    BY <1>0, <2>1, <2>4 DEF RemoveOK
  <2> QED
    BY <1>4, <2>2, <2>3, <2>5 DEF MapInv, PoolOK
<1>7. ASSUME NEW n \in RebuildLens, hm_tx_cmd(n) PROVE MapInv'
  <2>1. f'.buckets = b /\ f'.new_len \in Nat /\ pc' = "rb_log"
    BY <1>7, HashmapAssumption DEF hm_tx_cmd, NoFrame
  <2>2. ControlOK'
    BY <1>0, <1>7 DEF ControlOK, hm_tx_cmd
  <2> QED
    BY <1>0, <1>1, <1>2, <1>4, <2>1, <2>2, AtRebuild
<1> QED
  BY <1>5, <1>6, <1>7
-----------------------------------------------------------------------------
(* Where images agree, an array has the same slots, and keys the same hash. *)
LEMMA AgreeHash ==
  ASSUME NEW m, Layout(m), NEW n, NEW O, Agree(m, n, O), O \subseteq Objects(m),
         NEW b \in Arrays, {"map", b} \subseteq O
  PROVE  /\ SameHash(m, n, b) /\ Slots(n, b) = Slots(m, b)
         /\ \A k : hash(n, b, k) = hash(m, b, k)
         /\ \A i \in Slots(m, b) : n[SlotLoc(b, i)] = m[SlotLoc(b, i)]
<1>1. /\ {FunA, FunB, LenLoc(b)} \subseteq DOMAIN m
      /\ \A i \in Slots(m, b) : SlotLoc(b, i) \in DOMAIN m
  BY Fields
<1>2. SameHash(m, n, b)
  BY <1>1 DEF Agree, SameHash, FunA, FunB, LenLoc
<1>3. \A i \in Slots(m, b) : n[SlotLoc(b, i)] = m[SlotLoc(b, i)]
  BY <1>1 DEF Agree, SlotLoc
<1> QED
  BY <1>2, <1>3 DEF SameHash, Slots, hash

(* Where a call on a map is, its map is whole but for what the call holds. *)
LEMMA CallOnMap ==
  ASSUME MapInv, pc \in OnArray
  PROVE  \E rk \in Ranks, N \in SUBSET Entries :
           /\ PoolOK(rk, N) /\ Whole(pm.mem, Live \ Loose, rk)
           /\ pm.mem[MapLoc] = "map" /\ f.buckets = pm.mem[BucketsLoc]
  BY DEF MapInv, PoolOK, ShapeOK, CallOK, OnArray, Walking

(* hm_tx_insert looks for the key: what it has passed has other keys. *)
LEMMA MapInsertScan ==
  ASSUME MapInv, LogInv, InsertScan
  PROVE  MapInv'
<1> DEFINE m == pm.mem
           b == f.buckets
           E == Live \cap Entries
<1>0. /\ ControlOK /\ TxOK(pm) /\ DiskOK(durable) /\ pc = "ins_scan"
      /\ UNCHANGED <<pm, durable, outer>>
  BY DEF MapInv, InsertScan
<1>1. PICK rk \in Ranks, N \in SUBSET Entries :
        PoolOK(rk, N) /\ Whole(m, Live, rk) /\ m[MapLoc] = "map" /\ b = m[BucketsLoc]
  BY <1>0, CallOnMap DEF OnArray, Walking, Loose
<1>2. /\ f.key \in Keys /\ f.value \in Vals /\ f.h = hash(m, b, f.key)
      /\ f.var # Null => Here(f.var)
      /\ Unused({e \in Entries : Here(e) /\ (f.var = Null \/ rk[e] > rk[f.var])})
  BY <1>0, <1>1 DEF PoolOK, CallOK, InsertOK, Walking
<1>3. Chained(m, b, E, rk)
  BY <1>0, <1>1, TheMap, Names DEF TxOK, Live, Left
<1>4. Live' = Live /\ TxOK(pm)' /\ DiskOK(durable)'
  BY <1>0 DEF Live
<1>5. CASE f.var = Null /\ pc' = "ins_log" /\ UNCHANGED <<f, ret>>
  <2>1. ControlOK'
    BY <1>0, <1>5 DEF ControlOK
  <2>2. \A e \in E : m[KeyLoc(e)] # f.key
    BY <1>2, <1>5 DEF Unused, Here
  <2>3. InsertOK(rk)'
    BY <1>0, <1>2, <1>4, <1>5, <2>2 DEF InsertOK, Unused
  <2>4. ShapeOK(rk, N)' /\ CallOK' /\ RemoveOK'
    BY <1>0, <1>1, <1>2, <1>4, <1>5 DEF ShapeOK, Loose, CallOK, RemoveOK, OnArray, Walking
  <2> QED
    BY <1>4, <2>1, <2>3, <2>4 DEF MapInv, PoolOK
<1>6. CASE Return(1)
  <2>1. ControlOK' /\ pc' = "idle"
    BY <1>0, <1>6 DEF ControlOK, Return
  <2> QED
    BY <1>0, <1>1, <1>4, <2>1, AtRest
<1>7. CASE /\ f.var # Null /\ m[KeyLoc(f.var)] # f.key
           /\ f' = [f EXCEPT !.var = m[NextLoc(f.var)], !.num = f.num + 1]
           /\ UNCHANGED <<pc, ret>>
  <2> DEFINE v == m[NextLoc(f.var)]
  <2>1. /\ f'.key = f.key /\ f'.value = f.value /\ f'.buckets = b /\ f'.h = f.h
        /\ f'.var = v /\ pc' = "ins_scan"
    BY <1>0, <1>7 DEF LogInv, IsFrame
  <2>2. ControlOK'
    BY <1>0, <1>7 DEF ControlOK
  <2>3. ShapeOK(rk, N)' /\ CallOK' /\ RemoveOK'
    BY <1>0, <1>1, <1>2, <1>4, <2>1 DEF ShapeOK, Loose, CallOK, RemoveOK, OnArray, Walking
  <2>4. f.var \in E /\ hash(m, b, m[KeyLoc(f.var)]) = f.h
    BY <1>2, <1>7 DEF Here
  <2>5. /\ IF rk[f.var] = 0 THEN v = Null
           ELSE v \in E /\ rk[v] = rk[f.var] - 1 /\ hash(m, b, m[KeyLoc(v)]) = f.h
        /\ \A e \in E : hash(m, b, m[KeyLoc(e)]) = f.h /\ rk[e] = rk[f.var] => e = f.var
    BY <1>3, <2>4, ChainedIs
  <2>6. v # Null => v \in E /\ rk[v] = rk[f.var] - 1 /\ hash(m, b, m[KeyLoc(v)]) = f.h
    BY <2>5
  <2>7. v = Null => rk[f.var] = 0
    BY <2>5, Names
  <2>8. ASSUME NEW e \in E, hash(m, b, m[KeyLoc(e)]) = f.h, v = Null \/ rk[e] > rk[v]
        PROVE  m[KeyLoc(e)] # f.key
    <3>1. rk[e] \in Nat /\ rk[f.var] \in Nat
      BY <2>4 DEF Ranks
    <3>2. rk[e] >= rk[f.var]
      BY <2>6, <2>7, <2>8, <3>1
    <3>3. CASE rk[e] = rk[f.var]
      BY <1>7, <2>5, <2>8, <3>3
    <3>4. CASE rk[e] > rk[f.var]
      BY <1>2, <2>8, <3>4 DEF Unused, Here
    <3> QED
      BY <3>1, <3>2, <3>3, <3>4
  <2> HIDE DEF v
  <2>9. InsertOK(rk)'
    BY <1>0, <1>2, <1>4, <2>1, <2>6, <2>8 DEF InsertOK, Unused, Here
  <2> QED
    BY <1>4, <2>2, <2>3, <2>9 DEF MapInv, PoolOK
<1> QED
  BY <1>5, <1>6, <1>7 DEF InsertScan

(* Snapshotting the slot and `count'. *)
LEMMA MapInsertLog ==
  ASSUME MapInv, InsertLog
  PROVE  MapInv'
<1>0. /\ ControlOK /\ TxOK(pm) /\ DiskOK(durable) /\ pc = "ins_log" /\ pc' = "ins_new"
      /\ UNCHANGED <<durable, outer, f, ret>> /\ pm' = TxAdd(pm, InsertLogs)
  BY DEF MapInv, InsertLog
<1>1. PICK rk \in Ranks, N \in SUBSET Entries : PoolOK(rk, N)
  BY DEF MapInv
<1>2. TxOK(pm') /\ Live' = Live /\ pm'.mem = pm.mem
  BY <1>0, AddTx DEF Live
<1>3. ControlOK'
  BY <1>0 DEF ControlOK
<1>4. ShapeOK(rk, N)' /\ CallOK' /\ RemoveOK'
  BY <1>0, <1>1, <1>2 DEF PoolOK, ShapeOK, Loose, CallOK, RemoveOK, OnArray, Walking
<1>5. InsertOK(rk)'
  BY <1>0, <1>1, <1>2 DEF PoolOK, InsertOK, Unused
<1> QED
  BY <1>0, <1>2, <1>3, <1>4, <1>5 DEF MapInv, PoolOK

(* The new entry has the key and points to the first entry of its slot. *)
LEMMA MapInsertNew ==
  ASSUME MapInv, LogInv, InsertNew
  PROVE  MapInv'
<1> DEFINE m == pm.mem
           b == f.buckets
           E == Live \cap Entries
<1>0. /\ ControlOK /\ TxOK(pm) /\ DiskOK(durable) /\ pc = "ins_new" /\ pc' = "ins_link"
      /\ UNCHANGED <<durable, outer, ret>>
  BY DEF MapInv, InsertNew
<1>1. PICK rk \in Ranks, N \in SUBSET Entries :
        PoolOK(rk, N) /\ Whole(m, Live, rk) /\ m[MapLoc] = "map" /\ b = m[BucketsLoc]
  BY <1>0, CallOnMap DEF OnArray, Walking, Loose
<1>2. /\ f.key \in Keys /\ f.value \in Vals /\ f.h = hash(m, b, f.key)
      /\ Unused(E)
  BY <1>0, <1>1 DEF PoolOK, CallOK, InsertOK, Walking
<1>3. PICK e \in Entries \ Objects(m) :
        /\ pm' = TxAlloc(pm, e, [l \in {KeyLoc(e), ValueLoc(e), NextLoc(e)} |->
                   CASE l = KeyLoc(e)   -> f.key
                     [] l = ValueLoc(e) -> f.value
                     [] OTHER           -> pm.mem[SlotLoc(f.buckets, f.h)]])
        /\ f' = [f EXCEPT !.var = e]
  BY DEF InsertNew
<1> DEFINE z == [l \in {KeyLoc(e), ValueLoc(e), NextLoc(e)} |->
                   CASE l = KeyLoc(e)   -> f.key
                     [] l = ValueLoc(e) -> f.value
                     [] OTHER           -> pm.mem[SlotLoc(f.buckets, f.h)]]
<1>4. /\ DOMAIN z = {KeyLoc(e), ValueLoc(e), NextLoc(e)}
      /\ z[KeyLoc(e)] = f.key /\ z[ValueLoc(e)] = f.value
      /\ z[NextLoc(e)] = m[SlotLoc(b, f.h)]
  BY DEF KeyLoc, ValueLoc, NextLoc
<1>5. pm' = TxAlloc(pm, e, z)
  BY <1>3
<1> HIDE DEF z
<1>6. \A l \in DOMAIN z : l[1] = e
  BY <1>4 DEF KeyLoc, ValueLoc, NextLoc
<1>7. EntryOK(z, e)
  <2>1. LocsOf(z, {e}) = DOMAIN z
    BY <1>6 DEF LocsOf
  <2> QED
    BY <1>2, <1>4, <2>1 DEF EntryOK
<1>8. /\ TxOK(pm') /\ Left(pm') = Live \cup {e} /\ e \notin Live
      /\ Agree(m, pm'.mem, Live) /\ Agree(z, pm'.mem, {e})
  <2>1. e # "root" /\ DOMAIN z # {} /\ e \notin Objects(pm.mem) /\ e \in Entries
    BY <1>4, Names
  <2> DEFINE q == TxAlloc(pm, e, z)
  <2>2. /\ TxOK(q) /\ Left(q) = Left(pm) \cup {e} /\ e \notin Left(pm)
        /\ Agree(pm.mem, q.mem, Left(pm)) /\ Agree(z, q.mem, {e})
    <3>1. TxOK(pm) /\ (e \in Entries /\ EntryOK(z, e))
      BY <1>0, <1>7
    <3> HIDE DEF q
    <3>2. q = TxAlloc(pm, e, z)
      BY DEF q
    <3> QED
      BY <1>6, <2>1, <3>1, <3>2, AllocTx, SMTT(60)
  <2> HIDE DEF q
  <2>3. pm' = q
    BY <1>5 DEF q
  <2> QED
    BY <2>2, <2>3 DEF Live
<1>9. pm'.mem[KeyLoc(e)] = f.key /\ pm'.mem[NextLoc(e)] = m[SlotLoc(b, f.h)]
  BY <1>4, <1>8 DEF Agree, KeyLoc, NextLoc
<1>10. Layout(m) /\ Live \subseteq Objects(m)
  BY <1>0 DEF TxOK, Live, Left
<1>11. /\ b \in Arrays /\ {"map", b} \subseteq Live /\ f.h \in Slots(m, b)
       /\ \A x \in E : KeyLoc(x) \in DOMAIN m
  <2>1. Whole(m, Live, rk) /\ m[MapLoc] # Null
    BY <1>1, Names
  <2>2. m[BucketsLoc] \in Arrays /\ "map" \in Live /\ m[BucketsLoc] \in Live
    BY <1>10, <2>1, TheMap
  <2>3. hash(m, m[BucketsLoc], f.key) \in Slots(m, m[BucketsLoc])
    BY <1>2, <1>10, <2>1, TheHash
  <2>4. \A x \in E : KeyLoc(x) \in DOMAIN m
    BY <1>10, TheEntry
  <2> QED
    BY <1>1, <1>2, <2>2, <2>3, <2>4
<1>12. Whole(pm'.mem, Live, rk) /\ pm'.mem[MapLoc] = "map" /\ pm'.mem[BucketsLoc] = b
  BY <1>1, <1>8, <1>10, WholeAgree, Names
<1>13. /\ \A k : hash(pm'.mem, b, k) = hash(m, b, k)
       /\ \A i \in Slots(m, b) : pm'.mem[SlotLoc(b, i)] = m[SlotLoc(b, i)]
  BY <1>8, <1>10, <1>11, AgreeHash
<1>14. \A x \in E : pm'.mem[KeyLoc(x)] # f.key
  BY <1>2, <1>8, <1>11 DEF Agree, KeyLoc, Unused
<1>15. /\ f'.key = f.key /\ f'.buckets = b /\ f'.h = f.h /\ f'.var = e
  BY <1>3 DEF LogInv, IsFrame
<1>16. ControlOK'
  BY <1>0 DEF ControlOK
<1>17. Live' \ {e} = Live /\ (Live' \cap Entries) \ {e} = E /\ e \in Live' \cap Entries
  BY <1>8 DEF Live
<1> HIDE DEF m, b, E
<1>18. ShapeOK(rk, N)'
  BY <1>0, <1>12, <1>15, <1>17 DEF ShapeOK, Loose
<1>19. CallOK' /\ RemoveOK'
  BY <1>0, <1>2, <1>12, <1>13, <1>15 DEF CallOK, RemoveOK, OnArray, Walking
<1>20. InsertOK(rk)'
  BY <1>0, <1>9, <1>11, <1>13, <1>14, <1>15, <1>17 DEF InsertOK, Unused
<1> QED
  BY <1>0, <1>8, <1>16, <1>18, <1>19, <1>20 DEF MapInv, PoolOK
-----------------------------------------------------------------------------
(* `count' never wraps: there are fewer entries than values of a uint64_t. *)
LEMMA CountUp ==
  ASSUME NEW E \in SUBSET Entries, NEW e \in Entries \ E
  PROVE  (Cardinality(E) + 1) % Word = Cardinality(E \cup {e})
<1>1. IsFiniteSet(E) /\ E \cup {e} \subseteq Entries
  BY FS_Subset, HashmapAssumption
<1>2. Cardinality(E \cup {e}) = Cardinality(E) + 1 /\ Cardinality(E) \in Nat
  BY <1>1, FS_AddElement, FS_CardinalityType
<1>3. Cardinality(E \cup {e}) <= Cardinality(Entries) /\ Cardinality(Entries) \in Nat
  BY <1>1, FS_Subset, FS_CardinalityType, HashmapAssumption
<1> QED
  BY <1>2, <1>3, HashmapAssumption

(* Nor is it decremented at zero. *)
LEMMA CountDown ==
  ASSUME NEW E \in SUBSET Entries, NEW e \in E
  PROVE  (Cardinality(E) - 1) % Word = Cardinality(E \ {e})
<1>1. IsFiniteSet(E) /\ E \ {e} \subseteq Entries
  BY FS_Subset, HashmapAssumption
<1>2. Cardinality(E \ {e}) = Cardinality(E) - 1 /\ Cardinality(E \ {e}) \in Nat
  BY <1>1, FS_RemoveElement, FS_CardinalityType
<1>3. Cardinality(E \ {e}) <= Cardinality(Entries) /\ Cardinality(Entries) \in Nat
  BY <1>1, FS_Subset, FS_CardinalityType, HashmapAssumption
<1> QED
  BY <1>2, <1>3, HashmapAssumption

(* A map out of an array of its entries. *)
LEMMA WholeFrom ==
  ASSUME NEW n, NEW O, NEW b \in Arrays, NEW rk, n[MapLoc] = "map", n[BucketsLoc] = b,
         O = {"root", "map", b} \cup (O \cap Entries),
         Chained(n, b, O \cap Entries, rk), Counted(n, O \cap Entries)
  PROVE  Whole(n, O, rk)
  BY Names DEF Whole

(* bucket[h] = e; count++ *)
LEMMA MapInsertLink ==
  ASSUME MapInv, LogInv, InsertLink
  PROVE  MapInv'
<1> DEFINE m == pm.mem
           b == f.buckets
           v == f.var
           E == (Live \cap Entries) \ {v}
           c == (m[CountLoc] + 1) % Word
           p1 == Store(pm, SlotLoc(b, f.h), v)
           p2 == Store(p1, CountLoc, c)
           n == p2.mem
<1>0. /\ ControlOK /\ TxOK(pm) /\ DiskOK(durable) /\ pc = "ins_link" /\ pc' = "ins_end"
      /\ UNCHANGED <<durable, outer, ret>> /\ pm' = p2
      /\ f' = [f EXCEPT !.num = @ + 1]
  BY DEF MapInv, InsertLink
<1>1. PICK rk \in Ranks, N \in SUBSET Entries :
        PoolOK(rk, N) /\ Whole(m, Live \ {v}, rk) /\ m[MapLoc] = "map" /\ b = m[BucketsLoc]
  BY <1>0, CallOnMap DEF OnArray, Walking, Loose
<1>2. /\ f.key \in Keys /\ f.h = hash(m, b, f.key)
      /\ v \in Live \cap Entries /\ m[KeyLoc(v)] = f.key
      /\ m[NextLoc(v)] = m[SlotLoc(b, f.h)]
      /\ \A e \in E : m[KeyLoc(e)] # f.key
  BY <1>0, <1>1 DEF PoolOK, CallOK, InsertOK, Walking, Unused
<1>3. Layout(m) /\ Live \subseteq Objects(m)
  BY <1>0 DEF TxOK, Live, Left
<1>4. E = (Live \ {v}) \cap Entries /\ E \subseteq Entries /\ E \cup {v} = Live \cap Entries
  BY <1>2
<1>5. /\ b \in Arrays /\ b \in Live /\ Live \ {v} = {"root", "map", b} \cup E
      /\ MapLoc \in DOMAIN m /\ CountLoc \in DOMAIN m /\ BucketsLoc \in DOMAIN m
      /\ LenLoc(b) \in DOMAIN m
      /\ Chained(m, b, E, rk) /\ Counted(m, E)
  <2>1. Whole(m, Live \ {v}, rk) /\ m[MapLoc] # Null /\ Live \ {v} \subseteq Objects(m)
    BY <1>1, <1>3, Names
  <2> HIDE DEF m, b, v
  <2>2. LET d == m[BucketsLoc]
            F == (Live \ {v}) \cap Entries
        IN  /\ d \in Arrays /\ d \in Live \ {v} /\ Live \ {v} = {"root", "map", d} \cup F
            /\ MapLoc \in DOMAIN m /\ CountLoc \in DOMAIN m /\ BucketsLoc \in DOMAIN m
            /\ LenLoc(d) \in DOMAIN m
            /\ Chained(m, d, F, rk) /\ Counted(m, F)
    BY <1>3, <2>1, TheMap
  <2> HIDE DEF E
  <2> QED
    BY <1>1, <1>4, <2>2
<1>6. f.h \in Slots(m, b)
  <2>1. Whole(m, Live \ {v}, rk) /\ m[MapLoc] # Null /\ Live \ {v} \subseteq Objects(m)
    BY <1>1, <1>3, Names
  <2> HIDE DEF m, b, v
  <2> QED
    BY <1>1, <1>2, <1>3, <2>1, TheHash
<1>7. \A i \in Slots(m, b) : SlotLoc(b, i) \in DOMAIN m
  BY <1>3, <1>5, TheSlot
<1>8. \A e \in E \cup {v} : KeyLoc(e) \in DOMAIN m /\ NextLoc(e) \in DOMAIN m
  BY <1>3, <1>4, TheEntry
<1>9. /\ TxOK(p1) /\ Left(p1) = Live /\ DOMAIN p1.mem = DOMAIN m
      /\ p1.mem[SlotLoc(b, f.h)] = v
      /\ \A x \in DOMAIN m : x # SlotLoc(b, f.h) => p1.mem[x] = m[x]
  BY <1>0, <1>5, <1>6, <1>7, StoreTx DEF Free, Live
<1> HIDE DEF p1
<1>10. /\ TxOK(p2) /\ Left(p2) = Live /\ n[CountLoc] = c
       /\ \A x \in DOMAIN m : x # CountLoc => n[x] = p1.mem[x]
  BY <1>5, <1>9, StoreTx DEF Free
<1> HIDE DEF p2, c
<1>11. n[SlotLoc(b, f.h)] = v
  BY <1>6, <1>7, <1>9, <1>10 DEF SlotLoc, CountLoc
<1>12. \A x \in DOMAIN m : x \notin {SlotLoc(b, f.h), CountLoc} => n[x] = m[x]
  BY <1>9, <1>10
<1> HIDE DEF n, m, b, v, E
<1>13. /\ n[MapLoc] = "map" /\ n[BucketsLoc] = b
       /\ SameHash(m, n, b)
  <2>1. /\ \A x \in {MapLoc, BucketsLoc, LenLoc(b), FunA, FunB} :
             x \notin {SlotLoc(b, f.h), CountLoc}
    BY DEF MapLoc, BucketsLoc, LenLoc, FunA, FunB, SlotLoc, CountLoc
  <2>2. "map" \in Objects(m)
    BY <1>3, <1>5, Names
  <2>3. FunA \in DOMAIN m /\ FunB \in DOMAIN m
    BY <1>3, <2>2, Fields
  <2> QED
    BY <1>1, <1>5, <1>12, <2>1, <2>3 DEF SameHash
<1>14. \A e \in E \cup {v} : n[KeyLoc(e)] = m[KeyLoc(e)] /\ n[NextLoc(e)] = m[NextLoc(e)]
  BY <1>8, <1>12 DEF KeyLoc, NextLoc, SlotLoc, CountLoc
<1>15. \A i \in Slots(m, b) \ {f.h} : n[SlotLoc(b, i)] = m[SlotLoc(b, i)]
  BY <1>7, <1>12 DEF SlotLoc, CountLoc
<1>16. PICK rk2 \in Ranks : Chained(n, b, E \cup {v}, rk2)
  <2>1. v \in Entries \ E /\ hash(m, b, n[KeyLoc(v)]) = f.h /\ n[NextLoc(v)] = m[SlotLoc(b, f.h)]
    BY <1>2, <1>14 DEF E
  <2> QED
    BY <1>5, <1>6, <1>11, <1>13, <1>14, <1>15, <2>1, ChainedPush
<1>17. Counted(n, E \cup {v})
  <2>1. n[CountLoc] = Cardinality(E \cup {v})
    BY <1>2, <1>4, <1>5, <1>10, CountUp DEF Counted, E, c, n
  <2>2. \A x, y \in E \cup {v} : n[KeyLoc(x)] = n[KeyLoc(y)] => x = y
    BY <1>2, <1>5, <1>14 DEF Counted
  <2> QED
    BY <2>1, <2>2 DEF Counted
<1>18. Whole(n, Live, rk2)
  <2>1. Live = {"root", "map", b} \cup (Live \cap Entries)
    BY <1>2, <1>4, <1>5
  <2> QED
    BY <1>4, <1>5, <1>13, <1>16, <1>17, <2>1, WholeFrom
<1>19. Live' = Live /\ pm'.mem = n /\ TxOK(pm)' /\ f'.buckets = b
  BY <1>0, <1>10 DEF Live, n, LogInv, IsFrame, b
<1>20. ControlOK'
  BY <1>0 DEF ControlOK
<1>21. ShapeOK(rk2, N)' /\ CallOK' /\ InsertOK(rk2)' /\ RemoveOK'
  BY <1>0, <1>13, <1>18, <1>19
     DEF ShapeOK, Loose, CallOK, InsertOK, RemoveOK, OnArray, Walking
<1> QED
  BY <1>0, <1>19, <1>20, <1>21 DEF MapInv, PoolOK

(* What is left of the old map when a call is over, or goes on to a rebuild. *)
LEMMA MapCallEnd ==
  ASSUME NEW p, TxOK(p), NEW rk \in Ranks, Whole(p.mem, Left(p), rk), p.mem[MapLoc] = "map",
         DiskOK(durable), TxEnd(p), ControlOK',
         \/ Done
         \/ \E n \in Nat : Rebuild(n) /\ p.mem[BucketsLoc] = pm.mem[BucketsLoc]
  PROVE  MapInv'
<1>1. /\ TxOK(pm') /\ DiskOK(durable') /\ Left(pm') = Left(p) /\ Whole(pm'.mem, Left(p), rk)
      /\ pm'.mem[MapLoc] = "map" /\ pm'.mem[BucketsLoc] = p.mem[BucketsLoc]
  BY EndTx, Names
<1>2. CASE Done
  BY <1>1, <1>2, AtRest DEF Done, Live
<1>3. CASE \E n \in Nat : Rebuild(n) /\ p.mem[BucketsLoc] = pm.mem[BucketsLoc]
  <2>1. pc' = "rb_log" /\ f'.new_len \in Nat /\ f'.buckets = pm'.mem[BucketsLoc]
    BY <1>1, <1>3 DEF Rebuild, NoFrame
  <2> QED
    BY <1>1, <2>1, AtRebuild DEF Live
<1> QED
  BY <1>2, <1>3

(* TX_END of an insert. *)
LEMMA MapInsertEnd ==
  ASSUME MapInv, InsertEnd
  PROVE  MapInv'
<1>0. ControlOK /\ TxOK(pm) /\ DiskOK(durable) /\ pc = "ins_end" /\ TxEnd(pm)
  BY DEF MapInv, InsertEnd
<1>1. PICK rk \in Ranks, N \in SUBSET Entries :
        Whole(pm.mem, Live, rk) /\ pm.mem[MapLoc] = "map" /\ f.buckets = pm.mem[BucketsLoc]
  BY <1>0, CallOnMap DEF OnArray, Walking, Loose
<1>2. pm.mem[LenLoc(f.buckets)] \in Nat
  BY <1>0, <1>1, TheMap, Names DEF TxOK, Live, Left
<1>3. Done \/ \E n \in Nat : Rebuild(n)
  <2>1. 2 * pm.mem[LenLoc(f.buckets)] \in Nat
    BY <1>2
  <2> QED
    BY <2>1 DEF InsertEnd
<1>4. ControlOK'
  <2>1. outer' = outer
    BY <1>0 DEF TxEnd
  <2> QED
    BY <1>0, <1>3, <2>1 DEF ControlOK, InsertEnd, Done, Rebuild
<1> QED
  BY <1>0, <1>1, <1>3, <1>4, MapCallEnd DEF Live
-----------------------------------------------------------------------------
(* hm_tx_remove looks for the key, and keeps the entry before. *)
LEMMA MapRemoveScan ==
  ASSUME MapInv, LogInv, RemoveScan
  PROVE  MapInv'
<1> DEFINE m == pm.mem
           b == f.buckets
           E == Live \cap Entries
<1>0. /\ ControlOK /\ TxOK(pm) /\ DiskOK(durable) /\ pc = "rm_scan"
      /\ UNCHANGED <<pm, durable, outer>>
  BY DEF MapInv, RemoveScan
<1>1. PICK rk \in Ranks, N \in SUBSET Entries :
        PoolOK(rk, N) /\ Whole(m, Live, rk) /\ m[MapLoc] = "map" /\ b = m[BucketsLoc]
  BY <1>0, CallOnMap DEF OnArray, Walking, Loose
<1>2. /\ f.key \in Keys /\ f.h = hash(m, b, f.key)
      /\ f.var # Null => Here(f.var)
      /\ IF f.prev = Null THEN f.var = m[SlotLoc(b, f.h)]
         ELSE Here(f.prev) /\ f.var = m[NextLoc(f.prev)]
  BY <1>0, <1>1 DEF PoolOK, CallOK, RemoveOK, Walking
<1>3. Chained(m, b, E, rk)
  BY <1>0, <1>1, TheMap, Names DEF TxOK, Live, Left
<1>4. Live' = Live /\ TxOK(pm)' /\ DiskOK(durable)'
  BY <1>0 DEF Live
<1>5. CASE Return(Null)
  <2>1. ControlOK' /\ pc' = "idle"
    BY <1>0, <1>5 DEF ControlOK, Return
  <2> QED
    BY <1>0, <1>1, <1>4, <2>1, AtRest
<1>6. CASE f.var # Null /\ pc' = "rm_log" /\ UNCHANGED <<f, ret>>
  <2>1. ControlOK'
    BY <1>0, <1>6 DEF ControlOK
  <2>2. RemoveOK'
    BY <1>0, <1>2, <1>4, <1>6 DEF RemoveOK, Here
  <2>3. ShapeOK(rk, N)' /\ CallOK' /\ InsertOK(rk)'
    BY <1>0, <1>1, <1>2, <1>4, <1>6 DEF ShapeOK, Loose, CallOK, InsertOK, OnArray, Walking
  <2> QED
    BY <1>4, <2>1, <2>2, <2>3 DEF MapInv, PoolOK
<1>7. CASE /\ f.var # Null
           /\ f' = [f EXCEPT !.prev = f.var, !.var = m[NextLoc(f.var)]]
           /\ UNCHANGED <<pc, ret>>
  <2> DEFINE v == m[NextLoc(f.var)]
  <2>1. /\ f'.key = f.key /\ f'.buckets = b /\ f'.h = f.h /\ f'.prev = f.var
        /\ f'.var = v /\ pc' = "rm_scan"
    BY <1>0, <1>7 DEF LogInv, IsFrame
  <2>2. ControlOK'
    BY <1>0, <1>7 DEF ControlOK
  <2>3. ShapeOK(rk, N)' /\ CallOK' /\ InsertOK(rk)'
    BY <1>0, <1>1, <1>2, <1>4, <2>1 DEF ShapeOK, Loose, CallOK, InsertOK, OnArray, Walking
  <2>4. f.var \in E /\ hash(m, b, m[KeyLoc(f.var)]) = f.h
    BY <1>2, <1>7 DEF Here
  <2>5. v # Null => v \in E /\ hash(m, b, m[KeyLoc(v)]) = f.h
    BY <1>3, <2>4, ChainedIs
  <2> HIDE DEF v
  <2>6. Here(f.prev)' /\ (f'.var # Null => Here(f.var)')
    BY <1>0, <1>4, <2>1, <2>4, <2>5 DEF Here
  <2>7. RemoveOK'
    BY <1>0, <1>7, <2>1, <2>6 DEF RemoveOK, v
  <2> QED
    BY <1>4, <2>2, <2>3, <2>7 DEF MapInv, PoolOK
<1> QED
  BY <1>5, <1>6, <1>7 DEF RemoveScan

(* The entry is bypassed; count-- *)
LEMMA MapRemoveUnlink ==
  ASSUME MapInv, RemoveUnlink
  PROVE  MapInv'
<1> DEFINE m == pm.mem
           b == f.buckets
           v == f.var
           E == Live \cap Entries
           c == (m[CountLoc] - 1) % Word
           p0 == TxAdd(TxAdd(pm, {LinkLoc}), {CountLoc})
           p1 == Store(p0, LinkLoc, m[NextLoc(v)])
           p2 == Store(p1, CountLoc, c)
           n == p2.mem
<1>0. /\ ControlOK /\ TxOK(pm) /\ DiskOK(durable) /\ pc = "rm_log" /\ pc' = "rm_free"
      /\ UNCHANGED <<durable, outer, f, ret>> /\ pm' = p2
  BY DEF MapInv, RemoveUnlink
<1>1. PICK rk \in Ranks, N \in SUBSET Entries :
        PoolOK(rk, N) /\ Whole(m, Live, rk) /\ m[MapLoc] = "map" /\ b = m[BucketsLoc]
  BY <1>0, CallOnMap DEF OnArray, Walking, Loose
<1>2. /\ f.key \in Keys /\ f.h = hash(m, b, f.key)
      /\ v # Null /\ v \in E
      /\ IF f.prev = Null THEN v = m[SlotLoc(b, f.h)]
         ELSE f.prev \in E /\ v = m[NextLoc(f.prev)]
  BY <1>0, <1>1 DEF PoolOK, CallOK, RemoveOK, Walking, Here
<1>3. Layout(m) /\ Live \subseteq Objects(m) /\ E \subseteq Entries
  BY <1>0 DEF TxOK, Live, Left
<1>4. /\ b \in Arrays /\ b \in Live /\ Live = {"root", "map", b} \cup E
      /\ MapLoc \in DOMAIN m /\ CountLoc \in DOMAIN m /\ BucketsLoc \in DOMAIN m
      /\ LenLoc(b) \in DOMAIN m
      /\ Chained(m, b, E, rk) /\ Counted(m, E) /\ f.h \in Slots(m, b)
  <2>1. Whole(m, Live, rk) /\ m[MapLoc] # Null
    BY <1>1, Names
  <2> HIDE DEF m, b, v
  <2>2. LET d == m[BucketsLoc]
            F == Live \cap Entries
        IN  /\ d \in Arrays /\ d \in Live /\ Live = {"root", "map", d} \cup F
            /\ MapLoc \in DOMAIN m /\ CountLoc \in DOMAIN m /\ BucketsLoc \in DOMAIN m
            /\ LenLoc(d) \in DOMAIN m
            /\ Chained(m, d, F, rk) /\ Counted(m, F)
    BY <1>3, <2>1, TheMap
  <2>3. f.h \in Slots(m, b)
    BY <1>1, <1>2, <1>3, <2>1, TheHash
  <2> QED
    BY <1>1, <2>2, <2>3
<1>5. \A i \in Slots(m, b) : SlotLoc(b, i) \in DOMAIN m
  BY <1>3, <1>4, TheSlot
<1>6. \A e \in E : KeyLoc(e) \in DOMAIN m /\ NextLoc(e) \in DOMAIN m
  BY <1>3, TheEntry
<1>7. LinkLoc \in DOMAIN m /\ Free(LinkLoc) /\ LinkLoc # CountLoc
  <2>1. CASE f.prev = Null
    BY <1>4, <1>5, <2>1 DEF LinkLoc, Free, SlotLoc, CountLoc
  <2>2. CASE f.prev # Null
    BY <1>2, <1>3, <1>6, <2>2 DEF LinkLoc, Free, NextLoc, CountLoc
  <2> QED
    BY <2>1, <2>2
<1>8. TxOK(p0) /\ Left(p0) = Live /\ p0.mem = m
  <2>1. TxOK(TxAdd(pm, {LinkLoc})) /\ Left(TxAdd(pm, {LinkLoc})) = Live
        /\ TxAdd(pm, {LinkLoc}).mem = m
    BY <1>0, AddTx DEF Live
  <2> QED
    BY <2>1, AddTx
<1> HIDE DEF p0
<1>9. /\ TxOK(p1) /\ Left(p1) = Live /\ DOMAIN p1.mem = DOMAIN m
      /\ p1.mem[LinkLoc] = m[NextLoc(v)]
      /\ \A x \in DOMAIN m : x # LinkLoc => p1.mem[x] = m[x]
  BY <1>7, <1>8, StoreTx
<1> HIDE DEF p1
<1>10. /\ TxOK(p2) /\ Left(p2) = Live /\ n[CountLoc] = c
       /\ \A x \in DOMAIN m : x # CountLoc => n[x] = p1.mem[x]
  BY <1>4, <1>9, StoreTx DEF Free
<1> HIDE DEF p2, c
<1>11. n[LinkLoc] = m[NextLoc(v)]
  BY <1>7, <1>9, <1>10
<1>12. \A x \in DOMAIN m : x # LinkLoc /\ x # CountLoc => n[x] = m[x]
  BY <1>9, <1>10
<1> HIDE DEF n, m, b, v, E
<1>13. /\ n[MapLoc] = "map" /\ n[BucketsLoc] = b /\ SameHash(m, n, b)
       /\ \A e \in E : n[KeyLoc(e)] = m[KeyLoc(e)]
  <2>1. \A l : l[2] \notin {"bucket", "next", "count"} => l # LinkLoc /\ l # CountLoc
    BY DEF LinkLoc, SlotLoc, NextLoc, CountLoc
  <2>2. FunA \in DOMAIN m /\ FunB \in DOMAIN m
    BY <1>3, <1>4, Fields
  <2>3. \A l \in DOMAIN m : l[2] \notin {"bucket", "next", "count"} => n[l] = m[l]
    BY <1>12, <2>1
  <2>4. \A e \in E : n[KeyLoc(e)] = m[KeyLoc(e)]
    BY <1>6, <2>3 DEF KeyLoc
  <2> QED
    BY <1>1, <1>4, <2>2, <2>3, <2>4 DEF SameHash, MapLoc, BucketsLoc, LenLoc, FunA, FunB
<1>14. \E r \in Ranks : Chained(n, b, E \ {v}, r)
  <2>1. CASE f.prev = Null
    <3>1. LinkLoc = SlotLoc(b, f.h) /\ m[SlotLoc(b, f.h)] = v
      BY <1>2, <2>1 DEF LinkLoc, b
    <3>2. \A i \in Slots(m, b) \ {f.h} : n[SlotLoc(b, i)] = m[SlotLoc(b, i)]
      BY <1>5, <1>12, <3>1 DEF SlotLoc, CountLoc
    <3>3. \A e \in E \ {v} : n[NextLoc(e)] = m[NextLoc(e)]
      BY <1>6, <1>12, <3>1 DEF SlotLoc, NextLoc, CountLoc
    <3>4. n[SlotLoc(b, f.h)] = m[NextLoc(v)]
      BY <1>11, <3>1
    <3>5. Chained(n, b, E \ {v}, rk)
      BY <1>2, <1>4, <1>13, <3>1, <3>2, <3>3, <3>4, ChainedPop
    <3> QED
      BY <3>5
  <2>2. CASE f.prev # Null
    <3>1. LinkLoc = NextLoc(f.prev) /\ f.prev \in E /\ m[NextLoc(f.prev)] = v
      BY <1>2, <2>2 DEF LinkLoc
    <3>2. \A i \in Slots(m, b) : n[SlotLoc(b, i)] = m[SlotLoc(b, i)]
      BY <1>5, <1>12, <3>1 DEF SlotLoc, NextLoc, CountLoc
    <3>3. \A e \in E \ {v, f.prev} : n[NextLoc(e)] = m[NextLoc(e)]
      BY <1>6, <1>12, <3>1 DEF NextLoc, CountLoc
    <3>4. n[NextLoc(f.prev)] = m[NextLoc(v)]
      BY <1>11, <3>1
    <3> QED
      BY <1>2, <1>4, <1>13, <3>1, <3>2, <3>3, <3>4, ChainedCut
  <2> QED
    BY <2>1, <2>2
<1>15. PICK rk2 \in Ranks : Chained(n, b, E \ {v}, rk2)
  BY <1>14
<1>16. Counted(n, E \ {v})
  <2>1. n[CountLoc] = Cardinality(E \ {v})
    BY <1>2, <1>3, <1>4, <1>10, CountDown DEF Counted, c, n
  <2> QED
    BY <1>4, <1>13, <2>1 DEF Counted
<1>17. Whole(n, Live \ {v}, rk2)
  <2>1. /\ (Live \ {v}) \cap Entries = E \ {v}
        /\ Live \ {v} = {"root", "map", b} \cup ((Live \ {v}) \cap Entries)
    BY <1>2, <1>3, <1>4, Names DEF E
  <2> QED
    BY <1>4, <1>13, <1>15, <1>16, <2>1, WholeFrom
<1>18. Live' = Live /\ pm'.mem = n /\ TxOK(pm)' /\ f' = f
  BY <1>0, <1>10 DEF Live, n
<1>19. ControlOK'
  BY <1>0 DEF ControlOK
<1>20. ShapeOK(rk2, N)'
  BY <1>0, <1>17, <1>18 DEF ShapeOK, Loose, v
<1>21. CallOK' /\ InsertOK(rk2)' /\ RemoveOK'
  BY <1>0, <1>2, <1>13, <1>18 DEF CallOK, InsertOK, RemoveOK, OnArray, Walking, v, E, b
<1> QED
  BY <1>0, <1>18, <1>19, <1>20, <1>21 DEF MapInv, PoolOK

(* TX_FREE and TX_END of a remove. *)
LEMMA MapRemoveFree ==
  ASSUME MapInv, RemoveFree
  PROVE  MapInv'
<1> DEFINE m == pm.mem
           v == f.var
           p == TxFree(pm, v)
<1>0. ControlOK /\ TxOK(pm) /\ DiskOK(durable) /\ pc = "rm_free" /\ TxEnd(p)
  BY DEF MapInv, RemoveFree
<1>1. PICK rk \in Ranks, N \in SUBSET Entries :
        /\ PoolOK(rk, N) /\ Whole(m, Live \ {v}, rk)
        /\ m[MapLoc] = "map" /\ f.buckets = m[BucketsLoc]
  BY <1>0, CallOnMap DEF OnArray, Loose
<1>2. v \in Live \cap Entries
  BY <1>0, <1>1 DEF PoolOK, RemoveOK
<1>3. Layout(m) /\ Live \subseteq Objects(m)
  BY <1>0 DEF TxOK, Live, Left
<1>4. m[ValueLoc(v)] \in Vals
  BY <1>2, <1>3, TheEntry
<1>5. m[LenLoc(f.buckets)] \in Nat
  <2>1. Live \ {v} \subseteq Objects(m)
    BY <1>3
  <2> QED
    BY <1>1, <1>3, <2>1, TheMap, Names
<1>6. Done \/ \E n \in Nat : Rebuild(n)
  <2>1. m[LenLoc(f.buckets)] \div 2 \in Nat
    BY <1>5
  <2> QED
    BY <2>1 DEF RemoveFree
<1>7. ControlOK'
  <2>1. outer' = outer
    BY <1>0 DEF TxEnd
  <2> QED
    BY <1>0, <1>4, <1>6, <2>1 DEF ControlOK, RemoveFree, Done, Rebuild, Removed
<1>8. TxOK(p) /\ Left(p) = Live \ {v} /\ Agree(m, p.mem, Live \ {v})
  <2>1. v \in Left(pm) \ {"root", "map"}
    BY <1>2, Names DEF Live
  <2> HIDE DEF v
  <2> QED
    BY <1>0, <2>1, FreeTx DEF Live
<1> HIDE DEF p
<1>9. Whole(p.mem, Left(p), rk) /\ p.mem[MapLoc] = "map" /\ p.mem[BucketsLoc] = m[BucketsLoc]
  <2>1. Live \ {v} \subseteq Objects(m)
    BY <1>3
  <2> QED
    BY <1>1, <1>3, <1>8, <2>1, WholeAgree, Names
<1> QED
  BY <1>0, <1>6, <1>7, <1>8, <1>9, MapCallEnd
-----------------------------------------------------------------------------
(* The fields that a rebuild in progress needs are there. *)
LEMMA SplitFields ==
  ASSUME TxOK(pm), NEW rk, NEW N, NEW hand, Split(N, hand, rk)
  PROVE  LET m == pm.mem
             b == f.buckets
             c == f.buckets_new
         IN  /\ Layout(m) /\ Live \subseteq Objects(m)
             /\ MapLoc \in DOMAIN m /\ CountLoc \in DOMAIN m /\ BucketsLoc \in DOMAIN m
             /\ FunA \in DOMAIN m /\ FunB \in DOMAIN m
             /\ LenLoc(b) \in DOMAIN m /\ LenLoc(c) \in DOMAIN m
             /\ m[FunA] \in Nat /\ m[FunB] \in Nat
             /\ m[LenLoc(b)] \in Nat \ {0} /\ m[LenLoc(c)] \in Nat \ {0}
<1> DEFINE m == pm.mem
           b == f.buckets
           c == f.buckets_new
<1>1. Layout(m) /\ Live \subseteq Objects(m)
  BY DEF TxOK, Live, Left
<1>2. b \in Arrays /\ c \in Arrays /\ b \in Live /\ c \in Live /\ "map" \in Live
  BY DEF Split
<1>3. "map" \in Objects(m) /\ b \in Arrays \cap Objects(m) /\ c \in Arrays \cap Objects(m)
  BY <1>1, <1>2
<1> HIDE DEF m, b, c
<1>4. /\ {MapLoc, CountLoc, BucketsLoc, FunA, FunB, LenLoc(b), LenLoc(c)} \subseteq DOMAIN m
      /\ m[FunA] \in Nat /\ m[FunB] \in Nat
      /\ m[LenLoc(b)] \in Nat \ {0} /\ m[LenLoc(c)] \in Nat \ {0}
  BY <1>1, <1>3, Fields
<1> QED
  BY <1>1, <1>4 DEF m, b, c

(* The new array of a rebuild is empty. *)
LEMMA MapRebuildLog ==
  ASSUME MapInv, LogInv, RebuildLog
  PROVE  MapInv'
<1> DEFINE m == pm.mem
           b == f.buckets
           E == Live \cap Entries
<1>0. /\ ControlOK /\ TxOK(pm) /\ DiskOK(durable) /\ pc = "rb_log" /\ pc' = "rb_loop"
      /\ UNCHANGED <<durable, outer, ret>>
  BY DEF MapInv, RebuildLog
<1>1. PICK rk \in Ranks, N \in SUBSET Entries :
        PoolOK(rk, N) /\ Whole(m, Live, rk) /\ m[MapLoc] = "map" /\ b = m[BucketsLoc]
  BY <1>0, CallOnMap DEF OnArray, Walking, Loose
<1>2. f.new_len \in Nat
  BY <1>0, <1>1 DEF PoolOK, CallOK
<1>3. Layout(m) /\ Live \subseteq Objects(m)
  BY <1>0 DEF TxOK, Live, Left
<1>4. /\ b \in Arrays /\ b \in Live /\ Live = {"root", "map", b} \cup E
      /\ m[LenLoc(b)] \in Nat \ {0}
      /\ Chained(m, b, E, rk) /\ Counted(m, E)
  <2>1. Whole(m, Live, rk) /\ m[MapLoc] # Null
    BY <1>1, Names
  <2> HIDE DEF m, b
  <2>2. LET d == m[BucketsLoc]
            F == Live \cap Entries
        IN  /\ d \in Arrays /\ d \in Live /\ Live = {"root", "map", d} \cup F
            /\ m[LenLoc(d)] \in Nat \ {0}
            /\ Chained(m, d, F, rk) /\ Counted(m, F)
    BY <1>3, <2>1, TheMap
  <2> QED
    BY <1>1, <2>2
<1>5. NewLen \in Nat \ {0}
  BY <1>2, <1>4 DEF NewLen
<1>6. PICK c \in Arrays \ Objects(m) :
        /\ pm' = TxAdd(TxAlloc(TxAdd(pm, {BucketsLoc}), c, ZeroArray(c, NewLen)),
                       LocsOf(pm.mem, {f.buckets}))
        /\ f' = [f EXCEPT !.buckets_new = c]
  BY DEF RebuildLog
<1> DEFINE p1 == TxAdd(pm, {BucketsLoc})
           p2 == TxAlloc(p1, c, ZeroArray(c, NewLen))
           p3 == TxAdd(p2, LocsOf(pm.mem, {f.buckets}))
           n == p3.mem
<1>7. TxOK(p1) /\ Left(p1) = Live /\ p1.mem = m
  BY <1>0, AddTx DEF Live
<1>8. pm' = p3
  BY <1>6
<1> HIDE DEF p1
<1>9. /\ TxOK(p2) /\ Left(p2) = Live \cup {c} /\ c \notin Live
      /\ Agree(m, p2.mem, Live)
      /\ \A i \in Slots(p2.mem, c) : p2.mem[SlotLoc(c, i)] = Null
  <2>1. c \in Arrays /\ c \notin Objects(p1.mem)
    BY <1>7
  <2> HIDE DEF m
  <2> QED
    BY <1>5, <1>7, <2>1, AllocArrayTx
<1> HIDE DEF p2
<1>10. TxOK(p3) /\ Left(p3) = Live \cup {c} /\ n = p2.mem
  BY <1>9, AddTx
<1> HIDE DEF p3, n, m, b, E
<1>11. Agree(m, n, Live) /\ \A i \in Slots(n, c) : n[SlotLoc(c, i)] = Null
  BY <1>9, <1>10
<1>12. Chained(n, c, {}, rk)
  BY <1>11, ChainedEmpty
<1>13. Whole(n, Live, rk) /\ n[MapLoc] = "map" /\ n[BucketsLoc] = b
  BY <1>1, <1>3, <1>11, WholeAgree, Names
<1>14. Chained(n, b, E, rk) /\ Counted(n, E)
  BY <1>13, Names DEF Whole, E
<1>15. f'.buckets = b /\ f'.buckets_new = c
  BY <1>6 DEF LogInv, IsFrame, b
<1>16. /\ pm'.mem = n /\ TxOK(pm)' /\ Live' = Live \cup {c}
       /\ Live' \cap Entries = E /\ E \ ({} \cup {}) = E
  BY <1>8, <1>10, Names DEF Live, n, E
<1>17. Split({}, {}, rk)'
  <2>1. {b, c} \subseteq Arrays /\ b # c /\ Live' = {"root", "map", b, c} \cup E
    BY <1>4, <1>9, <1>16
  <2> QED
    BY <1>12, <1>13, <1>14, <1>15, <1>16, <2>1 DEF Split
<1>18. ControlOK'
  BY <1>0 DEF ControlOK
<1>19. ShapeOK(rk, {})' /\ CallOK' /\ InsertOK(rk)' /\ RemoveOK'
  BY <1>0, <1>17 DEF ShapeOK, Loose, CallOK, InsertOK, RemoveOK, OnArray, Walking
<1> QED
  BY <1>0, <1>16, <1>18, <1>19 DEF MapInv, PoolOK

(* An entry is taken from the old array, *)
LEMMA MapRebuildTake ==
  ASSUME MapInv, LogInv, RebuildTake
  PROVE  MapInv'
<1> DEFINE m == pm.mem
           b == f.buckets
           c == f.buckets_new
           E == Live \cap Entries
           i == CHOOSE j \in Pending : \A k \in Pending : j <= k
           v == m[SlotLoc(b, i)]
           p == Store(pm, SlotLoc(b, i), m[NextLoc(v)])
           n == p.mem
<1>0. /\ ControlOK /\ TxOK(pm) /\ DiskOK(durable) /\ pc = "rb_loop" /\ pc' = "rb_push"
      /\ UNCHANGED <<durable, outer, ret>> /\ Pending # {} /\ pm' = p
      /\ f' = [f EXCEPT !.var = v, !.h = hash(m, c, m[KeyLoc(v)])]
  BY DEF MapInv, RebuildTake, TakeHead
<1>1. PICK rk \in Ranks, N \in SUBSET Entries : Split(N, {}, rk)
  BY <1>0 DEF MapInv, PoolOK, ShapeOK
<1>2. /\ Layout(m) /\ Live \subseteq Objects(m) /\ E \subseteq Entries
      /\ b \in Arrays /\ c \in Arrays /\ b # c /\ b \in Live /\ c \in Live
      /\ Live = {"root", "map", b, c} \cup E /\ N \subseteq E
      /\ m[MapLoc] = "map" /\ m[BucketsLoc] = b
      /\ {MapLoc, CountLoc, BucketsLoc, FunA, FunB, LenLoc(b), LenLoc(c)} \subseteq DOMAIN m
      /\ m[LenLoc(b)] \in Nat \ {0}
      /\ Chained(m, b, E \ (N \cup {}), rk) /\ Chained(m, c, N, rk) /\ Counted(m, E)
  <2>1. /\ b \in Arrays /\ c \in Arrays /\ b # c /\ b \in Live /\ c \in Live
        /\ Live = {"root", "map", b, c} \cup E
    BY <1>1 DEF Split
  <2>2. /\ E \subseteq Entries /\ m[MapLoc] = "map" /\ m[BucketsLoc] = b
    BY <1>1 DEF Split
  <2>3. /\ N \subseteq E
        /\ Chained(m, b, E \ (N \cup {}), rk) /\ Chained(m, c, N, rk) /\ Counted(m, E)
    BY <1>1 DEF Split
  <2>4. /\ Layout(m) /\ Live \subseteq Objects(m)
        /\ MapLoc \in DOMAIN m /\ CountLoc \in DOMAIN m /\ BucketsLoc \in DOMAIN m
        /\ FunA \in DOMAIN m /\ FunB \in DOMAIN m
        /\ LenLoc(b) \in DOMAIN m /\ LenLoc(c) \in DOMAIN m
        /\ m[FunA] \in Nat /\ m[FunB] \in Nat
        /\ m[LenLoc(b)] \in Nat \ {0} /\ m[LenLoc(c)] \in Nat \ {0}
    BY <1>0, <1>1, SplitFields
  <2> HIDE DEF m, b, c, E
  <2> QED
    BY <2>1, <2>2, <2>3, <2>4
<1>3. i \in Slots(m, b) /\ v # Null
  <2>1. Pending \in SUBSET Nat
    BY <1>2 DEF Pending, Slots
  <2>2. \E j \in Pending : \A k \in Pending : j <= k
    BY <1>0, <2>1, LeastOf
  <2>3. i \in Pending
    BY <2>2
  <2> QED
    BY <2>3 DEF Pending
<1> HIDE DEF m, b, c, E, i, v
<1>4. v \in E \ N /\ E \ (N \cup {}) = E \ N
  <2>1. v \in E \ (N \cup {})
    BY <1>2, <1>3, ChainedIs DEF v
  <2> QED
    BY <2>1
<1>5. /\ \A j \in Slots(m, b) : SlotLoc(b, j) \in DOMAIN m
      /\ \A j \in Slots(m, c) : SlotLoc(c, j) \in DOMAIN m
  BY <1>2, TheSlot
<1>6. \A e \in E : KeyLoc(e) \in DOMAIN m /\ NextLoc(e) \in DOMAIN m
  BY <1>2, TheEntry DEF E
<1>7. /\ TxOK(p) /\ Left(p) = Live /\ n[SlotLoc(b, i)] = m[NextLoc(v)]
      /\ \A x \in DOMAIN m : x # SlotLoc(b, i) => n[x] = m[x]
  BY <1>0, <1>2, <1>3, <1>5, StoreTx DEF Free, Live, m
<1> HIDE DEF p, n
<1>8. /\ n[MapLoc] = "map" /\ n[BucketsLoc] = b /\ n[CountLoc] = m[CountLoc]
      /\ SameHash(m, n, b) /\ SameHash(m, n, c)
  <2>1. \A x \in {MapLoc, CountLoc, BucketsLoc, FunA, FunB, LenLoc(b), LenLoc(c)} : n[x] = m[x]
    BY <1>2, <1>7 DEF MapLoc, CountLoc, BucketsLoc, FunA, FunB, LenLoc, SlotLoc
  <2> QED
    BY <1>2, <2>1 DEF SameHash
<1>9. \A e \in E : n[KeyLoc(e)] = m[KeyLoc(e)] /\ n[NextLoc(e)] = m[NextLoc(e)]
  BY <1>6, <1>7 DEF KeyLoc, NextLoc, SlotLoc
<1>10. /\ \A j \in Slots(m, b) \ {i} : n[SlotLoc(b, j)] = m[SlotLoc(b, j)]
       /\ \A j \in Slots(m, c) : n[SlotLoc(c, j)] = m[SlotLoc(c, j)]
  BY <1>2, <1>5, <1>7 DEF SlotLoc
<1>11. Chained(n, b, E \ (N \cup {v}), rk)
  <2>1. \A e \in (E \ N) \ {v} : n[KeyLoc(e)] = m[KeyLoc(e)] /\ n[NextLoc(e)] = m[NextLoc(e)]
    BY <1>9
  <2>2. Chained(n, b, (E \ N) \ {v}, rk)
    BY <1>2, <1>3, <1>4, <1>7, <1>8, <1>10, <2>1, ChainedPop DEF v
  <2>3. E \ (N \cup {v}) = (E \ N) \ {v}
    OBVIOUS
  <2> QED
    BY <2>2, <2>3
<1>12. Chained(n, c, N, rk)
  BY <1>2, <1>8, <1>9, <1>10, ChainedSame DEF SameHash
<1>13. Counted(n, E)
  BY <1>2, <1>8, <1>9 DEF Counted
<1>14. /\ f'.buckets = b /\ f'.buckets_new = c /\ f'.var = v
       /\ f'.h = hash(m, c, m[KeyLoc(v)])
  BY <1>0 DEF LogInv, IsFrame, b, c
<1>15. pm'.mem = n /\ TxOK(pm)' /\ Live' = Live
  BY <1>0, <1>7 DEF Live, n
<1>16. Split(N, {f.var}, rk)'
  BY <1>2, <1>4, <1>8, <1>11, <1>12, <1>13, <1>14, <1>15 DEF Split, E
<1>17. f'.h = hash(n, c, n[KeyLoc(v)])
  BY <1>4, <1>8, <1>9, <1>14 DEF hash, SameHash
<1>18. ControlOK'
  BY <1>0 DEF ControlOK
<1>19. ShapeOK(rk, N)'
  BY <1>0, <1>14, <1>15, <1>16, <1>17 DEF ShapeOK
<1>20. CallOK' /\ InsertOK(rk)' /\ RemoveOK'
  BY <1>0 DEF CallOK, InsertOK, RemoveOK, OnArray, Walking
<1> QED
  BY <1>0, <1>15, <1>18, <1>19, <1>20 DEF MapInv, PoolOK
-----------------------------------------------------------------------------
(* and pushed on its slot of the new one. *)
LEMMA MapRebuildPush ==
  ASSUME MapInv, LogInv, RebuildPush
  PROVE  MapInv'
<1> DEFINE m == pm.mem
           b == f.buckets
           c == f.buckets_new
           E == Live \cap Entries
           v == f.var
           h == f.h
           p0 == TxAdd(pm, {NextLoc(v)})
           p1 == Store(p0, NextLoc(v), m[SlotLoc(c, h)])
           p2 == Store(p1, SlotLoc(c, h), v)
           n == p2.mem
<1>0. /\ ControlOK /\ TxOK(pm) /\ DiskOK(durable) /\ pc = "rb_push" /\ pc' = "rb_loop"
      /\ UNCHANGED <<durable, outer, ret>> /\ pm' = p2
      /\ f' = [f EXCEPT !.var = Null, !.h = 0]
  BY DEF MapInv, RebuildPush
<1>1. PICK rk \in Ranks, N \in SUBSET Entries :
        Split(N, {v}, rk) /\ h = hash(m, c, m[KeyLoc(v)])
  BY <1>0 DEF MapInv, PoolOK, ShapeOK
<1>2. /\ Layout(m) /\ Live \subseteq Objects(m) /\ E \subseteq Entries
      /\ b \in Arrays /\ c \in Arrays /\ b # c /\ b \in Live /\ c \in Live
      /\ Live = {"root", "map", b, c} \cup E /\ N \subseteq E /\ {v} \subseteq E \ N
      /\ m[MapLoc] = "map" /\ m[BucketsLoc] = b
      /\ {MapLoc, CountLoc, BucketsLoc, FunA, FunB, LenLoc(b), LenLoc(c)} \subseteq DOMAIN m
      /\ m[FunA] \in Nat /\ m[FunB] \in Nat /\ m[LenLoc(c)] \in Nat \ {0}
      /\ Chained(m, b, E \ (N \cup {v}), rk) /\ Chained(m, c, N, rk) /\ Counted(m, E)
  <2>1. /\ b \in Arrays /\ c \in Arrays /\ b # c /\ b \in Live /\ c \in Live
        /\ Live = {"root", "map", b, c} \cup E
    BY <1>1 DEF Split
  <2>2. /\ E \subseteq Entries /\ m[MapLoc] = "map" /\ m[BucketsLoc] = b
    BY <1>1 DEF Split
  <2>3. /\ N \subseteq E /\ {v} \subseteq E \ N
        /\ Chained(m, b, E \ (N \cup {v}), rk) /\ Chained(m, c, N, rk) /\ Counted(m, E)
    BY <1>1 DEF Split
  <2>4. /\ Layout(m) /\ Live \subseteq Objects(m)
        /\ MapLoc \in DOMAIN m /\ CountLoc \in DOMAIN m /\ BucketsLoc \in DOMAIN m
        /\ FunA \in DOMAIN m /\ FunB \in DOMAIN m
        /\ LenLoc(b) \in DOMAIN m /\ LenLoc(c) \in DOMAIN m
        /\ m[FunA] \in Nat /\ m[FunB] \in Nat
        /\ m[LenLoc(b)] \in Nat \ {0} /\ m[LenLoc(c)] \in Nat \ {0}
    BY <1>0, <1>1, SplitFields
  <2> HIDE DEF m, b, c, E
  <2> QED
    BY <2>1, <2>2, <2>3, <2>4
<1> HIDE DEF m, b, c, E, v, h
<1>3. v \in E \ N
  BY <1>2
<1>4. /\ \A j \in Slots(m, b) : SlotLoc(b, j) \in DOMAIN m
      /\ \A j \in Slots(m, c) : SlotLoc(c, j) \in DOMAIN m
  BY <1>2, TheSlot
<1>5. \A e \in E : /\ KeyLoc(e) \in DOMAIN m /\ NextLoc(e) \in DOMAIN m
                   /\ m[KeyLoc(e)] \in Keys
  BY <1>2, TheEntry DEF E
<1>6. h \in Slots(m, c)
  BY <1>1, <1>2, <1>3, <1>5, HashInSlots
<1>7. TxOK(p0) /\ Left(p0) = Live /\ p0.mem = m
  BY <1>0, AddTx DEF Live, m
<1> HIDE DEF p0
<1>8. /\ TxOK(p1) /\ Left(p1) = Live /\ DOMAIN p1.mem = DOMAIN m
      /\ p1.mem[NextLoc(v)] = m[SlotLoc(c, h)]
      /\ \A x \in DOMAIN m : x # NextLoc(v) => p1.mem[x] = m[x]
  <2>1. NextLoc(v) \in DOMAIN m /\ Free(NextLoc(v))
    BY <1>2, <1>3, <1>5 DEF Free
  <2> QED
    BY <1>7, <2>1, StoreTx
<1> HIDE DEF p1
<1>9. /\ TxOK(p2) /\ Left(p2) = Live /\ n[SlotLoc(c, h)] = v
      /\ \A x \in DOMAIN m : x # SlotLoc(c, h) => n[x] = p1.mem[x]
  BY <1>2, <1>4, <1>6, <1>8, StoreTx DEF Free
<1> HIDE DEF p2, n
<1>10. n[NextLoc(v)] = m[SlotLoc(c, h)]
  BY <1>3, <1>5, <1>8, <1>9 DEF NextLoc, SlotLoc
<1>11. \A x \in DOMAIN m : x # SlotLoc(c, h) /\ x # NextLoc(v) => n[x] = m[x]
  BY <1>8, <1>9
<1>12. /\ n[MapLoc] = "map" /\ n[BucketsLoc] = b /\ n[CountLoc] = m[CountLoc]
       /\ SameHash(m, n, b) /\ SameHash(m, n, c)
       /\ \A e \in E : n[KeyLoc(e)] = m[KeyLoc(e)]
  <2>1. \A l : l[2] \notin {"bucket", "next"} => l # SlotLoc(c, h) /\ l # NextLoc(v)
    BY DEF SlotLoc, NextLoc
  <2>2. \A l \in DOMAIN m : l[2] \notin {"bucket", "next"} => n[l] = m[l]
    BY <1>11, <2>1
  <2>3. \A x \in {MapLoc, CountLoc, BucketsLoc, FunA, FunB, LenLoc(b), LenLoc(c)} : n[x] = m[x]
    BY <1>2, <2>2 DEF MapLoc, CountLoc, BucketsLoc, FunA, FunB, LenLoc
  <2>4. \A e \in E : n[KeyLoc(e)] = m[KeyLoc(e)]
    BY <1>5, <2>2 DEF KeyLoc
  <2> QED
    BY <1>2, <2>3, <2>4 DEF SameHash
<1>13. \A e \in E : e # v => n[NextLoc(e)] = m[NextLoc(e)]
  BY <1>5, <1>11 DEF NextLoc, SlotLoc
<1>14. /\ \A j \in Slots(m, c) \ {h} : n[SlotLoc(c, j)] = m[SlotLoc(c, j)]
       /\ \A j \in Slots(m, b) : n[SlotLoc(b, j)] = m[SlotLoc(b, j)]
  BY <1>2, <1>4, <1>11 DEF NextLoc, SlotLoc
<1>15. PICK rk2 \in Ranks : /\ Chained(n, c, N \cup {v}, rk2)
                            /\ \A x \in Entries \ {v} : rk2[x] = rk[x]
  <2>1. v \in Entries \ N /\ hash(m, c, n[KeyLoc(v)]) = h
    BY <1>1, <1>2, <1>3, <1>12 DEF c, h, m
  <2>2. \A x \in N : n[KeyLoc(x)] = m[KeyLoc(x)] /\ n[NextLoc(x)] = m[NextLoc(x)]
    BY <1>2, <1>3, <1>12, <1>13
  <2> QED
    BY <1>2, <1>6, <1>9, <1>10, <1>12, <1>14, <2>1, <2>2, ChainedPush
<1>16. Chained(n, b, E \ ((N \cup {v}) \cup {}), rk2)
  <2> DEFINE F == E \ (N \cup {v})
  <2>1. \A x \in F : /\ n[KeyLoc(x)] = m[KeyLoc(x)] /\ n[NextLoc(x)] = m[NextLoc(x)]
                     /\ rk2[x] = rk[x]
    BY <1>2, <1>12, <1>13, <1>15
  <2>2. Chained(m, b, F, rk)
    BY <1>2
  <2>3. E \ ((N \cup {v}) \cup {}) = F
    OBVIOUS
  <2> HIDE DEF F
  <2>4. Chained(n, b, F, rk)
    BY <1>12, <1>14, <2>1, <2>2, ChainedSame DEF SameHash
  <2> QED
    BY <2>1, <2>3, <2>4, ChainedRanks
<1>17. Counted(n, E)
  BY <1>2, <1>12 DEF Counted
<1>18. /\ f'.buckets = b /\ f'.buckets_new = c
  BY <1>0 DEF LogInv, IsFrame, b, c
<1>19. pm'.mem = n /\ TxOK(pm)' /\ Live' = Live
  BY <1>0, <1>9 DEF Live, n
<1>20. PICK M \in SUBSET Entries : M = N \cup {v}
  BY <1>2
<1>21. Split(M, {}, rk2)'
  BY <1>2, <1>12, <1>15, <1>16, <1>17, <1>18, <1>19, <1>20 DEF Split, E
<1>22. ControlOK'
  BY <1>0 DEF ControlOK
<1>23. ShapeOK(rk2, M)' /\ CallOK' /\ InsertOK(rk2)' /\ RemoveOK'
  BY <1>0, <1>21 DEF ShapeOK, CallOK, InsertOK, RemoveOK, OnArray, Walking
<1> QED
  BY <1>0, <1>19, <1>22, <1>23 DEF MapInv, PoolOK

(* When the old array is empty, the new one holds every entry. *)
LEMMA MapRebuildSwitch ==
  ASSUME MapInv, RebuildSwitch
  PROVE  MapInv'
<1> DEFINE m == pm.mem
           b == f.buckets
           c == f.buckets_new
           E == Live \cap Entries
           p == Store(pm, BucketsLoc, c)
           n == p.mem
<1>0. /\ ControlOK /\ TxOK(pm) /\ DiskOK(durable) /\ pc = "rb_loop" /\ pc' = "rb_finish"
      /\ UNCHANGED <<durable, outer, f, ret>> /\ Pending = {} /\ pm' = p
  BY DEF MapInv, RebuildSwitch
<1>1. PICK rk \in Ranks, N \in SUBSET Entries : Split(N, {}, rk)
  BY <1>0 DEF MapInv, PoolOK, ShapeOK
<1>2. /\ Layout(m) /\ Live \subseteq Objects(m) /\ E \subseteq Entries
      /\ b \in Arrays /\ c \in Arrays /\ b # c /\ b \in Live /\ c \in Live
      /\ Live = {"root", "map", b, c} \cup E /\ N \subseteq E
      /\ m[MapLoc] = "map" /\ m[BucketsLoc] = b
      /\ {MapLoc, CountLoc, BucketsLoc, FunA, FunB, LenLoc(b), LenLoc(c)} \subseteq DOMAIN m
      /\ Chained(m, b, E \ (N \cup {}), rk) /\ Chained(m, c, N, rk) /\ Counted(m, E)
  <2>1. /\ b \in Arrays /\ c \in Arrays /\ b # c /\ b \in Live /\ c \in Live
        /\ Live = {"root", "map", b, c} \cup E
    BY <1>1 DEF Split
  <2>2. /\ E \subseteq Entries /\ m[MapLoc] = "map" /\ m[BucketsLoc] = b
    BY <1>1 DEF Split
  <2>3. /\ N \subseteq E
        /\ Chained(m, b, E \ (N \cup {}), rk) /\ Chained(m, c, N, rk) /\ Counted(m, E)
    BY <1>1 DEF Split
  <2>4. /\ Layout(m) /\ Live \subseteq Objects(m)
        /\ MapLoc \in DOMAIN m /\ CountLoc \in DOMAIN m /\ BucketsLoc \in DOMAIN m
        /\ FunA \in DOMAIN m /\ FunB \in DOMAIN m
        /\ LenLoc(b) \in DOMAIN m /\ LenLoc(c) \in DOMAIN m
        /\ m[FunA] \in Nat /\ m[FunB] \in Nat
        /\ m[LenLoc(b)] \in Nat \ {0} /\ m[LenLoc(c)] \in Nat \ {0}
    BY <1>0, <1>1, SplitFields
  <2> HIDE DEF m, b, c, E
  <2> QED
    BY <2>1, <2>2, <2>3, <2>4
<1>3. \A i \in Slots(m, b) : m[SlotLoc(b, i)] = Null
  BY <1>0 DEF Pending
<1> HIDE DEF m, b, c, E
<1>4. N = E
  <2>1. E \ (N \cup {}) = {}
    BY <1>2, <1>3, ChainedEmpty
  <2> QED
    BY <1>2, <2>1
<1>5. /\ \A j \in Slots(m, c) : SlotLoc(c, j) \in DOMAIN m
      /\ \A e \in E : KeyLoc(e) \in DOMAIN m /\ NextLoc(e) \in DOMAIN m
  BY <1>2, TheSlot, TheEntry DEF E
<1>6. /\ TxOK(p) /\ Left(p) = Live /\ n[BucketsLoc] = c
      /\ \A x \in DOMAIN m : x # BucketsLoc => n[x] = m[x]
  BY <1>0, <1>2, StoreTx DEF Free, Live, m
<1> HIDE DEF p, n
<1>7. n[MapLoc] = "map" /\ n[CountLoc] = m[CountLoc] /\ SameHash(m, n, c)
  BY <1>2, <1>6 DEF SameHash, MapLoc, CountLoc, BucketsLoc, FunA, FunB, LenLoc
<1>8. /\ \A e \in E : n[KeyLoc(e)] = m[KeyLoc(e)] /\ n[NextLoc(e)] = m[NextLoc(e)]
      /\ \A j \in Slots(m, c) : n[SlotLoc(c, j)] = m[SlotLoc(c, j)]
  BY <1>5, <1>6 DEF KeyLoc, NextLoc, SlotLoc, BucketsLoc
<1>9. Chained(n, c, E, rk)
  BY <1>2, <1>4, <1>7, <1>8, ChainedSame DEF SameHash
<1>10. Counted(n, E)
  BY <1>2, <1>7, <1>8 DEF Counted
<1>11. Whole(n, Live \ {b}, rk)
  <2>1. /\ (Live \ {b}) \cap Entries = E
        /\ Live \ {b} = {"root", "map", c} \cup ((Live \ {b}) \cap Entries)
    BY <1>2, Names DEF E
  <2> QED
    BY <1>2, <1>6, <1>7, <1>9, <1>10, <2>1, WholeFrom
<1>12. pm'.mem = n /\ TxOK(pm)' /\ Live' = Live /\ f'.buckets = b
  BY <1>0, <1>6 DEF Live, n, b
<1>13. ControlOK'
  BY <1>0 DEF ControlOK
<1>14. ShapeOK(rk, N)'
  BY <1>0, <1>2, <1>6, <1>7, <1>11, <1>12 DEF ShapeOK, Loose
<1>15. CallOK' /\ InsertOK(rk)' /\ RemoveOK'
  BY <1>0 DEF CallOK, InsertOK, RemoveOK, OnArray, Walking
<1> QED
  BY <1>0, <1>12, <1>13, <1>14, <1>15 DEF MapInv, PoolOK

(* TX_FREE of the old array, and TX_END. *)
LEMMA MapRebuildFree ==
  ASSUME MapInv, RebuildFree
  PROVE  MapInv'
<1> DEFINE m == pm.mem
           b == f.buckets
           p == TxFree(pm, b)
<1>0. /\ ControlOK /\ TxOK(pm) /\ DiskOK(durable) /\ pc = "rb_finish" /\ TxEnd(p) /\ Done
      /\ ret' = ret
  BY DEF MapInv, RebuildFree
<1>1. PICK rk \in Ranks :
        /\ Whole(m, Live \ {b}, rk) /\ m[MapLoc] = "map" /\ b \in Live \cap Arrays
  BY <1>0 DEF MapInv, PoolOK, ShapeOK, Loose
<1>2. Layout(m) /\ Live \ {b} \subseteq Objects(m)
  BY <1>0 DEF TxOK, Live, Left
<1>3. ControlOK'
  BY <1>0 DEF ControlOK, Done, TxEnd
<1>4. TxOK(p) /\ Left(p) = Live \ {b} /\ Agree(m, p.mem, Live \ {b})
  <2>1. b \in Left(pm) \ {"root", "map"}
    BY <1>1, Names DEF Live
  <2> HIDE DEF b
  <2> QED
    BY <1>0, <2>1, FreeTx DEF Live
<1> HIDE DEF p
<1>5. Whole(p.mem, Left(p), rk) /\ p.mem[MapLoc] = "map"
  BY <1>1, <1>2, <1>4, WholeAgree, Names
<1> QED
  BY <1>0, <1>3, <1>4, <1>5, MapCallEnd
-----------------------------------------------------------------------------
(* No step of any call, commit, abort or crash breaks it. *)
LEMMA MapNext == MapInv /\ LogInv /\ [Next]_vars => MapInv'
<1> SUFFICES ASSUME MapInv, LogInv, [Next]_vars
             PROVE  MapInv'
  OBVIOUS
<1>1. CASE TxBegin \/ TxCommit \/ TxAbort \/ Crash \/ hm_tx_create
  BY <1>1, MapIdle
<1>2. CASE \/ \E k \in Keys, v \in Vals : hm_tx_insert(k, v)
           \/ \E k \in Keys : hm_tx_remove(k)
           \/ \E n \in RebuildLens : hm_tx_cmd(n)
  BY <1>2, MapCalls
<1>3. CASE CreateMap \/ create_hashmap
  BY <1>3, MapCreate, MapFirstArray
<1>4. CASE InsertScan \/ InsertLog \/ InsertNew \/ InsertLink \/ InsertEnd
  BY <1>4, MapInsertScan, MapInsertLog, MapInsertNew, MapInsertLink, MapInsertEnd
<1>5. CASE RemoveScan \/ RemoveUnlink \/ RemoveFree
  BY <1>5, MapRemoveScan, MapRemoveUnlink, MapRemoveFree
<1>6. CASE RebuildLog \/ RebuildTake \/ RebuildPush \/ RebuildSwitch \/ RebuildFree
  BY <1>6, MapRebuildLog, MapRebuildTake, MapRebuildPush, MapRebuildSwitch, MapRebuildFree
<1>7. CASE UNCHANGED vars
  <2>1. Live' = Live /\ Loose' = Loose /\ UNCHANGED <<pm, durable, outer, pc, f, ret>>
    BY <1>7 DEF vars, Live, Loose
  <2>2. PICK rk \in Ranks, N \in SUBSET Entries : PoolOK(rk, N)
    BY DEF MapInv
  <2>3. ShapeOK(rk, N)'
    BY <2>1, <2>2 DEF PoolOK, ShapeOK, Split
  <2>4. CallOK' /\ InsertOK(rk)' /\ RemoveOK'
    BY <2>1, <2>2 DEF PoolOK, CallOK, InsertOK, RemoveOK, Here, Unused
  <2> QED
    BY <2>1, <2>3, <2>4 DEF MapInv, PoolOK, ControlOK
<1> QED
  BY <1>1, <1>2, <1>3, <1>4, <1>5, <1>6, <1>7 DEF Next, Step

(* The chains of the map, at every step of every call: they end, they are disjoint, and
   hold the entries in the slots of their keys; keys are unique and `count' counts. *)
THEOREM HashmapMapInvariant == Spec => []MapInv
<1>1. Init => MapInv
  BY MapInit
<1>2. MapInv /\ LogInv /\ [Next]_vars => MapInv'
  BY MapNext
<1>3. Spec => []LogInv
  BY HashmapLogInvariant
<1> QED
  BY <1>1, <1>2, <1>3, PTL DEF Spec

(* The values of the control state, and the objects that are allocated, freed or new. *)
THEOREM HashmapTypeCorrect == Spec => []TypeOK
<1>1. MapInv => TypeOK
  BY DEF MapInv, ControlOK, TxOK, Layout, TypeOK
<1> QED
  BY <1>1, HashmapMapInvariant, PTL

(* `nbuckets' is never 0, and every index a call computed is that of a slot. *)
THEOREM HashmapIndexInBounds == Spec => []IndexInBounds
<1>1. MapInv => IndexInBounds
  <2> SUFFICES ASSUME MapInv PROVE IndexInBounds
    OBVIOUS
  <2> DEFINE m == pm.mem
  <2>0. TxOK(pm) /\ Layout(m) /\ Live \subseteq Objects(m)
    BY DEF MapInv, TxOK, Live, Left
  <2>1. PICK rk \in Ranks, N \in SUBSET Entries : PoolOK(rk, N)
    BY DEF MapInv
  <2> DEFINE O == Live \ Loose
  <2>2. ASSUME MapExists(m), pc # "new_buckets" PROVE m[LenLoc(m[BucketsLoc])] > 0
    <3>1. CASE pc \in {"rb_loop", "rb_push"}
      <4>1. \E hand : Split(N, hand, rk)
        BY <2>1, <3>1 DEF PoolOK, ShapeOK
      <4> QED
        <5>1. PICK hand : Split(N, hand, rk)
          BY <4>1
        <5>2. m[LenLoc(f.buckets)] \in Nat \ {0}
          BY <2>0, <5>1, SplitFields
        <5>3. m[BucketsLoc] = f.buckets
          BY <5>1 DEF Split
        <5> QED
          BY <5>2, <5>3
    <3>2. CASE pc \notin {"rb_loop", "rb_push"}
      <4>1. Whole(m, O, rk) /\ O \subseteq Objects(m) /\ m[MapLoc] # Null
        BY <2>0, <2>1, <2>2, <3>2 DEF PoolOK, ShapeOK, MapExists
      <4> HIDE DEF m, O
      <4>2. m[LenLoc(m[BucketsLoc])] \in Nat \ {0}
        BY <2>0, <4>1, TheMap
      <4> QED
        BY <4>2
    <3> QED
      BY <3>1, <3>2
  <2>3. ASSUME pc \in Walking
        PROVE  f.h \in Slots(m, f.buckets) /\ f.buckets = m[BucketsLoc]
    <3>1. /\ m[MapLoc] # Null /\ f.buckets = m[BucketsLoc]
          /\ f.key \in Keys /\ f.h = hash(m, f.buckets, f.key)
      BY <2>1, <2>3, Names DEF PoolOK, CallOK, OnArray
    <3>2. Whole(m, O, rk) /\ O \subseteq Objects(m)
      BY <2>0, <2>1, <2>3 DEF PoolOK, ShapeOK, Walking
    <3> HIDE DEF m, O
    <3> QED
      BY <2>0, <3>1, <3>2, TheHash
  <2>4. ASSUME pc = "rb_push" PROVE f.h \in Slots(m, f.buckets_new)
    <3>1. /\ Split(N, {f.var}, rk)
          /\ f.h = hash(m, f.buckets_new, m[KeyLoc(f.var)])
      BY <2>1, <2>4 DEF PoolOK, ShapeOK
    <3>2. /\ m[FunA] \in Nat /\ m[FunB] \in Nat /\ m[LenLoc(f.buckets_new)] \in Nat \ {0}
      BY <2>0, <3>1, SplitFields
    <3>4. f.var \in Live \cap Entries
      BY <3>1 DEF Split
    <3>3. m[KeyLoc(f.var)] \in Keys
      BY <2>0, <3>4, TheEntry
    <3> QED
      BY <3>1, <3>2, <3>3, HashInSlots
  <2> QED
    BY <2>2, <2>3, <2>4 DEF IndexInBounds, Walking
<1> QED
  BY <1>1, HashmapMapInvariant, PTL
-----------------------------------------------------------------------------
(* A chain, followed from its first entry.  Nth is a function defined by recursion on the
   numbers: that there is one is proved from the finite functions that begin it. *)

Succ(m, x) == IF x = Null THEN Null ELSE m[NextLoc(x)]

(* g follows the chain of image m from e for n steps. *)
Follows(m, e, g, n) ==
  g[0] = e /\ \A k \in 0 .. n - 1 : g[k + 1] = Succ(m, g[k])

(* Two that do are the same, *)
LEMMA FollowsSame ==
  ASSUME NEW m, NEW e
  PROVE  \A k \in Nat : \A g, h, n, p :
           (n \in Nat /\ p \in Nat /\ k <= n /\ k <= p
            /\ Follows(m, e, g, n) /\ Follows(m, e, h, p)) => g[k] = h[k]
<1> DEFINE P(k) == \A g, h, n, p :
             (n \in Nat /\ p \in Nat /\ k <= n /\ k <= p
              /\ Follows(m, e, g, n) /\ Follows(m, e, h, p)) => g[k] = h[k]
           S == {k \in Nat : P(k)}
<1>1. P(0)
  BY DEF Follows
<1>2. ASSUME NEW k \in Nat, P(k) PROVE P(k + 1)
  <2> SUFFICES ASSUME NEW g, NEW h, NEW n \in Nat, NEW p \in Nat, k + 1 <= n, k + 1 <= p,
                      Follows(m, e, g, n), Follows(m, e, h, p)
               PROVE  g[k + 1] = h[k + 1]
    OBVIOUS
  <2>1. g[k] = h[k]
    BY <1>2
  <2>2. g[k + 1] = Succ(m, g[k]) /\ h[k + 1] = Succ(m, h[k])
    BY DEF Follows
  <2> QED
    BY <2>1, <2>2
<1> HIDE DEF P
<1>3. 0 \in S /\ \A k \in Nat : k \in S => k + 1 \in S
  BY <1>1, <1>2
<1>4. Nat \subseteq S
  <2> HIDE DEF S
  <2> QED
    BY <1>3, Induction
<1> QED
  BY <1>4 DEF P

(* and there is one for each number of steps. *)
LEMMA FollowsExists ==
  ASSUME NEW m, NEW e
  PROVE  \A n \in Nat : \E g : Follows(m, e, g, n)
<1> DEFINE P(n) == \E g : Follows(m, e, g, n)
           S == {n \in Nat : P(n)}
<1>1. P(0)
  <2>1. Follows(m, e, [k \in {0} |-> e], 0)
    BY DEF Follows
  <2> QED
    BY <2>1
<1>2. ASSUME NEW n \in Nat, P(n) PROVE P(n + 1)
  <2>1. PICK g : Follows(m, e, g, n)
    BY <1>2
  <2> DEFINE h == [k \in 0 .. n + 1 |-> IF k = n + 1 THEN Succ(m, g[n]) ELSE g[k]]
  <2>2. h[0] = e
    BY <2>1 DEF Follows
  <2>3. ASSUME NEW k \in 0 .. (n + 1) - 1 PROVE h[k + 1] = Succ(m, h[k])
    <3>1. CASE k = n
      BY <3>1
    <3>2. CASE k # n
      <4>1. k \in 0 .. n - 1 /\ h[k] = g[k] /\ h[k + 1] = g[k + 1]
        BY <3>2
      <4> QED
        BY <2>1, <4>1 DEF Follows
    <3> QED
      BY <3>1, <3>2
  <2> HIDE DEF h
  <2>4. Follows(m, e, h, n + 1)
    BY <2>2, <2>3 DEF Follows
  <2> QED
    BY <2>4
<1> HIDE DEF P
<1>3. 0 \in S /\ \A n \in Nat : n \in S => n + 1 \in S
  BY <1>1, <1>2
<1>4. Nat \subseteq S
  <2> HIDE DEF S
  <2> QED
    BY <1>3, Induction
<1> QED
  BY <1>4 DEF P

(* The n-th entry of a chain is that of the definition. *)
LEMMA NthIs ==
  ASSUME NEW m, NEW e
  PROVE  /\ Nth(m, e)[0] = e
         /\ \A n \in Nat : Nth(m, e)[n + 1] = Succ(m, Nth(m, e)[n])
<1> DEFINE R(g) == [n \in Nat |-> IF n = 0 THEN e
                                  ELSE LET prev == g[n - 1]
                                       IN  IF prev = Null THEN Null ELSE m[NextLoc(prev)]]
           H(n) == CHOOSE g : Follows(m, e, g, n)
           G == [n \in Nat |-> H(n)[n]]
<1>1. \A n \in Nat : Follows(m, e, H(n), n)
  BY FollowsExists
<1> HIDE DEF H
<1>2. G[0] = e
  BY <1>1 DEF Follows
<1>3. ASSUME NEW n \in Nat PROVE G[n + 1] = Succ(m, G[n])
  <2>1. Follows(m, e, H(n), n) /\ Follows(m, e, H(n + 1), n + 1) /\ n + 1 \in Nat
    BY <1>1
  <2>2. H(n + 1)[n] = H(n)[n]
    <3>1. n <= n /\ n <= n + 1
      OBVIOUS
    <3>2. \A g, h, a, p :
            (a \in Nat /\ p \in Nat /\ n <= a /\ n <= p
             /\ Follows(m, e, g, a) /\ Follows(m, e, h, p)) => g[n] = h[n]
      BY FollowsSame
    <3> QED
      BY <2>1, <3>1, <3>2, Zenon
  <2>3. H(n + 1)[n + 1] = Succ(m, H(n + 1)[n])
    BY <2>1 DEF Follows
  <2> QED
    BY <2>1, <2>2, <2>3
<1>4. G = R(G)
  <2>1. \A n \in Nat : G[n] = R(G)[n]
    <3> SUFFICES ASSUME NEW n \in Nat PROVE G[n] = R(G)[n]
      OBVIOUS
    <3>1. CASE n = 0
      BY <1>2, <3>1
    <3>2. CASE n # 0
      <4>1. n - 1 \in Nat /\ n = (n - 1) + 1
        BY <3>2
      <4>2. G[n] = Succ(m, G[n - 1])
        BY <1>3, <4>1
      <4> HIDE DEF G
      <4> QED
        BY <3>2, <4>1, <4>2 DEF Succ
    <3> QED
      BY <3>1, <3>2
  <2>2. G = [n \in Nat |-> G[n]] /\ R(G) = [n \in Nat |-> R(G)[n]]
    OBVIOUS
  <2> HIDE DEF G, R
  <2> QED
    BY <2>1, <2>2
<1> HIDE DEF G
<1>5. Nth(m, e) = R(Nth(m, e))
  BY <1>4 DEF Nth
<1>6. Nth(m, e)[0] = e
  BY <1>5
<1>7. ASSUME NEW n \in Nat PROVE Nth(m, e)[n + 1] = Succ(m, Nth(m, e)[n])
  <2> DEFINE g == Nth(m, e)
  <2>1. g = R(g)
    BY <1>5
  <2> HIDE DEF g
  <2>2. n + 1 \in Nat /\ n + 1 # 0 /\ (n + 1) - 1 = n
    OBVIOUS
  <2>3. R(g)[n + 1] = Succ(m, g[n])
    BY <2>2 DEF Succ
  <2> QED
    BY <2>1, <2>3 DEF g
<1> QED
  BY <1>6, <1>7
-----------------------------------------------------------------------------
(* The chain of slot i is the entries of that slot, each once, and then Null. *)
LEMMA ChainWalk ==
  ASSUME NEW m, NEW b, NEW E, NEW rk, Chained(m, b, E, rk), NEW i \in Slots(m, b)
  PROVE  LET nth == Nth(m, m[SlotLoc(b, i)])
         IN  \E len \in ChainLens :
               /\ \A n \in Nat : n < len => /\ nth[n] \in E
                                            /\ hash(m, b, m[KeyLoc(nth[n])]) = i
               /\ \A n \in Nat : n >= len => nth[n] = Null
               /\ \A e \in E : hash(m, b, m[KeyLoc(e)]) = i =>
                                 \E n \in 0 .. len - 1 : nth[n] = e
<1> DEFINE h == m[SlotLoc(b, i)]
           nth == Nth(m, h)
           home(e) == hash(m, b, m[KeyLoc(e)])
<1>1. nth[0] = h /\ \A n \in Nat : nth[n + 1] = Succ(m, nth[n])
  BY NthIs
<1>2. /\ E \subseteq Entries /\ rk \in Ranks
      /\ h # Null => h \in E /\ home(h) = i
  BY ChainedIs
<1>3. ASSUME NEW e \in E, home(e) = i
      PROVE  /\ h # Null /\ rk[e] <= rk[h]
             /\ IF rk[e] = 0 THEN m[NextLoc(e)] = Null
                ELSE /\ m[NextLoc(e)] \in E /\ rk[m[NextLoc(e)]] = rk[e] - 1
                     /\ home(m[NextLoc(e)]) = i
  BY <1>3, ChainedIs
<1>4. \A e, g \in E : home(e) = home(g) /\ rk[e] = rk[g] => e = g
  BY ChainedIs
<1>5. \A e \in E : e # Null /\ rk[e] \in Nat
  BY <1>2, Names DEF Ranks
<1> HIDE DEF h, nth, home
<1>6. CASE h = Null
  <2> DEFINE S == {n \in Nat : nth[n] = Null}
  <2>1. 0 \in S /\ \A n \in Nat : n \in S => n + 1 \in S
    BY <1>1, <1>6 DEF Succ
  <2> HIDE DEF S
  <2>2. Nat \subseteq S
    BY <2>1, Induction
  <2>3. 0 \in ChainLens
    BY FS_CardinalityType, HashmapAssumption DEF ChainLens
  <2>4. \A e \in E : home(e) # i
    BY <1>3, <1>6
  <2>5. \A n \in Nat : nth[n] = Null
    BY <2>2 DEF S
  <2> QED
    BY <2>3, <2>4, <2>5 DEF nth, home, h
<1>7. CASE h # Null
  <2> DEFINE r == rk[h]
             P(n) == IF n <= r THEN nth[n] \in E /\ home(nth[n]) = i /\ rk[nth[n]] = r - n
                     ELSE nth[n] = Null
             S == {n \in Nat : P(n)}
  <2>0. r \in Nat /\ h \in E /\ home(h) = i
    BY <1>2, <1>5, <1>7
  <2> HIDE DEF r
  <2>1. P(0)
    BY <1>1, <2>0 DEF r
  <2>2. ASSUME NEW n \in Nat, P(n) PROVE P(n + 1)
    <3>1. CASE n + 1 <= r
      <4>1. nth[n] \in E /\ home(nth[n]) = i /\ rk[nth[n]] = r - n /\ rk[nth[n]] # 0
        BY <2>0, <2>2, <3>1
      <4>2. nth[n + 1] = m[NextLoc(nth[n])]
        BY <1>1, <1>5, <4>1 DEF Succ
      <4>3. nth[n + 1] \in E /\ home(nth[n + 1]) = i /\ rk[nth[n + 1]] = (r - n) - 1
        BY <1>3, <4>1, <4>2
      <4> QED
        BY <2>0, <3>1, <4>3
    <3>2. CASE n = r
      <4>1. nth[n] \in E /\ home(nth[n]) = i /\ rk[nth[n]] = 0
        BY <2>0, <2>2, <3>2
      <4>2. nth[n + 1] = Null
        BY <1>1, <1>3, <1>5, <4>1 DEF Succ
      <4> QED
        BY <2>0, <3>2, <4>2
    <3>3. CASE n > r
      <4>1. nth[n + 1] = Null
        BY <1>1, <2>0, <2>2, <3>3 DEF Succ
      <4> QED
        BY <2>0, <3>3, <4>1
    <3> QED
      BY <2>0, <3>1, <3>2, <3>3
  <2> HIDE DEF P
  <2>3. 0 \in S /\ \A n \in Nat : n \in S => n + 1 \in S
    BY <2>1, <2>2
  <2> HIDE DEF S
  <2>4. Nat \subseteq S
    BY <2>3, Induction
  <2>5. \A n \in Nat : P(n)
    BY <2>4 DEF S
  <2>6. \A n \in Nat : n <= r => nth[n] \in E /\ home(nth[n]) = i /\ rk[nth[n]] = r - n
    BY <2>5 DEF P
  <2>7. \A n \in Nat : n > r => nth[n] = Null
    BY <2>0, <2>5 DEF P
  <2>8. ASSUME NEW e \in E, home(e) = i PROVE \E n \in 0 .. (r + 1) - 1 : nth[n] = e
    <3>1. rk[e] <= r /\ rk[e] \in Nat
      BY <1>3, <1>5, <2>8 DEF r
    <3>2. r - rk[e] \in Nat /\ r - rk[e] <= r /\ r - (r - rk[e]) = rk[e]
      BY <2>0, <3>1
    <3>3. nth[r - rk[e]] = e
      BY <1>4, <2>6, <2>8, <3>2
    <3> QED
      BY <2>0, <3>2, <3>3
  <2>9. r + 1 \in ChainLens
    <3> DEFINE g == [n \in 0 .. r |-> nth[n]]
    <3>1. \A n \in 0 .. r : nth[n] \in E /\ rk[nth[n]] = r - n
      BY <2>0, <2>6
    <3>2. \A x, y \in 0 .. r : nth[x] = nth[y] => x = y
      BY <2>0, <3>1
    <3>3. g \in Injection(0 .. r, Entries)
      BY <1>2, <3>1, <3>2 DEF Injection, IsInjective
    <3> HIDE DEF g
    <3>4. Cardinality(0 .. r) <= Cardinality(Entries)
      BY <3>3, FS_Injection, HashmapAssumption
    <3>5. Cardinality(0 .. r) = r + 1
      BY <2>0, FS_Interval
    <3>6. Cardinality(Entries) \in Nat
      BY FS_CardinalityType, HashmapAssumption
    <3> QED
      BY <2>0, <3>4, <3>5, <3>6 DEF ChainLens
  <2>10. /\ \A n \in Nat : n < r + 1 => nth[n] \in E /\ home(nth[n]) = i
         /\ \A n \in Nat : n >= r + 1 => nth[n] = Null
    BY <2>0, <2>6, <2>7
  <2> QED
    BY <2>8, <2>9, <2>10 DEF nth, home, h
<1> QED
  BY <1>6, <1>7

(* So the chains of an array are its entries. *)
LEMMA InArrayIs ==
  ASSUME NEW m, NEW b, NEW E, NEW rk, Chained(m, b, E, rk)
  PROVE  /\ InArray(m, b) = E
         /\ \A i \in Slots(m, b) :
              /\ Nth(m, m[SlotLoc(b, i)])[Cardinality(Entries)] = Null
              /\ \A e \in Chain(m, m[SlotLoc(b, i)]) : hash(m, b, m[KeyLoc(e)]) = i
<1>0. Cardinality(Entries) \in Nat
  BY FS_CardinalityType, HashmapAssumption
<1>1. ASSUME NEW i \in Slots(m, b)
      PROVE  /\ Nth(m, m[SlotLoc(b, i)])[Cardinality(Entries)] = Null
             /\ \A e \in Chain(m, m[SlotLoc(b, i)]) : e \in E /\ hash(m, b, m[KeyLoc(e)]) = i
             /\ \A e \in E : hash(m, b, m[KeyLoc(e)]) = i => e \in Chain(m, m[SlotLoc(b, i)])
  <2> DEFINE h == m[SlotLoc(b, i)]
             nth == Nth(m, h)
             home(e) == hash(m, b, m[KeyLoc(e)])
  <2>1. PICK len \in ChainLens :
          /\ \A n \in Nat : n < len => nth[n] \in E /\ home(nth[n]) = i
          /\ \A n \in Nat : n >= len => nth[n] = Null
          /\ \A e \in E : home(e) = i => \E n \in 0 .. len - 1 : nth[n] = e
    BY ChainWalk
  <2> HIDE DEF h, nth, home
  <2>2. len \in Nat /\ len <= Cardinality(Entries) /\ ChainLens \subseteq Nat
    BY <1>0, <2>1 DEF ChainLens
  <2>3. nth[Cardinality(Entries)] = Null
    BY <1>0, <2>1, <2>2
  <2>4. \A e \in Chain(m, h) : e \in E /\ home(e) = i
    BY <2>1, <2>2 DEF Chain, nth
  <2>5. ASSUME NEW e \in E, home(e) = i PROVE e \in Chain(m, h)
    <3>1. PICK n \in 0 .. len - 1 : nth[n] = e
      BY <2>1, <2>5
    <3>2. n \in ChainLens
      BY <1>0, <2>2 DEF ChainLens
    <3>3. e # Null
      BY ChainedIs, Names
    <3> QED
      BY <3>1, <3>2, <3>3 DEF Chain, nth
  <2> QED
    BY <2>3, <2>4, <2>5 DEF h, nth, home
<1>2. \A e \in E : hash(m, b, m[KeyLoc(e)]) \in Slots(m, b)
  BY ChainedIs
<1>3. InArray(m, b) = E
  BY <1>1, <1>2 DEF InArray
<1> QED
  BY <1>1, <1>3
-----------------------------------------------------------------------------
(* No pointer of a map dangles, and the rest of WellFormed. *)
LEMMA WholeWellFormed ==
  ASSUME NEW m, Layout(m), NEW rk \in Ranks, Whole(m, Objects(m), rk)
  PROVE  WellFormed(m)
<1>1. CASE m[MapLoc] = Null
  BY <1>1 DEF WellFormed, MapExists, Whole
<1>2. CASE m[MapLoc] # Null
  <2> DEFINE b == m[BucketsLoc]
             O == Objects(m)
             E == O \cap Entries
  <2>1. /\ m[MapLoc] = "map" /\ "map" \in O /\ b \in O
        /\ b \in Arrays /\ O = {"root", "map", b} \cup E
        /\ m[LenLoc(b)] \in Nat \ {0}
        /\ Chained(m, b, E, rk) /\ Counted(m, E)
    BY <1>2, TheMap
  <2>2. /\ \A i \in Slots(m, b) : m[SlotLoc(b, i)] # Null => m[SlotLoc(b, i)] \in E
        /\ \A e \in E : m[NextLoc(e)] # Null => m[NextLoc(e)] \in E
    <3> HIDE DEF b, E
    <3> QED
      BY <2>1, ChainedIs
  <2>3. ASSUME NEW l \in DOMAIN m, l[2] \in {"map", "buckets", "bucket", "next"}
        PROVE  m[l] \in O \cup {Null}
    <3>0. l \in LocsOf(m, {l[1]}) /\ l[1] \in O
      BY ObjectsLocs DEF LocsOf
    <3>1. CASE l[1] = "root"
      <4>1. l = MapLoc
        BY <3>0, <3>1 DEF Layout, RootOK
      <4> QED
        BY <2>1, <4>1
    <3>2. CASE l[1] = "map"
      <4>1. l \in {FunA, FunB, CountLoc, BucketsLoc}
        BY <2>1, <3>0, <3>2 DEF Layout, MapOK
      <4>2. l = BucketsLoc
        BY <2>3, <4>1 DEF FunA, FunB, CountLoc
      <4> QED
        BY <2>1, <4>2
    <3>3. CASE l[1] = b
      <4>1. l \in {LenLoc(b)} \cup {SlotLoc(b, i) : i \in Slots(m, b)}
        BY <2>1, <3>0, <3>3 DEF Layout, ArrayOK
      <4>2. PICK i \in Slots(m, b) : l = SlotLoc(b, i)
        BY <2>3, <4>1 DEF LenLoc
      <4> QED
        BY <2>2, <4>2
    <3>4. CASE l[1] \in E
      <4>1. l \in {KeyLoc(l[1]), ValueLoc(l[1]), NextLoc(l[1])}
        BY <3>0, <3>4 DEF Layout, EntryOK
      <4>2. l = NextLoc(l[1])
        BY <2>3, <4>1 DEF KeyLoc, ValueLoc
      <4> QED
        BY <2>2, <3>4, <4>2
    <3> QED
      BY <2>1, <3>0, <3>1, <3>2, <3>3, <3>4
  <2>4. NoDangling(m)
    BY <2>3 DEF NoDangling
  <2>5. /\ InArray(m, b) = E
        /\ \A i \in Slots(m, b) :
             /\ Nth(m, m[SlotLoc(b, i)])[Cardinality(Entries)] = Null
             /\ \A e \in Chain(m, m[SlotLoc(b, i)]) : hash(m, b, m[KeyLoc(e)]) = i
    <3> HIDE DEF b, E
    <3> QED
      BY <2>1, InArrayIs
  <2>6. \A e, g \in E : m[KeyLoc(e)] = m[KeyLoc(g)] => e = g
    BY <2>1 DEF Counted
  <2>7. m[CountLoc] = Cardinality(E)
    BY <2>1 DEF Counted
  <2> QED
    BY <1>2, <2>1, <2>4, <2>5, <2>6, <2>7 DEF WellFormed, MapExists
<1> QED
  BY <1>1, <1>2

(* Between calls the image without the doomed objects is a well formed map. *)
THEOREM HashmapMapWellFormed == Spec => []MapWellFormed
<1>1. MapInv => MapWellFormed
  <2> SUFFICES ASSUME MapInv, pc = "idle" PROVE WellFormed(Without(pm.mem, pm.doomed))
    BY DEF MapWellFormed
  <2> DEFINE n == Without(pm.mem, pm.doomed)
  <2>1. PICK rk \in Ranks : Whole(pm.mem, Live, rk)
    BY DEF MapInv, PoolOK, ShapeOK, Loose
  <2>2. TxOK(pm) /\ Layout(pm.mem) /\ Live \subseteq Objects(pm.mem)
    BY DEF MapInv, TxOK, Live, Left
  <2>3. pm.doomed \cap {"root", "map"} = {}
    BY <2>2 DEF TxOK
  <2>4. Layout(n) /\ Objects(n) = Live /\ Agree(pm.mem, n, Live)
    BY <2>2, <2>3, WithoutTx DEF Live, Left
  <2> HIDE DEF n
  <2>5. Whole(n, Live, rk)
    BY <2>1, <2>2, <2>4, WholeAgree
  <2>6. WellFormed(n)
    BY <2>4, <2>5, WholeWellFormed
  <2> QED
    BY <2>6 DEF n
<1> QED
  BY <1>1, HashmapMapInvariant, PTL
-----------------------------------------------------------------------------
(* The walk of the chain of a key stops at the entry with that key, if there is one,
   and whatever it has passed has other keys. *)
LEMMA FoundIs ==
  ASSUME NEW m, Layout(m), NEW O, O \subseteq Objects(m), NEW rk, Whole(m, O, rk),
         m[MapLoc] # Null, NEW k \in Keys
  PROVE  LET E == O \cap Entries
             nth == Nth(m, m[SlotLoc(m[BucketsLoc], hash(m, m[BucketsLoc], k))])
         IN  /\ Found(m, k) # Null => Found(m, k) \in E /\ m[KeyLoc(Found(m, k))] = k
             /\ \A e \in E : m[KeyLoc(e)] = k => Found(m, k) = e
             /\ \E n \in ChainLens :
                  /\ Found(m, k) = nth[n]
                  /\ \A j \in 0 .. n - 1 : nth[j] # Null /\ m[KeyLoc(nth[j])] # k
<1> DEFINE b == m[BucketsLoc]
           E == O \cap Entries
           i == hash(m, b, k)
           nth == Nth(m, m[SlotLoc(b, i)])
           stops(n) == nth[n] = Null \/ m[KeyLoc(nth[n])] = k
           first(n) == stops(n) /\ \A j \in 0 .. n - 1 : ~stops(j)
           home(e) == hash(m, b, m[KeyLoc(e)])
<1>1. Chained(m, b, E, rk) /\ Counted(m, E)
  BY TheMap
<1>2. i \in Slots(m, b)
  BY TheHash
<1>3. PICK len \in ChainLens :
        /\ \A n \in Nat : n < len => nth[n] \in E /\ home(nth[n]) = i
        /\ \A n \in Nat : n >= len => nth[n] = Null
        /\ \A e \in E : home(e) = i => \E n \in 0 .. len - 1 : nth[n] = e
  <2> HIDE DEF b, i, E
  <2> QED
    BY <1>1, <1>2, ChainWalk
<1>4. Found(m, k) = nth[CHOOSE n \in ChainLens : first(n)]
  BY DEF Found
<1>5. \A e, g \in E : m[KeyLoc(e)] = m[KeyLoc(g)] => e = g
  BY <1>1 DEF Counted
<1>6. Cardinality(Entries) \in Nat
  BY FS_CardinalityType, HashmapAssumption
<1>7. Null \notin E
  BY Names
<1>8. \A e \in E : m[KeyLoc(e)] = k => home(e) = i
  OBVIOUS
<1> HIDE DEF b, E, i, nth, home, stops
<1>9. len \in Nat /\ ChainLens \subseteq Nat /\ \A n \in Nat : n <= len => n \in ChainLens
  BY <1>3, <1>6 DEF ChainLens
<1>10. PICK n \in ChainLens : first(n) /\ n <= len
  <2> DEFINE S == {j \in Nat : stops(j)}
  <2>1. len \in S
    BY <1>3, <1>9 DEF stops
  <2>2. PICK n \in S : \A j \in S : n <= j
    <3>1. S \in SUBSET Nat /\ S # {}
      BY <2>1
    <3> HIDE DEF S
    <3> QED
      BY <3>1, LeastOf
  <2>3. n \in Nat /\ stops(n) /\ n <= len
    BY <2>1, <2>2
  <2>4. \A j \in 0 .. n - 1 : ~stops(j)
    BY <2>2, <2>3
  <2> QED
    BY <1>9, <2>3, <2>4
<1>11. \A j \in ChainLens : first(j) => j = n
  <2> SUFFICES ASSUME NEW j \in ChainLens, first(j) PROVE j = n
    OBVIOUS
  <2>1. j \in Nat /\ n \in Nat
    BY <1>9
  <2>2. CASE j < n
    <3>1. j \in 0 .. n - 1
      BY <2>1, <2>2
    <3> QED
      BY <1>10, <3>1
  <2>3. CASE n < j
    <3>1. n \in 0 .. j - 1
      BY <2>1, <2>3
    <3> QED
      BY <1>10, <3>1
  <2> QED
    BY <2>1, <2>2, <2>3
<1> DEFINE F == CHOOSE j \in ChainLens : first(j)
<1>12. F = n
  <2>1. F \in ChainLens /\ first(F)
    BY <1>10
  <2> HIDE DEF F, first
  <2> QED
    BY <1>11, <2>1
<1>13. Found(m, k) = nth[n]
  <2>1. Found(m, k) = nth[F]
    BY <1>4
  <2> HIDE DEF F
  <2> QED
    BY <1>12, <2>1
<1>14. nth[n] # Null => nth[n] \in E /\ m[KeyLoc(nth[n])] = k
  <2> SUFFICES ASSUME nth[n] # Null PROVE nth[n] \in E /\ m[KeyLoc(nth[n])] = k
    OBVIOUS
  <2>0. n \in Nat /\ len \in Nat /\ n <= len /\ stops(n)
    BY <1>9, <1>10
  <2>1. n < len
    BY <1>3, <2>0
  <2> QED
    BY <1>3, <2>0, <2>1 DEF stops
<1>15. ASSUME NEW e \in E, m[KeyLoc(e)] = k PROVE nth[n] = e
  <2>1. PICK j \in 0 .. len - 1 : nth[j] = e
    BY <1>3, <1>8, <1>15
  <2>2. stops(j)
    BY <1>15, <2>1 DEF stops
  <2>3. j \in Nat /\ n \in Nat /\ len \in Nat /\ n <= j
    <3>1. j \in Nat /\ n \in Nat /\ len \in Nat
      BY <1>9, <1>10, <2>1
    <3>2. ~(j \in 0 .. n - 1)
      BY <1>10, <2>2
    <3> QED
      BY <3>1, <3>2
  <2>4. n < len
    BY <2>1, <2>3
  <2>5. nth[n] \in E
    BY <1>3, <2>3, <2>4
  <2>6. m[KeyLoc(nth[n])] = k
    BY <1>7, <1>14, <2>5
  <2> QED
    BY <1>5, <1>15, <2>5, <2>6
<1>16. \A j \in 0 .. n - 1 : nth[j] # Null /\ m[KeyLoc(nth[j])] # k
  BY <1>10 DEF stops
<1> QED
  BY <1>10, <1>13, <1>14, <1>15, <1>16 DEF E, nth, i, b
-----------------------------------------------------------------------------
(* What a client sees of a map is the pairs of its entries. *)
LEMMA ViewIs ==
  ASSUME NEW m, Layout(m), NEW O, O \subseteq Objects(m), NEW rk, Whole(m, O, rk),
         m[MapLoc] # Null
  PROVE  View(m) = Pairs(m, O \cap Entries)
<1> DEFINE b == m[BucketsLoc]
<1>1. Chained(m, b, O \cap Entries, rk)
  BY TheMap
<1>2. InArray(m, b) = O \cap Entries
  <2> HIDE DEF b
  <2> QED
    BY <1>1, InArrayIs
<1> QED
  BY <1>2 DEF View, MapExists

(* A pair is in the view iff a get of its key finds its value. *)
LEMMA GetIs ==
  ASSUME NEW m, Layout(m), NEW O, O \subseteq Objects(m), NEW rk, Whole(m, O, rk),
         m[MapLoc] # Null, NEW k \in Keys
  PROVE  /\ \A v \in Vals : <<k, v>> \in View(m) <=> hm_tx_get(m, k) = v
         /\ hm_tx_lookup(m, k) = 1 <=> hm_tx_get(m, k) # Null
<1> DEFINE E == O \cap Entries
           F == Found(m, k)
<1>1. View(m) = Pairs(m, E)
  BY ViewIs
<1>2. /\ F # Null => F \in E /\ m[KeyLoc(F)] = k
      /\ \A e \in E : m[KeyLoc(e)] = k => F = e
  BY FoundIs
<1>3. \A e \in E : m[ValueLoc(e)] \in Vals
  BY TheEntry
<1>4. hm_tx_get(m, k) = IF F = Null THEN Null ELSE m[ValueLoc(F)]
  BY DEF hm_tx_get
<1>5. hm_tx_lookup(m, k) = IF F = Null THEN 0 ELSE 1
  BY DEF hm_tx_lookup
<1>6. Null \notin Vals /\ Null \notin E
  BY Names, HashmapAssumption
<1> HIDE DEF E, F
<1>7. ASSUME NEW v \in Vals, <<k, v>> \in Pairs(m, E) PROVE hm_tx_get(m, k) = v
  <2>1. PICK e \in E : m[KeyLoc(e)] = k /\ m[ValueLoc(e)] = v
    BY <1>7 DEF Pairs
  <2> QED
    BY <1>2, <1>4, <1>6, <2>1
<1>8. ASSUME NEW v \in Vals, hm_tx_get(m, k) = v PROVE <<k, v>> \in Pairs(m, E)
  <2>1. F \in E /\ m[KeyLoc(F)] = k /\ m[ValueLoc(F)] = v
    BY <1>2, <1>4, <1>6, <1>8
  <2> QED
    BY <2>1 DEF Pairs
<1>9. hm_tx_lookup(m, k) = 1 <=> hm_tx_get(m, k) # Null
  BY <1>2, <1>3, <1>4, <1>5, <1>6
<1> QED
  BY <1>1, <1>7, <1>8, <1>9

(* The count is the number of pairs. *)
LEMMA CountIs ==
  ASSUME NEW m, Layout(m), NEW O, O \subseteq Objects(m), NEW rk, Whole(m, O, rk),
         m[MapLoc] # Null
  PROVE  hm_tx_count(m) = Cardinality(View(m))
<1> DEFINE E == O \cap Entries
           g == [e \in E |-> <<m[KeyLoc(e)], m[ValueLoc(e)]>>]
<1>1. View(m) = Pairs(m, E)
  BY ViewIs
<1>2. Counted(m, E)
  BY TheMap
<1>3. IsFiniteSet(E)
  BY FS_Subset, HashmapAssumption
<1>4. g \in Bijection(E, Pairs(m, E))
  <2>1. \A a, c \in E : g[a] = g[c] => a = c
    BY <1>2 DEF Counted
  <2>2. g \in [E -> Pairs(m, E)]
    BY DEF Pairs
  <2>3. \A y \in Pairs(m, E) : \E e \in E : g[e] = y
    BY DEF Pairs
  <2> HIDE DEF g, E
  <2> QED
    BY <2>1, <2>2, <2>3 DEF Bijection, Injection, IsInjective, Surjection
<1>5. Cardinality(Pairs(m, E)) = Cardinality(E)
  <2>1. ExistsBijection(E, Pairs(m, E))
    BY <1>4 DEF ExistsBijection
  <2> HIDE DEF E
  <2> QED
    BY <1>3, <2>1, FS_Bijection
<1>6. m[CountLoc] = Cardinality(E)
  BY <1>2 DEF Counted
<1> QED
  BY <1>1, <1>5, <1>6 DEF hm_tx_count

(* A foreach that nothing stops sees each entry. *)
LEMMA ForeachAll ==
  ASSUME NEW m, Layout(m), NEW O, O \subseteq Objects(m), NEW rk, Whole(m, O, rk),
         m[MapLoc] # Null
  PROVE  Pairs(m, hm_tx_foreach(m, {})) = View(m)
<1> DEFINE b == m[BucketsLoc]
           nth(i) == Nth(m, m[SlotLoc(b, i)])
           passed(i) == {n \in ChainLens : \A j \in 0 .. n - 1 :
                           nth(i)[j] # Null /\ m[KeyLoc(nth(i)[j])] \notin {}}
           visited(i) == {nth(i)[n] : n \in passed(i)}
<1>1. hm_tx_foreach(m, {}) = (UNION {visited(i) : i \in Slots(m, b)}) \ {Null}
  BY DEF hm_tx_foreach
<1>2. ASSUME NEW i \in Slots(m, b)
      PROVE  visited(i) \ {Null} = Chain(m, m[SlotLoc(b, i)])
  <2>1. PICK len \in ChainLens :
          /\ \A n \in Nat : n < len => nth(i)[n] \in O \cap Entries
          /\ \A n \in Nat : n >= len => nth(i)[n] = Null
    <3>1. Chained(m, b, O \cap Entries, rk)
      BY TheMap
    <3> HIDE DEF b
    <3> QED
      BY <3>1, ChainWalk
  <2>2. Null \notin Entries /\ ChainLens \subseteq Nat
    BY Names, FS_CardinalityType, HashmapAssumption DEF ChainLens
  <2>3. Chain(m, m[SlotLoc(b, i)]) = {nth(i)[n] : n \in ChainLens} \ {Null}
    BY DEF Chain
  <2> HIDE DEF b, nth
  <2>4. ASSUME NEW n \in ChainLens, nth(i)[n] # Null PROVE n \in passed(i)
    <3>1. n < len /\ n \in Nat /\ len \in Nat
      BY <2>1, <2>2, <2>4
    <3>2. \A j \in 0 .. n - 1 : nth(i)[j] # Null
      BY <2>1, <2>2, <3>1
    <3> QED
      BY <3>2
  <2> QED
    BY <2>3, <2>4
<1>3. (UNION {visited(i) : i \in Slots(m, b)}) \ {Null} = InArray(m, b)
  <2> DEFINE chain(i) == Chain(m, m[SlotLoc(b, i)])
  <2>1. InArray(m, b) = UNION {chain(i) : i \in Slots(m, b)}
    BY DEF InArray
  <2>2. \A i \in Slots(m, b) : Null \notin chain(i)
    BY DEF Chain
  <2>3. \A i \in Slots(m, b) : visited(i) \ {Null} = chain(i)
    BY <1>2
  <2> DEFINE all == UNION {visited(i) : i \in Slots(m, b)}
             chains == UNION {chain(i) : i \in Slots(m, b)}
  <2> HIDE DEF visited, chain
  <2>4. ASSUME NEW x PROVE x \in all \ {Null} <=> x \in chains
    BY <2>2, <2>3
  <2> HIDE DEF all, chains
  <2>5. all \ {Null} = chains
    BY <2>4
  <2> QED
    BY <2>1, <2>5 DEF all, chains
<1> QED
  BY <1>1, <1>3 DEF View, MapExists

(* And one that stops at a key that is there gets to it. *)
LEMMA ForeachOne ==
  ASSUME NEW m, Layout(m), NEW O, O \subseteq Objects(m), NEW rk, Whole(m, O, rk),
         m[MapLoc] # Null, NEW k \in Keys, hm_tx_lookup(m, k) = 1
  PROVE  \E e \in hm_tx_foreach(m, {k}) : m[KeyLoc(e)] = k
<1> DEFINE b == m[BucketsLoc]
           i == hash(m, b, k)
           nth == Nth(m, m[SlotLoc(b, i)])
           F == Found(m, k)
<1>1. F # Null
  BY DEF hm_tx_lookup
<1>2. i \in Slots(m, b)
  BY TheHash
<1>3. PICK n \in ChainLens :
        F = nth[n] /\ \A j \in 0 .. n - 1 : nth[j] # Null /\ m[KeyLoc(nth[j])] # k
  BY FoundIs
<1>4. m[KeyLoc(F)] = k
  BY <1>1, FoundIs
<1>5. F \in hm_tx_foreach(m, {k})
  <2> DEFINE passed(e) == {j \in ChainLens :
                \A l \in 0 .. j - 1 : Nth(m, e)[l] # Null /\ m[KeyLoc(Nth(m, e)[l])] \notin {k}}
             visited(e) == {Nth(m, e)[j] : j \in passed(e)}
             head(l) == m[SlotLoc(b, l)]
             all == UNION {visited(head(l)) : l \in Slots(m, b)}
  <2>1. hm_tx_foreach(m, {k}) = all \ {Null}
    BY DEF hm_tx_foreach
  <2>2. n \in passed(head(i))
    BY <1>3
  <2> HIDE DEF passed
  <2>3. F \in visited(head(i))
    BY <1>3, <2>2
  <2> HIDE DEF visited, head, F, i, b
  <2>4. F \in all
    BY <1>2, <2>3
  <2> HIDE DEF all
  <2> QED
    BY <1>1, <2>1, <2>4
<1> QED
  BY <1>4, <1>5

(* Between calls get, lookup, count and foreach agree on the contents. *)
THEOREM HashmapReadsAgree == Spec => []ReadsAgree
<1>1. MapInv => ReadsAgree
  <2> SUFFICES ASSUME MapInv, pc = "idle", pm.mem[MapLoc] # Null
               PROVE  ReadsAgree
    BY DEF ReadsAgree, MapExists
  <2> DEFINE m == pm.mem
  <2>1. PICK rk \in Ranks : Whole(m, Live, rk)
    BY DEF MapInv, PoolOK, ShapeOK, Loose
  <2>2. Layout(m) /\ Live \subseteq Objects(m)
    BY DEF MapInv, TxOK, Live, Left
  <2>3. \A k \in Keys : /\ \A v \in Vals : <<k, v>> \in View(m) <=> hm_tx_get(m, k) = v
                        /\ hm_tx_lookup(m, k) = 1 <=> hm_tx_get(m, k) # Null
    BY <2>1, <2>2, GetIs
  <2>4. hm_tx_count(m) = Cardinality(View(m))
    BY <2>1, <2>2, CountIs
  <2>5. Pairs(m, hm_tx_foreach(m, {})) = View(m)
    BY <2>1, <2>2, ForeachAll
  <2>6. \A k \in Keys : hm_tx_lookup(m, k) = 1 =>
                          \E e \in hm_tx_foreach(m, {k}) : m[KeyLoc(e)] = k
    BY <2>1, <2>2, ForeachOne
  <2> QED
    BY <2>3, <2>4, <2>5, <2>6 DEF ReadsAgree
<1> QED
  BY <1>1, HashmapMapInvariant, PTL
-----------------------------------------------------------------------------
-----------------------------------------------------------------------------
(***************************************************************************)
(* HashmapTx implements TxMap: whatever the pointers do, a client sees a   *)
(* set of pairs that calls change atomically, and a rebuild changes        *)
(* nothing it sees.                                                        *)
(*                                                                         *)
(* The abstract pairs are those of the entries in the pool that no commit  *)
(* will release, without the one that a running insert has allocated and   *)
(* not yet committed to: where those entries are linked does not matter.   *)
(***************************************************************************)

(* The running call holds an entry with its key. *)
Held == f.var \in Live \cap Entries /\ pm.mem[KeyLoc(f.var)] = f.key

(* The walk has passed n entries of the chain, and none has the key. *)
Passed(n) ==
  LET nth == Nth(pm.mem, pm.mem[SlotLoc(f.buckets, f.h)])
  IN  /\ f.var = nth[n]
      /\ \A j \in 0 .. n - 1 : nth[j] # Null /\ pm.mem[KeyLoc(nth[j])] # f.key

(* What the locals of a call are, as far as its result depends on them. *)
SeenOK ==
  /\ pc \in {"new", "ins_end", "rm_free"} \cup Walking => ret = Null
  /\ pc \in {"ins_link", "ins_end"} => Held /\ pm.mem[ValueLoc(f.var)] = f.value
  /\ pc \in {"rm_log", "rm_free"} => Held
  /\ pc = "rm_free" => Unused((Live \cap Entries) \ {f.var})
  /\ pc = "rm_scan" => \E n \in Nat : Passed(n)
  /\ pc \in {"rb_log", "rb_loop", "rb_finish"} => f.var = Null
  /\ pc = "rb_finish" =>
       /\ f.buckets_new = pm.mem[BucketsLoc]
       /\ \A i \in Slots(pm.mem, f.buckets) : pm.mem[SlotLoc(f.buckets, i)] = Null

(* The entries a client sees. *)
Shown == (Live \cap Entries) \ (IF pc \in {"ins_link", "ins_end"} THEN {f.var} ELSE {})

(* Without a client's transaction, what it sees is durable. *)
Settled == ~outer => Visible = View(durable)

SeesInv == SeenOK /\ Settled
-----------------------------------------------------------------------------
(* Images m and n have the same pairs in the entries S. *)
Same(m, n, S) ==
  \A e \in S : n[KeyLoc(e)] = m[KeyLoc(e)] /\ n[ValueLoc(e)] = m[ValueLoc(e)]

(* So the pairs are the same, *)
LEMMA SamePairs ==
  ASSUME NEW m, NEW n, NEW S, Same(m, n, S)
  PROVE  Pairs(n, S) = Pairs(m, S)
  BY DEF Same, Pairs

(* as they are where images agree. *)
LEMMA SameAgree ==
  ASSUME NEW m, Layout(m), NEW n, NEW O, O \subseteq Objects(m), Agree(m, n, O)
  PROVE  Same(m, n, O \cap Entries)
<1>1. ASSUME NEW e \in O \cap Entries
      PROVE  n[KeyLoc(e)] = m[KeyLoc(e)] /\ n[ValueLoc(e)] = m[ValueLoc(e)]
  <2>1. {KeyLoc(e), ValueLoc(e)} \subseteq DOMAIN m
    BY TheEntry
  <2> QED
    BY <2>1 DEF Agree, KeyLoc, ValueLoc
<1> QED
  BY <1>1 DEF Same

(* What these lemmas need of a transaction. *)
Laid(p) ==
  /\ IsTx(p) /\ p.doomed \subseteq Objects(p.mem)
  /\ \A e \in Left(p) \cap Entries : {KeyLoc(e), ValueLoc(e)} \subseteq DOMAIN p.mem

(* From p to q, no entry came or went, and each has the same pair. *)
SameTx(p, q) ==
  /\ Laid(q)
  /\ Left(q) \cap Entries = Left(p) \cap Entries
  /\ Same(p.mem, q.mem, Left(p) \cap Entries)

LEMMA LaidOut ==
  ASSUME NEW p, TxOK(p)
  PROVE  Laid(p) /\ SameTx(p, p)
<1>1. Left(p) \subseteq Objects(p.mem)
  BY DEF Left
<1>2. \A e \in Left(p) \cap Entries : {KeyLoc(e), ValueLoc(e)} \subseteq DOMAIN p.mem
  BY <1>1, TheEntry DEF TxOK
<1> QED
  BY <1>2 DEF Laid, SameTx, Same, TxOK

(* A store to a pointer or the count keeps every pair, *)
LEMMA SameStore ==
  ASSUME NEW a, NEW p, SameTx(a, p), NEW l, l[2] \notin {"key", "value"}, NEW v
  PROVE  LET q == Store(p, l, v)
         IN  /\ SameTx(a, q) /\ Left(q) = Left(p) /\ DOMAIN q.mem = DOMAIN p.mem
             /\ \A x \in DOMAIN p.mem : x # l => q.mem[x] = p.mem[x]
<1> DEFINE q == Store(p, l, v)
<1>0. IsTx(p) /\ Laid(p)
  BY DEF SameTx, Laid
<1>1. IsTx(q) /\ q.doomed = p.doomed
  BY <1>0 DEF IsTx, Store
<1>2. /\ DOMAIN q.mem = DOMAIN p.mem
      /\ \A x \in DOMAIN p.mem : x # l => q.mem[x] = p.mem[x]
  BY <1>0, StoreDomain
<1> HIDE DEF q
<1>3. Objects(q.mem) = Objects(p.mem) /\ Left(q) = Left(p)
  BY <1>1, <1>2 DEF Left, Objects
<1>4. ASSUME NEW e \in Left(p) \cap Entries
      PROVE  /\ q.mem[KeyLoc(e)] = p.mem[KeyLoc(e)]
             /\ q.mem[ValueLoc(e)] = p.mem[ValueLoc(e)]
  <2>1. {KeyLoc(e), ValueLoc(e)} \subseteq DOMAIN p.mem
    BY <1>0 DEF Laid
  <2>2. KeyLoc(e) # l /\ ValueLoc(e) # l
    BY DEF KeyLoc, ValueLoc
  <2> QED
    BY <1>2, <2>1, <2>2
<1>5. Laid(q)
  BY <1>0, <1>1, <1>2, <1>3 DEF Laid
<1> QED
  BY <1>2, <1>3, <1>4, <1>5 DEF Same, SameTx, q

(* so does a snapshot, *)
LEMMA SameAdd ==
  ASSUME NEW a, NEW p, SameTx(a, p), NEW L
  PROVE  LET q == TxAdd(p, L) IN SameTx(a, q) /\ q.mem = p.mem /\ Left(q) = Left(p)
<1> DEFINE q == TxAdd(p, L)
<1>1. IsTx(q) /\ q.mem = p.mem /\ q.doomed = p.doomed
  BY TxAddFields DEF SameTx, Laid
<1> HIDE DEF q
<1>2. Left(q) = Left(p)
  BY <1>1 DEF Left
<1> QED
  BY <1>1, <1>2 DEF Laid, SameTx, q

(* and an allocation, *)
LEMMA AllocLeft ==
  ASSUME NEW p, Laid(p), NEW o, o \notin Objects(p.mem),
         NEW c, DOMAIN c # {}, \A l \in DOMAIN c : l[1] = o
  PROVE  /\ Left(TxAlloc(p, o, c)) = Left(p) \cup {o} /\ o \notin Left(p)
         /\ Same(p.mem, TxAlloc(p, o, c).mem, Left(p) \cap Entries)
         /\ o \notin Entries => Laid(TxAlloc(p, o, c))
<1> DEFINE q == TxAlloc(p, o, c)
<1>1. /\ IsTx(q)
      /\ DOMAIN q.mem = DOMAIN p.mem \cup DOMAIN c
      /\ \A l \in DOMAIN c : q.mem[l] = c[l]
      /\ \A l \in DOMAIN p.mem \ DOMAIN c : q.mem[l] = p.mem[l]
      /\ q.doomed = p.doomed
  BY TxAllocFields DEF Laid
<1> HIDE DEF q
<1>2. \A l \in DOMAIN p.mem : l \notin DOMAIN c
  BY ObjectsLocs
<1>3. Objects(q.mem) = Objects(p.mem) \cup {o}
  BY <1>1 DEF Objects
<1>4. Left(q) = Left(p) \cup {o} /\ o \notin Left(p)
  BY <1>1, <1>3 DEF Left, Laid
<1>5. \A l \in DOMAIN p.mem : q.mem[l] = p.mem[l]
  BY <1>1, <1>2
<1>6. Same(p.mem, q.mem, Left(p) \cap Entries)
  BY <1>5 DEF Same, Laid
<1>7. ASSUME o \notin Entries PROVE Laid(q)
  <2>1. Left(q) \cap Entries = Left(p) \cap Entries
    BY <1>4, <1>7
  <2> QED
    BY <1>1, <1>3, <1>4, <2>1 DEF Laid
<1> QED
  BY <1>1, <1>4, <1>6, <1>7 DEF q

(* unless it is one of an entry. *)
LEMMA SameAlloc ==
  ASSUME NEW a, NEW p, SameTx(a, p), NEW o, o \notin Objects(p.mem), o \notin Entries,
         NEW c, DOMAIN c # {}, \A l \in DOMAIN c : l[1] = o
  PROVE  SameTx(a, TxAlloc(p, o, c))
<1> DEFINE q == TxAlloc(p, o, c)
<1>1. Laid(p)
  BY DEF SameTx
<1>2. /\ Left(q) = Left(p) \cup {o} /\ Same(p.mem, q.mem, Left(p) \cap Entries)
      /\ Laid(q)
  BY <1>1, AllocLeft
<1> HIDE DEF q
<1> QED
  BY <1>2 DEF SameTx, Same, q

(* TX_END keeps what it does not release. *)
LEMMA SameEnd ==
  ASSUME NEW p, TxOK(p), TxEnd(p)
  PROVE  /\ Left(pm') = Left(p) /\ Agree(p.mem, pm'.mem, Left(p))
         /\ Same(p.mem, pm'.mem, Left(p) \cap Entries)
         /\ outer' = outer
         /\ durable' = IF outer THEN durable ELSE pm'.mem
<1>1. /\ Left(pm') = Left(p) /\ Agree(p.mem, pm'.mem, Left(p))
      /\ outer' = outer /\ durable' = IF outer THEN durable ELSE pm'.mem
  <2>1. CASE outer
    BY <2>1 DEF TxEnd, Agree
  <2>2. CASE ~outer
    BY <2>2, CommitTx DEF TxEnd
  <2> QED
    BY <2>1, <2>2
<1>2. Layout(p.mem) /\ Left(p) \subseteq Objects(p.mem)
  BY DEF TxOK, Left
<1> QED
  BY <1>1, <1>2, SameAgree
-----------------------------------------------------------------------------
(* The entry that an insert allocates holds its pair. *)
LEMMA NewEntry ==
  ASSUME MapInv, LogInv, InsertNew
  PROVE  LET e == f'.var
         IN  /\ e \in Entries /\ e \notin Live /\ Live' = Live \cup {e}
             /\ Same(pm.mem, pm'.mem, Live \cap Entries)
             /\ pm'.mem[KeyLoc(e)] = f.key /\ pm'.mem[ValueLoc(e)] = f.value
             /\ f'.key = f.key /\ f'.value = f.value
<1>1. PICK e \in Entries \ Objects(pm.mem) :
        /\ pm' = TxAlloc(pm, e, [l \in {KeyLoc(e), ValueLoc(e), NextLoc(e)} |->
                   CASE l = KeyLoc(e)   -> f.key
                     [] l = ValueLoc(e) -> f.value
                     [] OTHER           -> pm.mem[SlotLoc(f.buckets, f.h)]])
        /\ f' = [f EXCEPT !.var = e]
  BY DEF InsertNew
<1> DEFINE c == [l \in {KeyLoc(e), ValueLoc(e), NextLoc(e)} |->
                   CASE l = KeyLoc(e)   -> f.key
                     [] l = ValueLoc(e) -> f.value
                     [] OTHER           -> pm.mem[SlotLoc(f.buckets, f.h)]]
<1>2. /\ DOMAIN c = {KeyLoc(e), ValueLoc(e), NextLoc(e)}
      /\ c[KeyLoc(e)] = f.key /\ c[ValueLoc(e)] = f.value
  BY DEF KeyLoc, ValueLoc, NextLoc
<1>3. \A l \in DOMAIN c : l[1] = e
  BY <1>2 DEF KeyLoc, ValueLoc, NextLoc
<1>4. pm' = TxAlloc(pm, e, c)
  BY <1>1
<1> HIDE DEF c
<1>5. SameTx(pm, pm)
  BY LaidOut DEF MapInv
<1>6. /\ Left(pm') = Left(pm) \cup {e} /\ e \notin Left(pm)
      /\ \A l \in DOMAIN c : pm'.mem[l] = c[l]
      /\ Same(pm.mem, pm'.mem, Left(pm) \cap Entries)
  <2> DEFINE q == TxAlloc(pm, e, c)
  <2>1. e \notin Objects(pm.mem) /\ DOMAIN c # {}
    BY <1>2
  <2>2. /\ Left(q) = Left(pm) \cup {e} /\ e \notin Left(pm)
        /\ \A l \in DOMAIN c : q.mem[l] = c[l]
        /\ Same(pm.mem, q.mem, Left(pm) \cap Entries)
    <3> HIDE DEF q
    <3>1. q = TxAlloc(pm, e, c)
      BY DEF q
    <3>2. Laid(pm)
      BY <1>5 DEF SameTx
    <3>3. \A l \in DOMAIN c : q.mem[l] = c[l]
      BY <3>1, <3>2, TxAllocFields DEF Laid
    <3> QED
      BY <1>3, <2>1, <3>1, <3>2, <3>3, AllocLeft
  <2> HIDE DEF q
  <2>3. pm' = q
    BY <1>4 DEF q
  <2> QED
    BY <2>2, <2>3
<1>7. f'.var = e /\ f'.key = f.key /\ f'.value = f.value
  BY <1>1 DEF LogInv, IsFrame
<1> QED
  BY <1>2, <1>6, <1>7 DEF Live

(* The other steps of a call neither bring nor take entries, nor change a pair. *)
LEMMA StepSame ==
  ASSUME MapInv,
         \/ InsertLog \/ InsertLink \/ RemoveUnlink
         \/ RebuildLog \/ RebuildTake \/ RebuildPush \/ RebuildSwitch
  PROVE  SameTx(pm, pm')
<1>0. SameTx(pm, pm)
  BY LaidOut DEF MapInv
<1>1. CASE InsertLog
  BY <1>0, <1>1, SameAdd DEF InsertLog
<1>2. CASE InsertLink
  <2> DEFINE p1 == Store(pm, SlotLoc(f.buckets, f.h), f.var)
             p2 == Store(p1, CountLoc, (pm.mem[CountLoc] + 1) % Word)
  <2>1. SameTx(pm, p1)
    BY <1>0, SameStore DEF SlotLoc
  <2> HIDE DEF p1
  <2>2. SameTx(pm, p2)
    BY <2>1, SameStore DEF CountLoc
  <2> QED
    BY <1>2, <2>2 DEF InsertLink, p1
<1>3. CASE RemoveUnlink
  <2> DEFINE p0 == TxAdd(TxAdd(pm, {LinkLoc}), {CountLoc})
             p1 == Store(p0, LinkLoc, pm.mem[NextLoc(f.var)])
             p2 == Store(p1, CountLoc, (pm.mem[CountLoc] - 1) % Word)
  <2>1. SameTx(pm, p0)
    <3>1. SameTx(pm, TxAdd(pm, {LinkLoc}))
      BY <1>0, SameAdd
    <3> QED
      BY <3>1, SameAdd
  <2> HIDE DEF p0
  <2>2. SameTx(pm, p1)
    <3>1. LinkLoc[2] \notin {"key", "value"}
      BY DEF LinkLoc, SlotLoc, NextLoc
    <3> QED
      BY <2>1, <3>1, SameStore
  <2> HIDE DEF p1
  <2>3. SameTx(pm, p2)
    BY <2>2, SameStore DEF CountLoc
  <2> QED
    BY <1>3, <2>3 DEF RemoveUnlink, p1, p0
<1>4. CASE RebuildLog
  <2>1. PICK b \in Arrays \ Objects(pm.mem) :
          pm' = TxAdd(TxAlloc(TxAdd(pm, {BucketsLoc}), b, ZeroArray(b, NewLen)),
                      LocsOf(pm.mem, {f.buckets}))
    BY <1>4 DEF RebuildLog
  <2> DEFINE z  == ZeroArray(b, NewLen)
             p0 == TxAdd(pm, {BucketsLoc})
             p1 == TxAlloc(p0, b, z)
  <2>2. SameTx(pm, p0) /\ p0.mem = pm.mem
    BY <1>0, SameAdd
  <2>3. DOMAIN z # {} /\ \A l \in DOMAIN z : l[1] = b
    <3>1. DOMAIN z = {LenLoc(b)} \cup {SlotLoc(b, i) : i \in 0 .. NewLen - 1}
      BY DEF ZeroArray
    <3>2. LenLoc(b)[1] = b /\ \A i : SlotLoc(b, i)[1] = b
      BY DEF LenLoc, SlotLoc
    <3> HIDE DEF z
    <3> QED
      BY <3>1, <3>2, Zenon
  <2> HIDE DEF p0, z
  <2>4. SameTx(pm, p1)
    <3>1. b \notin Entries /\ b \notin Objects(p0.mem)
      BY <2>2, Names
    <3> QED
      BY <2>2, <2>3, <3>1, SameAlloc
  <2> HIDE DEF p1
  <2> QED
    BY <2>1, <2>4, SameAdd DEF p1, p0, z
<1>5. CASE RebuildTake
  <2>1. \E i, v : pm' = Store(pm, SlotLoc(f.buckets, i), v)
    BY <1>5 DEF RebuildTake
  <2> QED
    BY <1>0, <2>1, SameStore DEF SlotLoc
<1>6. CASE RebuildPush
  <2> DEFINE slot == SlotLoc(f.buckets_new, f.h)
             p0 == TxAdd(pm, {NextLoc(f.var)})
             p1 == Store(p0, NextLoc(f.var), pm.mem[slot])
             p2 == Store(p1, slot, f.var)
  <2>1. SameTx(pm, p0)
    BY <1>0, SameAdd
  <2> HIDE DEF p0
  <2>2. SameTx(pm, p1)
    BY <2>1, SameStore DEF NextLoc
  <2> HIDE DEF p1
  <2>3. SameTx(pm, p2)
    BY <2>2, SameStore DEF SlotLoc
  <2> QED
    BY <1>6, <2>3 DEF RebuildPush, p1, p0
<1>7. CASE RebuildSwitch
  BY <1>0, <1>7, SameStore DEF RebuildSwitch, BucketsLoc
<1> QED
  BY <1>1, <1>2, <1>3, <1>4, <1>5, <1>6, <1>7
-----------------------------------------------------------------------------
(* What SeenOK says of a call stays true.  First an insert, *)
LEMMA SeenInsert ==
  ASSUME MapInv, LogInv, SeenOK,
         InsertScan \/ InsertLog \/ InsertNew \/ InsertLink \/ InsertEnd
  PROVE  SeenOK'
<1>1. CASE InsertScan \/ InsertLog
  <2>1. /\ pc' \in {"idle", "ins_scan", "ins_log", "ins_new"}
        /\ pc' # "idle" => ret' = ret
        /\ pc \in {"ins_scan", "ins_log"}
    BY <1>1 DEF InsertScan, InsertLog, Return
  <2> QED
    BY <2>1 DEF SeenOK, Walking
<1>2. CASE InsertNew
  <2>1. Held' /\ pm'.mem[ValueLoc(f'.var)] = f'.value
    <3> HIDE DEF Live
    <3> QED
      BY <1>2, NewEntry DEF Held
  <2> QED
    BY <1>2, <2>1 DEF InsertNew, SeenOK, Walking
<1>3. CASE InsertLink
  <2>1. Live' \cap Entries = Live \cap Entries /\ Same(pm.mem, pm'.mem, Live \cap Entries)
    BY <1>3, StepSame DEF SameTx, Live
  <2>2. f'.var = f.var /\ f'.key = f.key /\ f'.value = f.value
    BY <1>3 DEF InsertLink, LogInv, IsFrame
  <2>3. Held /\ pm.mem[ValueLoc(f.var)] = f.value /\ ret = Null
    BY <1>3 DEF InsertLink, SeenOK, Walking
  <2>4. Held' /\ pm'.mem[ValueLoc(f'.var)] = f'.value
    BY <2>1, <2>2, <2>3 DEF Held, Same
  <2> QED
    BY <1>3, <2>3, <2>4 DEF InsertLink, SeenOK, Walking
<1>4. CASE InsertEnd
  <2>1. pc' = "idle" \/ (pc' = "rb_log" /\ f'.var = Null)
    <3>1. Done \/ \E n : Rebuild(n)
      BY <1>4 DEF InsertEnd
    <3>2. CASE Done
      BY <3>2 DEF Done
    <3>3. CASE \E n : Rebuild(n)
      <4>1. PICK n : Rebuild(n)
        BY <3>3
      <4> QED
        BY <4>1 DEF Rebuild, NoFrame
    <3> QED
      BY <3>1, <3>2, <3>3
  <2> QED
    BY <2>1 DEF SeenOK, Walking
<1> QED
  BY <1>1, <1>2, <1>3, <1>4

(* then a remove, *)
LEMMA SeenRemove ==
  ASSUME MapInv, LogInv, SeenOK,
         (\E k \in Keys : hm_tx_remove(k)) \/ RemoveScan \/ RemoveUnlink \/ RemoveFree
  PROVE  SeenOK'
<1>1. CASE \E k \in Keys : hm_tx_remove(k)
  <2>1. PICK k \in Keys : hm_tx_remove(k)
    BY <1>1
  <2>2. /\ pm' = pm /\ pc' = "rm_scan" /\ ret' = Null
        /\ f'.var = pm.mem[SlotLoc(f'.buckets, f'.h)]
    BY <2>1 DEF hm_tx_remove, Walk, NoFrame
  <2>3. Passed(0)'
    BY <2>2, NthIs DEF Passed
  <2> QED
    BY <2>2, <2>3 DEF SeenOK, Walking
<1>2. CASE RemoveScan
  <2> DEFINE m == pm.mem
             nth == Nth(m, m[SlotLoc(f.buckets, f.h)])
  <2>0. pc = "rm_scan" /\ UNCHANGED <<pm, durable, outer>> /\ ret = Null
    BY <1>2 DEF RemoveScan, SeenOK, Walking
  <2>1. PICK n \in Nat : Passed(n)
    BY <2>0 DEF SeenOK
  <2>2. CASE pc' = "idle"
    BY <2>2 DEF SeenOK, Walking
  <2>3. CASE f.var # Null /\ m[KeyLoc(f.var)] = f.key /\ pc' = "rm_log" /\ UNCHANGED <<f, ret>>
    <3>1. f.var \in Live \cap Entries
      BY <2>0, <2>3 DEF MapInv, PoolOK, RemoveOK, Here
    <3>2. Held'
      BY <2>0, <2>3, <3>1 DEF Held, Live
    <3> QED
      BY <2>0, <2>3, <3>2 DEF SeenOK, Walking
  <2>4. CASE /\ f.var # Null /\ m[KeyLoc(f.var)] # f.key
             /\ f' = [f EXCEPT !.prev = f.var, !.var = m[NextLoc(f.var)]]
             /\ UNCHANGED <<pc, ret>>
    <3>1. /\ f'.var = m[NextLoc(f.var)] /\ f'.buckets = f.buckets /\ f'.h = f.h
          /\ f'.key = f.key
      BY <2>4 DEF LogInv, IsFrame
    <3>2. f.var = nth[n] /\ \A j \in 0 .. n - 1 : nth[j] # Null /\ m[KeyLoc(nth[j])] # f.key
      BY <2>1 DEF Passed
    <3>3. nth[n + 1] = Succ(m, nth[n])
      BY NthIs
    <3> HIDE DEF nth
    <3>4. f'.var = nth[n + 1]
      BY <2>4, <3>1, <3>2, <3>3 DEF Succ
    <3>5. \A j \in 0 .. (n + 1) - 1 : nth[j] # Null /\ m[KeyLoc(nth[j])] # f.key
      <4> SUFFICES ASSUME NEW j \in 0 .. (n + 1) - 1
                   PROVE  nth[j] # Null /\ m[KeyLoc(nth[j])] # f.key
        OBVIOUS
      <4>1. j = n \/ j \in 0 .. n - 1
        OBVIOUS
      <4> QED
        BY <2>4, <3>2, <4>1
    <3>6. Passed(n + 1)'
      BY <2>0, <3>1, <3>4, <3>5 DEF Passed, nth
    <3> QED
      BY <2>0, <2>4, <3>6 DEF SeenOK, Walking
  <2> QED
    BY <1>2, <2>2, <2>3, <2>4 DEF RemoveScan, Return
<1>3. CASE RemoveUnlink
  <2>1. Live' \cap Entries = Live \cap Entries /\ Same(pm.mem, pm'.mem, Live \cap Entries)
    BY <1>3, StepSame DEF SameTx, Live
  <2>2. Held /\ ret = Null
    BY <1>3 DEF RemoveUnlink, SeenOK, Walking
  <2>3. Held'
    BY <1>3, <2>1, <2>2 DEF RemoveUnlink, Held, Same
  <2>4. PICK rk \in Ranks, N \in SUBSET Entries : PoolOK(rk, N)
    BY DEF MapInv
  <2>5. Counted(pm.mem, Live \cap Entries)
    <3>1. Layout(pm.mem) /\ Live \subseteq Objects(pm.mem)
      BY DEF MapInv, TxOK, Live, Left
    <3>2. pm.mem[MapLoc] # Null /\ Whole(pm.mem, Live, rk)
      BY <1>3, <2>4, Names DEF PoolOK, CallOK, ShapeOK, RemoveUnlink, OnArray, Walking, Loose
    <3> QED
      BY <3>1, <3>2, TheMap
  <2>6. Unused((Live \cap Entries) \ {f.var})'
    BY <1>3, <2>1, <2>2, <2>5 DEF RemoveUnlink, Unused, Held, Same, Counted
  <2> QED
    BY <1>3, <2>2, <2>3, <2>6 DEF RemoveUnlink, SeenOK, Walking
<1>4. CASE RemoveFree
  <2>1. pc' = "idle" \/ (pc' = "rb_log" /\ f'.var = Null)
    <3>1. Done \/ \E n : Rebuild(n)
      BY <1>4 DEF RemoveFree
    <3>2. CASE Done
      BY <3>2 DEF Done
    <3>3. CASE \E n : Rebuild(n)
      <4>1. PICK n : Rebuild(n)
        BY <3>3
      <4> QED
        BY <4>1 DEF Rebuild, NoFrame
    <3> QED
      BY <3>1, <3>2, <3>3
  <2> QED
    BY <2>1 DEF SeenOK, Walking
<1> QED
  BY <1>1, <1>2, <1>3, <1>4

(* then a rebuild, *)
LEMMA SeenRebuild ==
  ASSUME MapInv, LogInv, SeenOK,
         \/ \E n \in RebuildLens : hm_tx_cmd(n)
         \/ RebuildLog \/ RebuildTake \/ RebuildPush \/ RebuildSwitch \/ RebuildFree
  PROVE  SeenOK'
<1>1. CASE \E n \in RebuildLens : hm_tx_cmd(n)
  <2>1. pc' = "rb_log" /\ f'.var = Null
    BY <1>1 DEF hm_tx_cmd, NoFrame
  <2> QED
    BY <2>1 DEF SeenOK, Walking
<1>2. CASE RebuildLog
  <2>1. pc' = "rb_loop" /\ f'.var = Null
    BY <1>2 DEF RebuildLog, SeenOK, LogInv, IsFrame
  <2> QED
    BY <2>1 DEF SeenOK, Walking
<1>3. CASE RebuildTake
  <2>1. pc' = "rb_push"
    BY <1>3 DEF RebuildTake
  <2> QED
    BY <2>1 DEF SeenOK, Walking
<1>4. CASE RebuildPush
  <2>1. pc' = "rb_loop" /\ f'.var = Null
    BY <1>4 DEF RebuildPush, LogInv, IsFrame
  <2> QED
    BY <2>1 DEF SeenOK, Walking
<1>5. CASE RebuildSwitch
  <2> DEFINE m == pm.mem
             b == f.buckets
  <2>0. /\ pc = "rb_loop" /\ pc' = "rb_finish" /\ f' = f /\ f.var = Null /\ Pending = {}
        /\ pm' = Store(pm, BucketsLoc, f.buckets_new)
    BY <1>5 DEF RebuildSwitch, SeenOK
  <2>1. TxOK(pm) /\ IsTx(pm) /\ Layout(m)
    BY DEF MapInv, TxOK
  <2>2. b \in Arrays \cap Objects(m) /\ BucketsLoc \in DOMAIN m
    <3>1. PICK rk \in Ranks, N \in SUBSET Entries : Split(N, {}, rk)
      BY <2>0 DEF MapInv, PoolOK, ShapeOK
    <3>2. b \in Arrays /\ b \in Live
      BY <3>1 DEF Split
    <3>3. BucketsLoc \in DOMAIN m
      BY <2>1, <3>1, SplitFields
    <3> QED
      BY <3>2, <3>3 DEF Live, Left
  <2>3. \A i \in Slots(m, b) : m[SlotLoc(b, i)] = Null
    BY <2>0 DEF Pending
  <2> HIDE DEF m, b
  <2>4. /\ LenLoc(b) \in DOMAIN m
        /\ \A i \in Slots(m, b) : SlotLoc(b, i) \in DOMAIN m
    BY <2>1, <2>2, Fields
  <2>5. /\ pm'.mem[BucketsLoc] = f.buckets_new
        /\ \A x \in DOMAIN m : x # BucketsLoc => pm'.mem[x] = m[x]
    BY <2>0, <2>1, <2>2, StoreDomain DEF m
  <2>6. Slots(pm'.mem, b) = Slots(m, b)
    BY <2>4, <2>5 DEF Slots, LenLoc, BucketsLoc
  <2>7. \A i \in Slots(m, b) : pm'.mem[SlotLoc(b, i)] = Null
    BY <2>3, <2>4, <2>5 DEF SlotLoc, BucketsLoc
  <2> QED
    BY <2>0, <2>5, <2>6, <2>7 DEF SeenOK, Walking, b
<1>6. CASE RebuildFree
  <2>1. pc' = "idle"
    BY <1>6 DEF RebuildFree, Done
  <2> QED
    BY <2>1 DEF SeenOK, Walking
<1> QED
  BY <1>1, <1>2, <1>3, <1>4, <1>5, <1>6

(* and the rest. *)
LEMMA SeenNext == MapInv /\ LogInv /\ SeenOK /\ [Next]_vars => SeenOK'
<1> SUFFICES ASSUME MapInv, LogInv, SeenOK, [Next]_vars
             PROVE  SeenOK'
  OBVIOUS
<1>1. CASE TxBegin \/ TxCommit \/ TxAbort \/ Crash \/ create_hashmap \/ CreateMap
  <2>1. pc' \in {"idle", "new_buckets"}
    BY <1>1 DEF TxBegin, TxCommit, TxAbort, Crash, create_hashmap, CreateMap, Return
  <2> QED
    BY <2>1 DEF SeenOK, Walking
<1>2. CASE hm_tx_create \/ \E k \in Keys, v \in Vals : hm_tx_insert(k, v)
  <2>1. pc' \in {"new", "ins_scan"} /\ ret' = Null
    BY <1>2 DEF hm_tx_create, hm_tx_insert
  <2> QED
    BY <2>1 DEF SeenOK, Walking
<1>3. CASE InsertScan \/ InsertLog \/ InsertNew \/ InsertLink \/ InsertEnd
  BY <1>3, SeenInsert
<1>4. CASE (\E k \in Keys : hm_tx_remove(k)) \/ RemoveScan \/ RemoveUnlink \/ RemoveFree
  BY <1>4, SeenRemove
<1>5. CASE \/ \E n \in RebuildLens : hm_tx_cmd(n)
           \/ RebuildLog \/ RebuildTake \/ RebuildPush \/ RebuildSwitch \/ RebuildFree
  BY <1>5, SeenRebuild
<1>6. CASE UNCHANGED vars
  BY <1>6 DEF vars, SeenOK, Held, Passed, Unused, Live
<1> QED
  BY <1>1, <1>2, <1>3, <1>4, <1>5, <1>6 DEF Next, Step
-----------------------------------------------------------------------------
-----------------------------------------------------------------------------
(* What the client sees is the pairs of the shown entries.  First a map at rest or with a
   call that works on its array, *)
LEMMA VisibleOneArray ==
  ASSUME MapInv, SeenOK, pm.mem[MapLoc] # Null,
         pc \notin {"new_buckets", "rb_loop", "rb_push", "rb_finish"}
  PROVE  Visible = Pairs(pm.mem, Shown)
<1> DEFINE m == pm.mem
           O == Live \ Loose
           E == Live \cap Entries
<1>1. PICK rk \in Ranks, N \in SUBSET Entries : PoolOK(rk, N)
  BY DEF MapInv
<1>2. Layout(m) /\ O \subseteq Objects(m) /\ Whole(m, O, rk)
  BY <1>1 DEF MapInv, TxOK, Live, Left, PoolOK, ShapeOK
<1>3. View(m) = Pairs(m, O \cap Entries)
  <2> HIDE DEF m, O
  <2>1. m[MapLoc] # Null
    BY DEF m
  <2> QED
    BY <1>2, <2>1, ViewIs
<1>4. InArray(m, m[BucketsLoc]) = O \cap Entries
  <2> HIDE DEF m, O
  <2>1. m[MapLoc] # Null
    BY DEF m
  <2>2. Chained(m, m[BucketsLoc], O \cap Entries, rk)
    BY <1>2, <2>1, TheMap
  <2> QED
    BY <2>2, InArrayIs
<1>5. CASE pc = "ins_end"
  <2>1. f.buckets = m[BucketsLoc] /\ O = Live
    BY <1>1, <1>5 DEF PoolOK, CallOK, OnArray, Loose
  <2>2. Visible = Pairs(m, InArray(m, f.buckets) \ {f.var})
    BY <1>5 DEF Visible
  <2>3. Shown = E \ {f.var}
    BY <1>5 DEF Shown
  <2> QED
    BY <1>4, <2>1, <2>2, <2>3
<1>6. CASE pc = "rm_free"
  <2>1. f.buckets = m[BucketsLoc] /\ O = Live \ {f.var} /\ f.var \in E
    BY <1>1, <1>6 DEF PoolOK, CallOK, RemoveOK, OnArray, Loose
  <2>2. Visible = Pairs(m, InArray(m, f.buckets) \cup {f.var})
    BY <1>6 DEF Visible
  <2>3. Shown = E
    BY <1>6 DEF Shown
  <2>4. (O \cap Entries) \cup {f.var} = E
    BY <2>1
  <2> QED
    BY <1>4, <2>1, <2>2, <2>3, <2>4
<1>7. CASE pc \notin {"ins_end", "rm_free"}
  <2>1. Visible = View(m)
    BY <1>7 DEF Visible
  <2>2. Shown = O \cap Entries
    BY <1>7 DEF Shown, Loose
  <2> QED
    BY <1>3, <2>1, <2>2
<1> QED
  BY <1>5, <1>6, <1>7

(* then two arrays, *)
LEMMA VisibleTwoArrays ==
  ASSUME MapInv, SeenOK, pc \in {"rb_loop", "rb_push", "rb_finish"}
  PROVE  Visible = Pairs(pm.mem, Shown)
<1> DEFINE m == pm.mem
           b == f.buckets
           c == f.buckets_new
           E == Live \cap Entries
<1>1. PICK rk \in Ranks, N \in SUBSET Entries : PoolOK(rk, N)
  BY DEF MapInv
<1>2. (InArray(m, b) \cup InArray(m, c) \cup {f.var}) \ {Null} = E
  <2>1. CASE pc = "rb_loop"
    <3>1. Chained(m, b, E \ N, rk) /\ Chained(m, c, N, rk) /\ N \subseteq E
      <4>1. Split(N, {}, rk)
        BY <1>1, <2>1 DEF PoolOK, ShapeOK
      <4>2. E \ (N \cup {}) = E \ N
        OBVIOUS
      <4> QED
        BY <4>1, <4>2 DEF Split
    <3>2. f.var = Null
      BY <2>1 DEF SeenOK
    <3> HIDE DEF m, b, c, E
    <3>3. InArray(m, b) = E \ N /\ InArray(m, c) = N
      BY <3>1, InArrayIs
    <3>4. Null \notin E
      BY Names DEF E
    <3> QED
      BY <3>1, <3>2, <3>3, <3>4
  <2>2. CASE pc = "rb_push"
    <3>1. /\ Chained(m, b, E \ (N \cup {f.var}), rk) /\ Chained(m, c, N, rk)
          /\ N \subseteq E /\ f.var \in E
      BY <1>1, <2>2 DEF PoolOK, ShapeOK, Split
    <3> HIDE DEF m, b, c, E
    <3>2. InArray(m, b) = E \ (N \cup {f.var}) /\ InArray(m, c) = N
      BY <3>1, InArrayIs
    <3>3. Null \notin E
      BY Names DEF E
    <3> QED
      BY <3>1, <3>2, <3>3
  <2>3. CASE pc = "rb_finish"
    <3>1. /\ c = m[BucketsLoc] /\ f.var = Null
          /\ \A i \in Slots(m, b) : m[SlotLoc(b, i)] = Null
      BY <2>3 DEF SeenOK
    <3>2. /\ Whole(m, Live \ {b}, rk) /\ m[MapLoc] # Null
          /\ b \in Arrays
      BY <1>1, <2>3, Names DEF PoolOK, ShapeOK, Loose
    <3>3. Layout(m) /\ Live \ {b} \subseteq Objects(m)
      BY DEF MapInv, TxOK, Live, Left
    <3> HIDE DEF m, b, c
    <3>4. Chained(m, c, (Live \ {b}) \cap Entries, rk)
      BY <3>1, <3>2, <3>3, TheMap
    <3>5. (Live \ {b}) \cap Entries = E
      BY <3>2, Names
    <3>6. InArray(m, c) = E
      <4> HIDE DEF E
      <4> QED
        BY <3>4, <3>5, InArrayIs
    <3>7. InArray(m, b) = {}
      <4>1. Chained(m, b, {}, rk)
        BY <3>1, ChainedEmpty
      <4> QED
        BY <4>1, InArrayIs
    <3> QED
      BY <3>1, <3>6, <3>7, Names
  <2> QED
    BY <2>1, <2>2, <2>3
<1>3. Visible = Pairs(m, (InArray(m, b) \cup InArray(m, c) \cup {f.var}) \ {Null})
  BY DEF Visible
<1>4. Shown = E
  BY DEF Shown
<1> QED
  BY <1>2, <1>3, <1>4

(* and no map. *)
LEMMA VisibleIs == MapInv /\ SeenOK => Visible = Pairs(pm.mem, Shown)
<1> SUFFICES ASSUME MapInv, SeenOK PROVE Visible = Pairs(pm.mem, Shown)
  OBVIOUS
<1>1. PICK rk \in Ranks, N \in SUBSET Entries : PoolOK(rk, N)
  BY DEF MapInv
<1>2. CASE pc = "new_buckets"
  <2>1. Live \cap Entries = {}
    BY <1>1, <1>2, Names DEF PoolOK, ShapeOK
  <2> QED
    BY <1>2, <2>1 DEF Visible, Shown, Pairs
<1>3. CASE pc \in {"rb_loop", "rb_push", "rb_finish"}
  BY <1>3, VisibleTwoArrays
<1>4. CASE pc \notin {"new_buckets", "rb_loop", "rb_push", "rb_finish"} /\ pm.mem[MapLoc] # Null
  BY <1>4, VisibleOneArray
<1>5. CASE pc \notin {"new_buckets", "rb_loop", "rb_push", "rb_finish"} /\ pm.mem[MapLoc] = Null
  <2>1. pc \notin OnArray
    BY <1>1, <1>5, Names DEF PoolOK, CallOK
  <2>2. Live \cap Entries = {}
    BY <1>1, <1>5, <2>1, Names DEF PoolOK, ShapeOK, Whole, Loose, OnArray, Walking
  <2>3. Visible = {}
    BY <1>5, <2>1 DEF Visible, View, MapExists, OnArray, Walking
  <2> QED
    BY <2>2, <2>3 DEF Shown, Pairs
<1> QED
  BY <1>2, <1>3, <1>4, <1>5
-----------------------------------------------------------------------------
(* A step of the map is a step of TxMap. *)
Inv == MapInv /\ LogInv /\ SeenOK
Refined == [Map!Next]_(Map!vars) /\ Settled'

LEMMA Sees == Inv => Visible = Pairs(pm.mem, Shown) /\ View(Recovered(pm)) = View(durable)
  BY VisibleIs DEF Inv, LogInv, RollbackExact

LEMMA SeesNow ==
  ASSUME Inv, Inv'
  PROVE  /\ Visible = Pairs(pm.mem, Shown) /\ View(Recovered(pm)) = View(durable)
         /\ Visible' = Pairs(pm'.mem, Shown') /\ View(Recovered(pm))' = View(durable')
<1>1. (Visible = Pairs(pm.mem, Shown) /\ View(Recovered(pm)) = View(durable))'
  BY Sees, PTL
<1> QED
  BY <1>1, Sees

(* Steps that keep the pairs of the shown entries keep what the client sees. *)
LEMMA SeesSame ==
  ASSUME Inv, Inv', Shown' = Shown, Same(pm.mem, pm'.mem, Shown)
  PROVE  Visible' = Visible
  BY SeesNow, SamePairs

(* A step that the client does not notice, *)
LEMMA Quiet ==
  ASSUME Inv, Settled, Inv', Visible' = Visible, View(durable') = View(durable),
         outer' = outer, CallInProgress' = CallInProgress, ret' = ret
  PROVE  Refined
<1>1. View(Recovered(pm))' = View(Recovered(pm))
  BY SeesNow
<1>2. UNCHANGED Map!vars
  BY <1>1 DEF Map!vars
<1>3. Settled'
  BY DEF Settled
<1> QED
  BY <1>2, <1>3 DEF Refined

(* one that only returns, *)
LEMMA OnlyReturns ==
  ASSUME Inv, Settled, Inv', Visible' = Visible, View(durable') = View(durable),
         outer' = outer, CallInProgress = <<>>, CallInProgress' = <<>>,
         ret' \in {0, Null} \/ (ret = Null /\ ret' = -1)
  PROVE  Refined
<1>1. View(Recovered(pm))' = View(Recovered(pm))
  BY SeesNow
<1>2. Map!Other
  BY <1>1 DEF Map!Other
<1>3. Settled'
  BY DEF Settled
<1> QED
  BY <1>2, <1>3 DEF Refined, Map!Next

(* and one with the effect of a call, durable unless the client has a transaction open. *)
LEMMA Takes ==
  ASSUME Inv, Inv', outer' = outer, CallInProgress' = <<>>,
         View(durable') = IF outer THEN View(durable) ELSE Visible'
  PROVE  Map!Effect(Visible', ret') /\ Settled'
<1>1. View(Recovered(pm))' = IF outer THEN View(Recovered(pm)) ELSE Visible'
  BY SeesNow
<1>2. Map!Effect(Visible', ret')
  BY <1>1 DEF Map!Effect
<1>3. Settled'
  BY DEF Settled
<1> QED
  BY <1>2, <1>3

(* When a call ends or goes on to a rebuild, TX_END has made what the client sees
   durable, unless the client has a transaction open. *)
LEMMA EndSees ==
  ASSUME pc' \in {"idle", "rb_log"}, durable' = IF outer THEN durable ELSE pm'.mem
  PROVE  /\ View(durable') = IF outer THEN View(durable) ELSE Visible'
         /\ CallInProgress' = <<>>
<1>1. Visible' = View(pm'.mem)
  BY DEF Visible
<1>2. CallInProgress' = <<>>
  BY DEF CallInProgress
<1> QED
  BY <1>1, <1>2

(* The actions on transactions. *)
LEMMA RefinedTx ==
  ASSUME Inv, Settled, Inv', TxBegin \/ TxCommit \/ Crash \/ (TxAbort /\ outer)
  PROVE  Refined
<1>1. CASE TxBegin
  <2>1. Visible' = Visible
    BY <1>1 DEF TxBegin, Visible
  <2>2. CallInProgress = <<>> /\ CallInProgress' = <<>>
    BY <1>1 DEF TxBegin, CallInProgress
  <2>3. View(Recovered(pm))' = View(Recovered(pm))
    BY <1>1 DEF TxBegin
  <2>4. Map!Begin /\ Settled'
    BY <1>1, <2>1, <2>2, <2>3 DEF TxBegin, Map!Begin, Settled
  <2> QED
    BY <2>4 DEF Refined, Map!Next
<1>2. CASE TxCommit
  <2>0. TxOK(pm) /\ pm' = Commit(pm) /\ Live \subseteq Objects(pm.mem) /\ Layout(pm.mem)
    BY <1>2 DEF TxCommit, Inv, MapInv, TxOK, Live, Left
  <2>1. Live' = Live /\ Agree(pm.mem, pm'.mem, Live)
    BY <2>0, CommitTx DEF Live
  <2>2. Shown = Live \cap Entries /\ Shown' = Live' \cap Entries
    BY <1>2 DEF TxCommit, Shown
  <2>3. Same(pm.mem, pm'.mem, Live \cap Entries)
    BY <2>0, <2>1, SameAgree
  <2>4. Visible' = Visible
    BY <2>1, <2>2, <2>3, SeesSame
  <2>5. CallInProgress = <<>> /\ CallInProgress' = <<>>
    BY <1>2 DEF TxCommit, CallInProgress
  <2>6. Visible' = View(pm'.mem)
    BY <1>2 DEF TxCommit, Visible
  <2>7. View(Recovered(pm))' = Visible'
    BY <1>2, <2>6, SeesNow DEF TxCommit
  <2>8. Map!Commit /\ Settled'
    BY <1>2, <2>4, <2>5, <2>6, <2>7 DEF TxCommit, Map!Commit, Settled
  <2> QED
    BY <2>8 DEF Refined, Map!Next
<1>3. CASE Crash \/ (TxAbort /\ outer)
  <2>1. /\ pm' = Rollback(pm) /\ outer' = FALSE /\ pc' = "idle" /\ durable' = durable
        /\ ret' \in {ret} \cup (IF outer THEN {Aborted} ELSE {})
    BY <1>3 DEF Crash, TxAbort, Return
  <2>2. pm'.mem = Recovered(pm)
    BY <2>1, NoTxFields DEF Rollback
  <2>3. Visible' = View(Recovered(pm)) /\ CallInProgress' = <<>>
    BY <2>1, <2>2 DEF Visible, CallInProgress
  <2>4. View(Recovered(pm))' = View(Recovered(pm))
    BY <2>1, SeesNow
  <2>5. Map!Undo
    BY <2>1, <2>3, <2>4 DEF Map!Undo
  <2>6. Settled'
    BY <2>1, <2>3, SeesNow DEF Settled
  <2> QED
    BY <2>5, <2>6 DEF Refined, Map!Next
<1> QED
  BY <1>1, <1>2, <1>3

(* A call that fails outside a client's transaction. *)
LEMMA RefinedAbort ==
  ASSUME Inv, Settled, Inv', TxAbort, ~outer
  PROVE  Refined
<1>1. /\ pm' = Rollback(pm) /\ outer' = outer /\ pc' = "idle" /\ durable' = durable
      /\ ret' = OnAbort /\ pc # "idle"
  BY DEF TxAbort, Return, Inv, MapInv, ControlOK
<1>2. pm'.mem = Recovered(pm)
  BY <1>1, NoTxFields DEF Rollback
<1>3. Visible' = View(Recovered(pm)) /\ CallInProgress' = <<>>
  BY <1>1, <1>2 DEF Visible, CallInProgress
<1>4. Visible' = Visible /\ View(durable') = View(durable) /\ View(durable) = Visible
  BY <1>1, <1>3, SeesNow DEF Settled
<1>5. CASE pc = "new"
  <2>1. ret = Null /\ ret' = -1
    BY <1>1, <1>5 DEF OnAbort, Inv, SeenOK
  <2>2. CallInProgress = <<>>
    BY <1>5 DEF CallInProgress
  <2> QED
    BY <1>1, <1>3, <1>4, <2>1, <2>2, OnlyReturns
<1>6. CASE pc \in {"ins_log", "ins_new", "rm_log", "rm_free"}
  <2>1. Map!Effect(Visible', ret') /\ Settled'
    BY <1>1, <1>3, <1>4, Takes
  <2>2. /\ CallInProgress # <<>>
        /\ ret' = IF CallInProgress[1] = "insert" THEN -1 ELSE Null
    <3>1. CASE pc \in {"ins_log", "ins_new"}
      <4>1. CallInProgress = <<"insert", f.key, f.value>> /\ ret' = -1
        BY <1>1, <3>1 DEF CallInProgress, OnAbort
      <4> QED
        BY <4>1
    <3>2. CASE pc \in {"rm_log", "rm_free"}
      <4>1. CallInProgress = <<"remove", f.key>> /\ ret' = Null
        BY <1>1, <3>2 DEF CallInProgress, OnAbort
      <4> QED
        BY <4>1
    <3> QED
      BY <1>6, <3>1, <3>2
  <2>3. Map!Effect(Visible, IF CallInProgress[1] = "insert" THEN -1 ELSE Null)
    BY <1>4, <2>1, <2>2
  <2>4. Map!Fail
    BY <2>2, <2>3 DEF Map!Fail
  <2> QED
    BY <2>1, <2>4 DEF Refined, Map!Next
<1>7. CASE pc \in {"rb_log", "rb_push", "rb_finish"}
  <2>1. CallInProgress = <<>> /\ ret' = ret
    BY <1>1, <1>7 DEF CallInProgress, OnAbort
  <2> QED
    BY <1>1, <1>3, <1>4, <2>1, Quiet
<1> QED
  BY <1>1, <1>5, <1>6, <1>7 DEF TxAbort
-----------------------------------------------------------------------------
(* Creating the map and calling it. *)
LEMMA RefinedCreate ==
  ASSUME Inv, Settled, Inv', hm_tx_create \/ CreateMap \/ create_hashmap
  PROVE  Refined
<1>0. PICK rk \in Ranks, N \in SUBSET Entries : PoolOK(rk, N)
  BY DEF Inv, MapInv
<1>1. CASE hm_tx_create
  <2>1. Visible' = Visible /\ CallInProgress = <<>> /\ CallInProgress' = <<>>
    BY <1>1 DEF hm_tx_create, Visible, CallInProgress
  <2> QED
    BY <1>1, <2>1, OnlyReturns DEF hm_tx_create
<1>2. CASE CreateMap
  <2>1. CallInProgress = <<>> /\ CallInProgress' = <<>> /\ Visible' = {}
    BY <1>2 DEF CreateMap, CallInProgress, Visible
  <2>2. Visible = {}
    BY <1>0, <1>2 DEF CreateMap, Visible, View, MapExists, PoolOK, ShapeOK
  <2> QED
    BY <1>2, <2>1, <2>2, Quiet DEF CreateMap
<1>3. CASE create_hashmap
  <2>0. pc = "new_buckets" /\ pc' = "idle" /\ ret' = 0
    BY <1>3 DEF create_hashmap, Return
  <2>1. PICK a \in Rands \ {0}, b \in Rands, arr \in Arrays \ Objects(pm.mem) :
          TxEnd(Store(Store(Store(TxAlloc(TxAdd(pm, LocsOf(pm.mem, {"map"})), arr,
                                          ZeroArray(arr, INIT_BUCKETS_NUM)),
                                  FunA, a), FunB, b), BucketsLoc, arr))
    BY <1>3 DEF create_hashmap
  <2> DEFINE z  == ZeroArray(arr, INIT_BUCKETS_NUM)
             p0 == TxAdd(pm, LocsOf(pm.mem, {"map"}))
             p1 == TxAlloc(p0, arr, z)
             p2 == Store(p1, FunA, a)
             p3 == Store(p2, FunB, b)
             p4 == Store(p3, BucketsLoc, arr)
  <2>2. SameTx(pm, p0) /\ p0.mem = pm.mem
    BY LaidOut, SameAdd DEF Inv, MapInv
  <2>3. DOMAIN z # {} /\ \A l \in DOMAIN z : l[1] = arr
    <3>1. DOMAIN z = {LenLoc(arr)} \cup {SlotLoc(arr, i) : i \in 0 .. INIT_BUCKETS_NUM - 1}
      BY DEF ZeroArray
    <3>2. LenLoc(arr)[1] = arr /\ \A i : SlotLoc(arr, i)[1] = arr
      BY DEF LenLoc, SlotLoc
    <3> HIDE DEF z
    <3> QED
      BY <3>1, <3>2, Zenon
  <2> HIDE DEF p0, z
  <2>4. SameTx(pm, p1)
    <3>1. arr \notin Entries /\ arr \notin Objects(p0.mem)
      BY <2>2, Names
    <3> QED
      BY <2>2, <2>3, <3>1, SameAlloc
  <2> HIDE DEF p1
  <2>5. SameTx(pm, p2)
    BY <2>4, SameStore DEF FunA
  <2> HIDE DEF p2
  <2>6. SameTx(pm, p3)
    BY <2>5, SameStore DEF FunB
  <2> HIDE DEF p3
  <2>7. SameTx(pm, p4)
    BY <2>6, SameStore DEF BucketsLoc
  <2> HIDE DEF p4
  <2>8. TxEnd(p4)
    BY <2>1 DEF p4, p3, p2, p1, p0, z
  <2>9. Live' = Left(p4)
    <3>1. IsTx(p4)
      BY <2>7 DEF SameTx, Laid
    <3>2. Left(Commit(p4)) = Left(p4)
      <4> DEFINE q == Commit(p4)
      <4>1. q.mem = Without(p4.mem, p4.doomed) /\ q.doomed = {}
        BY NoTxFields DEF Commit
      <4>2. DOMAIN Without(p4.mem, p4.doomed) = {l \in DOMAIN p4.mem : l[1] \notin p4.doomed}
        BY DEF Without, LocsOf
      <4> HIDE DEF q
      <4> QED
        BY <4>1, <4>2 DEF Left, Objects, q
    <3> QED
      BY <2>8, <3>2 DEF TxEnd, Live
  <2>10. Live \cap Entries = {}
    BY <1>0, <2>0, Names DEF PoolOK, ShapeOK
  <2>11. Visible = {} /\ Visible' = {}
    <3>1. Shown' = {}
      BY <2>7, <2>9, <2>10 DEF Shown, SameTx, Live
    <3> QED
      BY <2>0, <3>1, SeesNow DEF Visible, Pairs
  <2>12. outer' = outer /\ durable' = IF outer THEN durable ELSE pm'.mem
    BY <2>8 DEF TxEnd
  <2>13. View(durable') = View(durable) /\ CallInProgress' = <<>>
    BY <2>0, <2>11, <2>12, EndSees DEF Settled
  <2>14. CallInProgress = <<>>
    BY <2>0 DEF CallInProgress
  <2> QED
    BY <2>0, <2>11, <2>12, <2>13, <2>14, OnlyReturns
<1> QED
  BY <1>1, <1>2, <1>3

LEMMA RefinedCall ==
  ASSUME Inv, Settled, Inv',
         \/ \E k \in Keys, v \in Vals : hm_tx_insert(k, v)
         \/ \E k \in Keys : hm_tx_remove(k)
         \/ \E n \in RebuildLens : hm_tx_cmd(n)
  PROVE  Refined
<1>1. /\ UNCHANGED <<pm, durable, outer>> /\ pc = "idle"
      /\ pc' \in {"ins_scan", "rm_scan", "rb_log"}
  BY DEF hm_tx_insert, hm_tx_remove, hm_tx_cmd
<1>2. Visible' = Visible /\ CallInProgress = <<>>
  BY <1>1 DEF Visible, CallInProgress
<1>3. View(Recovered(pm))' = View(Recovered(pm)) /\ Settled'
  BY <1>1, <1>2 DEF Settled
<1>4. CASE \E k \in Keys, v \in Vals : hm_tx_insert(k, v)
  <2>1. PICK k \in Keys, v \in Vals : hm_tx_insert(k, v)
    BY <1>4
  <2>2. f'.key = k /\ f'.value = v /\ pc' = "ins_scan" /\ ret' = Null
    BY <2>1 DEF hm_tx_insert, Walk, NoFrame
  <2>3. CallInProgress' = <<"insert", k, v>>
    BY <2>2 DEF CallInProgress
  <2>4. Map!Call
    BY <1>1, <1>2, <1>3, <2>2, <2>3 DEF Map!Call
  <2> QED
    BY <1>3, <2>4 DEF Refined, Map!Next
<1>5. CASE \E k \in Keys : hm_tx_remove(k)
  <2>1. PICK k \in Keys : hm_tx_remove(k)
    BY <1>5
  <2>2. f'.key = k /\ pc' = "rm_scan" /\ ret' = Null
    BY <2>1 DEF hm_tx_remove, Walk, NoFrame
  <2>3. CallInProgress' = <<"remove", k>>
    BY <2>2 DEF CallInProgress
  <2>4. Map!Call
    BY <1>1, <1>2, <1>3, <2>2, <2>3 DEF Map!Call
  <2> QED
    BY <1>3, <2>4 DEF Refined, Map!Next
<1>6. CASE \E n \in RebuildLens : hm_tx_cmd(n)
  <2>1. CallInProgress' = <<>> /\ ret' = 0
    BY <1>6 DEF hm_tx_cmd, CallInProgress
  <2> QED
    BY <1>1, <1>2, <2>1, OnlyReturns
<1> QED
  BY <1>4, <1>5, <1>6
-----------------------------------------------------------------------------
(* An insert finds its key, or adds its pair when TX_END is reached. *)
LEMMA RefinedInsert ==
  ASSUME Inv, Settled, Inv',
         InsertScan \/ InsertLog \/ InsertNew \/ InsertLink \/ InsertEnd
  PROVE  Refined
<1> DEFINE m == pm.mem
           E == Live \cap Entries
<1>0. PICK rk \in Ranks, N \in SUBSET Entries : PoolOK(rk, N)
  BY DEF Inv, MapInv
<1>1. Layout(m) /\ Live \subseteq Objects(m) /\ LogInv /\ MapInv /\ SeenOK
  BY DEF Inv, MapInv, TxOK, Live, Left
<1>2. CASE InsertScan
  <2>0. pc = "ins_scan" /\ UNCHANGED <<pm, durable, outer>>
    BY <1>2 DEF InsertScan
  <2>1. CASE f.var # Null /\ m[KeyLoc(f.var)] = f.key /\ Return(1)
    <3>1. f.var \in E
      BY <1>0, <2>0, <2>1 DEF PoolOK, InsertOK, Here
    <3>2. f.key \in Keys /\ f.value \in Vals
      BY <1>0, <2>0 DEF PoolOK, CallOK, InsertOK, Walking
    <3>3. Shown = E /\ Shown' = Shown
      BY <2>0, <2>1 DEF Shown, Return, Live
    <3>4. Visible' = Visible
      BY <2>0, <3>3, SeesSame DEF Same
    <3>5. CallInProgress = <<"insert", f.key, f.value>> /\ CallInProgress' = <<>> /\ ret' = 1
      BY <2>0, <2>1 DEF Return, CallInProgress
    <3>6. View(durable') = IF outer THEN View(durable) ELSE Visible'
      BY <2>0, <3>4 DEF Settled
    <3>7. Map!Effect(Visible, 1) /\ Settled'
      BY <2>0, <3>4, <3>5, <3>6, Takes
    <3>8. f.key \in Map!KeysOf(Visible)
      <4>1. <<f.key, m[ValueLoc(f.var)]>> \in Visible
        BY <2>1, <3>1, <3>3, SeesNow DEF Pairs
      <4> QED
        BY <4>1 DEF Map!KeysOf
    <3>9. Map!Insert(f.key, f.value)
      BY <3>5, <3>7, <3>8 DEF Map!Insert
    <3> QED
      BY <3>2, <3>7, <3>9 DEF Refined, Map!Next
  <2>2. CASE pc' \in {"ins_scan", "ins_log"} /\ f'.key = f.key /\ f'.value = f.value /\ ret' = ret
    <3>1. Visible' = Visible
      BY <2>0, <2>2 DEF Visible
    <3>2. CallInProgress' = CallInProgress
      BY <2>0, <2>2 DEF CallInProgress
    <3> QED
      BY <2>0, <2>2, <3>1, <3>2, Quiet
  <2> QED
    BY <1>1, <1>2, <2>1, <2>2 DEF InsertScan, LogInv, IsFrame
<1>3. CASE InsertLog \/ InsertLink
  <2>1. /\ f'.key = f.key /\ f'.value = f.value /\ f'.var = f.var
        /\ durable' = durable /\ outer' = outer /\ ret' = ret
        /\ (pc = "ins_log" /\ pc' = "ins_new") \/ (pc = "ins_link" /\ pc' = "ins_end")
    BY <1>1, <1>3 DEF InsertLog, InsertLink, LogInv, IsFrame
  <2>2. SameTx(pm, pm')
    BY <1>1, <1>3, StepSame
  <2>3. Shown' = Shown /\ Same(pm.mem, pm'.mem, Shown)
    BY <2>1, <2>2 DEF Shown, SameTx, Same, Live
  <2>4. CallInProgress' = CallInProgress
    BY <2>1 DEF CallInProgress
  <2> QED
    BY <2>1, <2>3, <2>4, SeesSame, Quiet
<1>4. CASE InsertNew
  <2>1. /\ f'.var \in Entries /\ f'.var \notin Live /\ Live' = Live \cup {f'.var}
        /\ Same(pm.mem, pm'.mem, E) /\ f'.key = f.key /\ f'.value = f.value
    BY <1>1, <1>4, NewEntry
  <2>2. /\ durable' = durable /\ outer' = outer /\ ret' = ret
        /\ pc = "ins_new" /\ pc' = "ins_link"
    BY <1>4 DEF InsertNew
  <2>3. Shown = E /\ Shown' = E
    BY <2>1, <2>2 DEF Shown
  <2>4. CallInProgress' = CallInProgress
    BY <2>1, <2>2 DEF CallInProgress
  <2> QED
    BY <2>1, <2>2, <2>3, <2>4, SeesSame, Quiet
<1>5. CASE InsertEnd
  <2>0. pc = "ins_end" /\ TxEnd(pm) /\ ret' = 0 /\ pc' \in {"idle", "rb_log"}
    BY <1>5 DEF InsertEnd, Rebuild, Done
  <2>1. TxOK(pm)
    BY <1>1 DEF MapInv
  <2>2. /\ Live' = Live /\ Same(pm.mem, pm'.mem, E)
        /\ outer' = outer /\ durable' = IF outer THEN durable ELSE pm'.mem
    BY <2>0, <2>1, SameEnd DEF Live
  <2>3. Shown = E \ {f.var} /\ Shown' = E
    BY <2>0, <2>2 DEF Shown
  <2>4. Visible = Pairs(m, E \ {f.var}) /\ Visible' = Pairs(m, E)
    BY <2>2, <2>3, SeesNow, SamePairs
  <2>5. f.var \in E /\ m[KeyLoc(f.var)] = f.key /\ m[ValueLoc(f.var)] = f.value
    BY <1>1, <2>0 DEF SeenOK, Held
  <2>6. f.key \in Keys /\ f.value \in Vals
    BY <1>1, <2>5, TheEntry
  <2>7. Visible' = Visible \cup {<<f.key, f.value>>}
    BY <2>4, <2>5 DEF Pairs
  <2>8. Counted(m, E)
    <3>1. m[MapLoc] # Null /\ Whole(m, Live, rk)
      BY <1>0, <2>0, Names DEF PoolOK, CallOK, ShapeOK, OnArray, Loose
    <3> HIDE DEF m
    <3> QED
      BY <1>1, <3>1, TheMap
  <2>9. f.key \notin Map!KeysOf(Visible)
    <3>1. \A e \in E \ {f.var} : m[KeyLoc(e)] # f.key
      BY <2>5, <2>8 DEF Counted
    <3>2. \A p \in Visible : p[1] # f.key
      BY <2>4, <3>1 DEF Pairs
    <3> QED
      BY <3>2 DEF Map!KeysOf
  <2>10. CallInProgress = <<"insert", f.key, f.value>>
    BY <2>0 DEF CallInProgress
  <2>11. Map!Effect(Visible', 0) /\ Settled'
    BY <2>0, <2>2, EndSees, Takes
  <2>12. Map!Insert(f.key, f.value)
    BY <2>7, <2>9, <2>10, <2>11 DEF Map!Insert
  <2> QED
    BY <2>6, <2>11, <2>12 DEF Refined, Map!Next
<1> QED
  BY <1>2, <1>3, <1>4, <1>5
-----------------------------------------------------------------------------
(* A remove whose walk got to the end of the chain has passed every entry there is in
   the slot of the key, and no other slot has the key. *)
LEMMA NotThere ==
  ASSUME Inv, pc = "rm_scan", f.var = Null
  PROVE  Unused(Live \cap Entries)
<1> DEFINE m == pm.mem
           b == f.buckets
           E == Live \cap Entries
           nth == Nth(m, m[SlotLoc(b, f.h)])
<1>0. PICK rk \in Ranks, N \in SUBSET Entries : PoolOK(rk, N)
  BY DEF Inv, MapInv
<1>1. Layout(m) /\ Live \subseteq Objects(m)
  BY DEF Inv, MapInv, TxOK, Live, Left
<1>2. /\ m[MapLoc] # Null /\ Whole(m, Live, rk) /\ b = m[BucketsLoc]
      /\ f.key \in Keys /\ f.h = hash(m, b, f.key)
  BY <1>0, Names DEF PoolOK, CallOK, ShapeOK, OnArray, Walking, Loose
<1>3. PICK n \in Nat : f.var = nth[n] /\ \A j \in 0 .. n - 1 : m[KeyLoc(nth[j])] # f.key
  BY DEF Inv, SeenOK, Passed
<1> HIDE DEF m, nth, b
<1>4. Chained(m, b, E, rk) /\ f.h \in Slots(m, b)
  BY <1>1, <1>2, TheMap, TheHash
<1>5. PICK len \in ChainLens :
        /\ \A k \in Nat : k < len => nth[k] \in E
        /\ \A e \in E : hash(m, b, m[KeyLoc(e)]) = f.h => \E k \in 0 .. len - 1 : nth[k] = e
  <2> HIDE DEF E
  <2> QED
    BY <1>4, ChainWalk DEF nth
<1>6. len \in Nat
  BY FS_CardinalityType, HashmapAssumption DEF ChainLens
<1>7. len <= n
  <2>1. nth[n] \notin E
    BY <1>3, Names
  <2> QED
    BY <1>5, <1>6, <2>1
<1>8. ASSUME NEW e \in E, m[KeyLoc(e)] = f.key PROVE FALSE
  <2>1. PICK k \in 0 .. len - 1 : nth[k] = e
    BY <1>2, <1>5, <1>8
  <2>2. k \in 0 .. n - 1
    BY <1>6, <1>7
  <2> QED
    BY <1>3, <1>8, <2>1, <2>2
<1> QED
  BY <1>8 DEF Unused, m

(* A remove finds no entry, or takes its pair away when TX_END is reached. *)
LEMMA RefinedRemove ==
  ASSUME Inv, Settled, Inv', RemoveScan \/ RemoveUnlink \/ RemoveFree
  PROVE  Refined
<1> DEFINE m == pm.mem
           E == Live \cap Entries
<1>0. PICK rk \in Ranks, N \in SUBSET Entries : PoolOK(rk, N)
  BY DEF Inv, MapInv
<1>1. Layout(m) /\ Live \subseteq Objects(m) /\ LogInv /\ MapInv /\ SeenOK
  BY DEF Inv, MapInv, TxOK, Live, Left
<1>2. CASE RemoveScan
  <2>0. pc = "rm_scan" /\ UNCHANGED <<pm, durable, outer>>
    BY <1>2 DEF RemoveScan
  <2>1. CASE f.var = Null /\ Return(Null)
    <3>1. f.key \in Keys
      BY <1>0, <2>0 DEF PoolOK, CallOK, Walking
    <3>2. Shown = E /\ Shown' = Shown
      BY <2>0, <2>1 DEF Shown, Return, Live
    <3>3. Visible' = Visible
      BY <2>0, <3>2, SeesSame DEF Same
    <3>4. CallInProgress = <<"remove", f.key>> /\ CallInProgress' = <<>> /\ ret' = Null
      BY <2>0, <2>1 DEF Return, CallInProgress
    <3>5. View(durable') = IF outer THEN View(durable) ELSE Visible'
      BY <2>0, <3>3 DEF Settled
    <3>6. Map!Effect(Visible, Null) /\ Settled'
      BY <2>0, <3>3, <3>4, <3>5, Takes
    <3>7. f.key \notin Map!KeysOf(Visible)
      <4>1. Unused(E)
        BY <2>0, <2>1, NotThere
      <4>2. \A p \in Visible : p[1] # f.key
        BY <3>2, <4>1, SeesNow DEF Pairs, Unused
      <4> QED
        BY <4>2 DEF Map!KeysOf
    <3>8. Map!Remove(f.key)
      BY <3>4, <3>6, <3>7 DEF Map!Remove
    <3> QED
      BY <3>1, <3>6, <3>8 DEF Refined, Map!Next
  <2>2. CASE pc' \in {"rm_scan", "rm_log"} /\ f'.key = f.key /\ ret' = ret
    <3>1. Visible' = Visible
      BY <2>0, <2>2 DEF Visible
    <3>2. CallInProgress' = CallInProgress
      BY <2>0, <2>2 DEF CallInProgress
    <3> QED
      BY <2>0, <2>2, <3>1, <3>2, Quiet
  <2> QED
    BY <1>1, <1>2, <2>1, <2>2 DEF RemoveScan, LogInv, IsFrame
<1>3. CASE RemoveUnlink
  <2>1. /\ f' = f /\ durable' = durable /\ outer' = outer /\ ret' = ret
        /\ pc = "rm_log" /\ pc' = "rm_free"
    BY <1>3 DEF RemoveUnlink
  <2>2. SameTx(pm, pm')
    BY <1>1, <1>3, StepSame
  <2>3. Shown' = Shown /\ Same(pm.mem, pm'.mem, Shown)
    BY <2>1, <2>2 DEF Shown, SameTx, Same, Live
  <2>4. CallInProgress' = CallInProgress
    BY <2>1 DEF CallInProgress
  <2> QED
    BY <2>1, <2>3, <2>4, SeesSame, Quiet
<1>4. CASE RemoveFree
  <2> DEFINE q == TxFree(pm, f.var)
             r == m[ValueLoc(f.var)]
  <2>0. /\ pc = "rm_free" /\ TxEnd(q) /\ ret' = r /\ pc' \in {"idle", "rb_log"}
    BY <1>4 DEF RemoveFree, Removed, Rebuild, Done
  <2>1. f.var \in E /\ m[KeyLoc(f.var)] = f.key /\ Unused(E \ {f.var})
    BY <1>1, <2>0 DEF SeenOK, Held
  <2>2. f.key \in Keys
    BY <1>1, <2>1, TheEntry
  <2>3. TxOK(q) /\ Left(q) = Live \ {f.var} /\ Agree(m, q.mem, Left(q))
    <3>1. TxOK(pm) /\ f.var \in Left(pm) \ {"root", "map"}
      BY <1>1, <2>1, Names DEF MapInv, Live
    <3> QED
      BY <3>1, FreeTx DEF Live
  <2> HIDE DEF q, r
  <2>4. /\ Live' = Live \ {f.var} /\ Same(q.mem, pm'.mem, Left(q) \cap Entries)
        /\ outer' = outer /\ durable' = IF outer THEN durable ELSE pm'.mem
    BY <2>0, <2>3, SameEnd DEF Live
  <2>5. Same(m, q.mem, Left(q) \cap Entries)
    BY <1>1, <2>3, SameAgree
  <2>6. Shown = E /\ Shown' = E \ {f.var} /\ Left(q) \cap Entries = E \ {f.var}
    BY <2>0, <2>3, <2>4 DEF Shown
  <2>7. Visible = Pairs(m, E) /\ Visible' = Pairs(m, E \ {f.var})
    BY <2>4, <2>5, <2>6, SeesNow, SamePairs
  <2>8. <<f.key, r>> \in Visible /\ Visible' = Visible \ {<<f.key, r>>}
    BY <2>1, <2>7 DEF Pairs, Unused, r
  <2>9. f.key \in Map!KeysOf(Visible)
    BY <2>8 DEF Map!KeysOf
  <2>10. CallInProgress = <<"remove", f.key>>
    BY <2>0 DEF CallInProgress
  <2>11. Map!Effect(Visible', r) /\ Settled'
    BY <2>0, <2>4, EndSees, Takes
  <2>12. Map!Remove(f.key)
    BY <2>8, <2>9, <2>10, <2>11 DEF Map!Remove
  <2> QED
    BY <2>2, <2>11, <2>12 DEF Refined, Map!Next
<1> QED
  BY <1>2, <1>3, <1>4

(* A rebuild moves entries from one array to the other, and no client sees it. *)
LEMMA RefinedRebuild ==
  ASSUME Inv, Settled, Inv',
         RebuildLog \/ RebuildTake \/ RebuildPush \/ RebuildSwitch \/ RebuildFree
  PROVE  Refined
<1>1. LogInv /\ MapInv /\ SeenOK
  BY DEF Inv
<1>2. CASE RebuildLog \/ RebuildTake \/ RebuildPush \/ RebuildSwitch
  <2>1. /\ durable' = durable /\ outer' = outer /\ ret' = ret
        /\ {pc, pc'} \subseteq {"rb_log", "rb_loop", "rb_push", "rb_finish"}
    BY <1>2 DEF RebuildLog, RebuildTake, RebuildPush, RebuildSwitch
  <2>2. SameTx(pm, pm')
    BY <1>1, <1>2, StepSame
  <2>3. Shown' = Shown /\ Same(pm.mem, pm'.mem, Shown)
    BY <2>1, <2>2 DEF Shown, SameTx, Same, Live
  <2>4. CallInProgress = <<>> /\ CallInProgress' = <<>>
    BY <2>1 DEF CallInProgress
  <2> QED
    BY <2>1, <2>3, <2>4, SeesSame, Quiet
<1>3. CASE RebuildFree
  <2> DEFINE q == TxFree(pm, f.buckets)
             E == Live \cap Entries
  <2>0. pc = "rb_finish" /\ TxEnd(q) /\ ret' = ret /\ pc' = "idle"
    BY <1>3 DEF RebuildFree, Done
  <2>1. PICK rk \in Ranks, N \in SUBSET Entries : PoolOK(rk, N)
    BY <1>1 DEF MapInv
  <2>2. TxOK(pm) /\ f.buckets \in Left(pm) \ {"root", "map"} /\ f.buckets \notin Entries
    BY <1>1, <2>0, <2>1, Names DEF MapInv, PoolOK, ShapeOK, Live
  <2>3. TxOK(q) /\ Left(q) = Live \ {f.buckets} /\ Agree(pm.mem, q.mem, Left(q))
    BY <2>2, FreeTx DEF Live
  <2> HIDE DEF q
  <2>4. /\ Live' = Left(q) /\ Same(q.mem, pm'.mem, Left(q) \cap Entries)
        /\ outer' = outer /\ durable' = IF outer THEN durable ELSE pm'.mem
    BY <2>0, <2>3, SameEnd DEF Live
  <2>5. Left(q) \cap Entries = E
    BY <2>2, <2>3
  <2>6. Same(pm.mem, q.mem, E)
    <3>1. Layout(pm.mem) /\ Left(q) \subseteq Objects(pm.mem)
      BY <2>2, <2>3 DEF TxOK, Live, Left
    <3>2. Same(pm.mem, q.mem, Left(q) \cap Entries)
      BY <2>3, <3>1, SameAgree
    <3> QED
      BY <2>5, <3>2
  <2>7. Shown = E /\ Shown' = E
    BY <2>0, <2>4, <2>5 DEF Shown
  <2>8. Visible' = Visible
    BY <2>4, <2>5, <2>6, <2>7, SeesSame DEF Same
  <2>9. View(durable') = View(durable) /\ CallInProgress' = <<>>
    BY <2>0, <2>4, <2>8, EndSees DEF Settled
  <2>10. CallInProgress = <<>>
    BY <2>0 DEF CallInProgress
  <2> QED
    BY <2>0, <2>4, <2>8, <2>9, <2>10, Quiet
<1> QED
  BY <1>2, <1>3
-----------------------------------------------------------------------------
LEMMA RefinedInit == Init => Map!Init /\ SeesInv
<1> SUFFICES ASSUME Init PROVE Map!Init /\ SeesInv
  OBVIOUS
<1>1. pc = "idle" /\ outer = FALSE /\ ret = Null /\ pm = NoTx(durable)
      /\ durable = [l \in {MapLoc} |-> Null]
  BY DEF Init
<1>2. pm.mem = durable /\ Recovered(pm) = durable
  <2>1. durable = [l \in DOMAIN durable |-> durable[l]]
    BY <1>1
  <2> QED
    BY <1>1, <2>1, NoTxFields, NoTxRecovered
<1>3. View(durable) = {}
  BY <1>1 DEF View, MapExists
<1>4. Visible = View(durable) /\ CallInProgress = <<>>
  BY <1>1, <1>2 DEF Visible, CallInProgress
<1> QED
  BY <1>1, <1>2, <1>3, <1>4 DEF Map!Init, SeesInv, SeenOK, Settled, Walking

LEMMA RefinedNext ==
  MapInv /\ LogInv /\ SeesInv /\ (MapInv /\ LogInv)' /\ [Next]_vars
    => [Map!Next]_(Map!vars) /\ SeesInv'
<1> SUFFICES ASSUME MapInv, LogInv, SeesInv, (MapInv /\ LogInv)', [Next]_vars
             PROVE  [Map!Next]_(Map!vars) /\ SeesInv'
  OBVIOUS
<1>1. Inv /\ Settled /\ SeenOK' /\ Inv'
  BY SeenNext DEF SeesInv, Inv
<1>2. Refined
  <2>1. CASE TxBegin \/ TxCommit \/ Crash \/ (TxAbort /\ outer)
    BY <1>1, <2>1, RefinedTx
  <2>2. CASE TxAbort /\ ~outer
    BY <1>1, <2>2, RefinedAbort
  <2>3. CASE hm_tx_create \/ CreateMap \/ create_hashmap
    BY <1>1, <2>3, RefinedCreate
  <2>4. CASE \/ \E k \in Keys, v \in Vals : hm_tx_insert(k, v)
             \/ \E k \in Keys : hm_tx_remove(k)
             \/ \E n \in RebuildLens : hm_tx_cmd(n)
    BY <1>1, <2>4, RefinedCall
  <2>5. CASE InsertScan \/ InsertLog \/ InsertNew \/ InsertLink \/ InsertEnd
    BY <1>1, <2>5, RefinedInsert
  <2>6. CASE RemoveScan \/ RemoveUnlink \/ RemoveFree
    BY <1>1, <2>6, RefinedRemove
  <2>7. CASE RebuildLog \/ RebuildTake \/ RebuildPush \/ RebuildSwitch \/ RebuildFree
    BY <1>1, <2>7, RefinedRebuild
  <2>8. CASE UNCHANGED vars
    <3>1. Visible' = Visible /\ CallInProgress' = CallInProgress
      BY <2>8 DEF vars, Visible, CallInProgress
    <3> QED
      BY <1>1, <2>8, <3>1, Quiet DEF vars
  <2> QED
    BY <2>1, <2>2, <2>3, <2>4, <2>5, <2>6, <2>7, <2>8 DEF Next, Step
<1> QED
  BY <1>1, <1>2 DEF Refined, SeesInv

(* The map implements TxMap, for every set of keys, any pool, any hash function, all
   thresholds and sizes of arrays: a call changes the set of pairs at once, exactly by
   its pair and its key, or not at all; its result says which; outside a client's
   transaction it is durable when it has returned, inside one with the whole; and neither
   a rebuild nor the way a crash or an abort cut one off is seen by a client. *)
THEOREM HashmapImplementsMap == Spec => ImplementsMap
<1>1. Init => Map!Init /\ SeesInv
  BY RefinedInit
<1>2. MapInv /\ LogInv /\ SeesInv /\ (MapInv /\ LogInv)' /\ [Next]_vars
        => [Map!Next]_(Map!vars) /\ SeesInv'
  BY RefinedNext
<1> QED
  BY <1>1, <1>2, HashmapMapInvariant, HashmapLogInvariant, PTL
     DEF Spec, ImplementsMap, Map!Spec
=============================================================================
