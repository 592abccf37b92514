--------------------------- MODULE PmemobjProofs ----------------------------
(***************************************************************************)
(* The parts of Pmemobj, proved for every value of their constants: the    *)
(* transactional stores for any objects, fields and bytes, PoolAccess for  *)
(* any number of pools, addresses and threads, PoolWalks for any number of *)
(* objects and lists and any number of changes during a loop.              *)
(***************************************************************************)
EXTENDS Pmemobj, PmemTxLemmas, SequenceTheorems, FiniteSetTheorems, WellFoundedInduction
-----------------------------------------------------------------------------
(* TxStores: an abort gives back what was there before, whatever the macros did, and
   whichever of them failed. *)

(* A rollback of q gives back the objects of `before' and, outside U, their values. *)
Kept(q, U) ==
  /\ IsTx(q)
  /\ DOMAIN Recovered(q) = DOMAIN before
  /\ \A l \in DOMAIN before \ U : Recovered(q)[l] = before[l]

SInv == Kept(p, unsaved) /\ (~running => Recovered(p) = p.mem)
-----------------------------------------------------------------------------
(* What leaves a rollback as it is keeps what it keeps. *)
LEMMA KeptSame ==
  ASSUME NEW q, NEW r, NEW U, Kept(q, U), IsTx(r), Recovered(r) = Recovered(q)
  PROVE  Kept(r, U)
  BY DEF Kept

(* Fewer locations are claimed of more exceptions. *)
LEMMA KeptLess ==
  ASSUME NEW q, NEW U, NEW V, Kept(q, U)
  PROVE  Kept(q, U \cup V)
  BY DEF Kept

(* A plain store to l costs at most l, and nothing if it is covered. *)
LEMMA KeptStore ==
  ASSUME NEW q, NEW U, NEW l, NEW v, Kept(q, U), Covered(q, l) \/ l \in U
  PROVE  Kept(Store(q, l, v), U)
<1>0. IsTx(q)
  BY DEF Kept
<1> DEFINE r == Store(q, l, v)
<1>1. IsTx(r) /\ r.undo = q.undo /\ r.fresh = q.fresh
  BY <1>0 DEF IsTx, Store
<1>2. CASE Covered(q, l)
  BY <1>0, <1>1, <1>2, StoreRecovered, KeptSame
<1>3. CASE l \in U
  <2>1. DOMAIN r.mem = DOMAIN q.mem /\ r.undo = q.undo /\ r.fresh = q.fresh
    BY <1>0, <1>1, StoreDomain
  <2>2. \A x \in DOMAIN q.mem : x # l => r.mem[x] = q.mem[x]
    BY <1>0, <1>1, StoreDomain
  <2>3. DOMAIN Recovered(r) = DOMAIN Recovered(q)
    BY <2>1 DEF Recovered, LocsOf
  <2>4. \A x \in DOMAIN Recovered(q) : x # l => Recovered(r)[x] = Recovered(q)[x]
    BY <2>1, <2>2 DEF Recovered, LocsOf
  <2> HIDE DEF r
  <2>5. Kept(r, U)
    BY <1>1, <1>3, <2>3, <2>4 DEF Kept
  <2> QED
    BY <2>5 DEF r
<1> QED
  BY <1>2, <1>3

(* So does a store of the macros to L, whose locations are where they were. *)
LEMMA KeptWritten ==
  ASSUME NEW q, NEW U, NEW L, NEW v, Kept(q, U),
         \A l \in L : Covered(q, l) \/ l \in U
  PROVE  Kept(Written(q, L, v), U)
<1> DEFINE r == Written(q, L, v)
<1> DEFINE m == [l \in DOMAIN q.mem |-> IF l \in L THEN v[l] ELSE q.mem[l]]
<1>1. IsTx(q)
  BY DEF Kept
<1>2. r = [q EXCEPT !.mem = m]
  BY DEF Written
<1>3. /\ IsTx(r) /\ r.mem = m
      /\ r.undo = q.undo /\ r.fresh = q.fresh /\ r.doomed = q.doomed
  <2> HIDE DEF m, r
  <2> QED
    BY <1>1, <1>2 DEF IsTx
<1> HIDE DEF r
<1>4. DOMAIN r.mem = DOMAIN q.mem /\ \A l \in DOMAIN q.mem \ L : r.mem[l] = q.mem[l]
  BY <1>3
<1>5. DOMAIN Recovered(r) = DOMAIN Recovered(q)
  BY <1>3, <1>4 DEF Recovered, LocsOf
<1>6. ASSUME NEW l \in DOMAIN Recovered(q), l \notin U
      PROVE  Recovered(r)[l] = Recovered(q)[l]
  <2>1. l \in DOMAIN q.mem /\ l[1] \notin q.fresh
    BY DEF Recovered, LocsOf
  <2>2. l \in DOMAIN q.undo \/ l \notin L
    BY <1>6, <2>1 DEF Covered
  <2> QED
    BY <1>3, <1>4, <2>1, <2>2 DEF Recovered, LocsOf
<1>7. Kept(r, U)
  BY <1>3, <1>5, <1>6 DEF Kept
<1> QED
  BY <1>7 DEF r

(* A snapshot costs nothing. *)
LEMMA KeptAdd ==
  ASSUME NEW q, NEW U, NEW L, Kept(q, U)
  PROVE  Kept(TxAdd(q, L), U) /\ \A l \in L : Covered(TxAdd(q, L), l)
<1>1. IsTx(q)
  BY DEF Kept
<1>2. Kept(TxAdd(q, L), U)
  BY <1>1, TxAddFields, TxAddRecovered, KeptSame
<1> QED
  BY <1>1, <1>2, TxAddFields DEF Covered

(* Nor does an object that was not there. *)
LEMMA KeptAlloc ==
  ASSUME NEW q, NEW U, NEW o, NEW c, Kept(q, U),
         o \notin Objects(q.mem), \A l \in DOMAIN c : l[1] = o
  PROVE  Kept(TxAlloc(q, o, c), U)
<1>1. IsTx(q)
  BY DEF Kept
<1> QED
  BY <1>1, TxAllocFields, TxAllocRecovered, KeptSame

(* Nor a free. *)
LEMMA KeptFree ==
  ASSUME NEW q, NEW U, NEW o, Kept(q, U)
  PROVE  Kept(TxFree(q, o), U)
<1>1. IsTx(q)
  BY DEF Kept
<1> QED
  BY <1>1, TxFreeRecovered, KeptSame

(* The locations of an object lie in it. *)
LEMMA AtObject ==
  ASSUME NEW o, NEW F
  PROVE  \A l \in At(o, F) : l[1] = o
  BY DEF At
-----------------------------------------------------------------------------
(* Before the first transaction there is nothing to give back. *)
LEMMA StoresInit == Init => SInv
<1> SUFFICES ASSUME Init PROVE SInv
  OBVIOUS
<1>1. PICK O \in SUBSET Oids : \E m \in [O \X Fields -> Bytes] : p = NoTx(m) /\ before = m
  BY DEF Init
<1> PICK m \in [O \X Fields -> Bytes] : p = NoTx(m) /\ before = m
  BY <1>1
<1>2. unsaved = {} /\ running = FALSE
  BY DEF Init
<1>3. Recovered(NoTx(m)) = m
  <2>1. m = [l \in O \X Fields |-> m[l]]
    OBVIOUS
  <2> QED
    BY <2>1, NoTxRecovered
<1> QED
  BY <1>2, <1>3, NoTxFields DEF SInv, Kept

(* A call that succeeds, or fails and returns, with a memory that keeps its promise. *)
LEMMA GoesStep ==
  ASSUME SInv, NEW q, Goes(q), Kept(q, unsaved')
  PROVE  SInv'
<1>1. p' = q /\ before' = before /\ running /\ running' = running
  BY DEF Goes
<1> QED
  BY <1>1 DEF SInv, Kept

(* An abort, which the macros may cause themselves. *)
LEMMA AbortStep ==
  ASSUME SInv, p' = Rollback(p), before' = before, unsaved' = unsaved
  PROVE  SInv'
<1>1. IsTx(Rollback(p)) /\ Recovered(Rollback(p)) = Recovered(p)
  BY RollbackRecovered
<1>2. Rollback(p).mem = Recovered(p)
  BY NoTxFields DEF Rollback
<1>3. Kept(Rollback(p), unsaved)
  BY <1>1, KeptSame DEF SInv
<1>4. Kept(p, unsaved)'
  BY <1>3 DEF Kept
<1> QED
  BY <1>1, <1>2, <1>4 DEF SInv

(* A function that fails and aborts. *)
LEMMA FailsAbortingStep ==
  ASSUME SInv, NEW flags, FailsAborting(flags)
  PROVE  SInv'
  BY AbortStep DEF FailsAborting

(* Snapshots, taken, refused or waived. *)
LEMMA AddStep ==
  ASSUME SInv, NEW L, NEW flags, TX_XADD(L, flags)
  PROVE  SInv'
<1>1. Kept(p, unsaved)
  BY DEF SInv
<1>2. CASE Goes(Snapshotted(L, flags)) /\ unsaved' = unsaved \cup Skipped(L, flags)
  <2>1. Kept(Snapshotted(L, flags), unsaved)
    BY <1>1, KeptAdd DEF Snapshotted
  <2>2. Kept(Snapshotted(L, flags), unsaved')
    BY <1>2, <2>1, KeptLess
  <2> QED
    BY <1>2, <2>2, GoesStep
<1>3. CASE FailsReturning(flags, p) /\ UNCHANGED unsaved
  BY <1>1, <1>3, GoesStep DEF FailsReturning
<1>4. CASE FailsAborting(flags)
  BY <1>4, FailsAbortingStep
<1> QED
  BY <1>2, <1>3, <1>4 DEF TX_XADD, pmemobj_tx_xadd_range

(* The macros that store whatever their snapshot returned. *)
LEMMA AddAndStoreStep ==
  ASSUME SInv, NEW L, NEW v, AddAndStore(L, v)
  PROVE  SInv'
<1>1. Kept(p, unsaved)
  BY DEF SInv
<1>2. CASE Goes(Written(TxAdd(p, L), L, v)) /\ UNCHANGED unsaved
  <2>1. Kept(TxAdd(p, L), unsaved) /\ \A l \in L : Covered(TxAdd(p, L), l)
    BY <1>1, KeptAdd
  <2>2. Kept(Written(TxAdd(p, L), L, v), unsaved)
    BY <2>1, KeptWritten
  <2> QED
    BY <1>2, <2>2, GoesStep
<1>3. CASE FailsReturning({}, Written(p, L, v)) /\ unsaved' = unsaved \cup L
  <2>1. Kept(p, unsaved \cup L)
    BY <1>1, KeptLess
  <2>2. Kept(Written(p, L, v), unsaved \cup L)
    BY <2>1, KeptWritten
  <2> QED
    BY <1>3, <2>2, GoesStep DEF FailsReturning
<1>4. CASE FailsAborting({})
  BY <1>4, FailsAbortingStep
<1> QED
  BY <1>2, <1>3, <1>4 DEF AddAndStore

(* A plain store to what was added, or is new. *)
LEMMA AssignStep ==
  ASSUME SInv, NEW o, NEW f, NEW v, Assign(o, f, v)
  PROVE  SInv'
<1>1. Kept(p, unsaved)
  BY DEF SInv
<1>2. /\ Goes(Store(p, <<o, f>>, v)) /\ unsaved' = unsaved
      /\ <<o, f>> \in DOMAIN p.undo \cup unsaved \/ o \in p.fresh
  BY DEF Assign
<1>3. Covered(p, <<o, f>>) \/ <<o, f>> \in unsaved
  BY <1>2 DEF Covered
<1>4. Kept(Store(p, <<o, f>>, v), unsaved)
  BY <1>1, <1>3, KeptStore
<1> QED
  BY <1>2, <1>4, GoesStep

(* Allocations with any contents. *)
LEMMA AllocStep ==
  ASSUME SInv, NEW o, NEW c, NEW flags, \A l \in DOMAIN c : l[1] = o,
         pmemobj_tx_xalloc(o, c, flags)
  PROVE  SInv'
<1>1. Kept(p, unsaved)
  BY DEF SInv
<1>2. o \notin Objects(p.mem) /\ unsaved' = unsaved
  BY DEF pmemobj_tx_xalloc
<1>3. Kept(TxAlloc(p, o, c), unsaved)
  BY <1>1, <1>2, KeptAlloc
<1>4. CASE Goes(TxAlloc(p, o, c))
  BY <1>2, <1>3, <1>4, GoesStep
<1>5. CASE FailsReturning(flags, p)
  BY <1>1, <1>2, <1>5, GoesStep DEF FailsReturning
<1>6. CASE FailsAborting(flags)
  BY <1>6, FailsAbortingStep
<1> QED
  BY <1>4, <1>5, <1>6 DEF pmemobj_tx_xalloc

(* A move: an allocation and a free in one. *)
LEMMA ReallocStep ==
  ASSUME SInv, NEW o, NEW new, TX_REALLOC(o, new)
  PROVE  SInv'
<1>1. Kept(p, unsaved)
  BY DEF SInv
<1>2. new \notin Objects(p.mem) /\ unsaved' = unsaved
  BY DEF TX_REALLOC, pmemobj_tx_realloc
<1> DEFINE c == [l \in At(new, Fields) |-> p.mem[<<o, l[2]>>]]
<1>3. \A l \in DOMAIN c : l[1] = new
  BY AtObject
<1>4. Moved(o, new) = TxFree(TxAlloc(p, new, c), o)
  BY DEF Moved
<1> HIDE DEF c
<1>5. Kept(TxAlloc(p, new, c), unsaved)
  BY <1>1, <1>2, <1>3, KeptAlloc
<1>6. Kept(Moved(o, new), unsaved)
  BY <1>4, <1>5, KeptFree
<1>7. CASE Goes(Moved(o, new))
  BY <1>2, <1>6, <1>7, GoesStep
<1>8. CASE FailsReturning({}, p)
  BY <1>1, <1>2, <1>8, GoesStep DEF FailsReturning
<1>9. CASE FailsAborting({})
  BY <1>9, FailsAbortingStep
<1> QED
  BY <1>7, <1>8, <1>9 DEF TX_REALLOC, pmemobj_tx_realloc

(* A free. *)
LEMMA FreeStep ==
  ASSUME SInv, NEW o, NEW flags, TX_XFREE(o, flags)
  PROVE  SInv'
<1>1. Kept(p, unsaved) /\ Kept(TxFree(p, o), unsaved)
  BY KeptFree DEF SInv
<1>2. unsaved' = unsaved
  BY DEF TX_XFREE, pmemobj_tx_xfree
<1>3. CASE Goes(TxFree(p, o))
  BY <1>1, <1>2, <1>3, GoesStep
<1>4. CASE FailsReturning(flags, p)
  BY <1>1, <1>2, <1>4, GoesStep DEF FailsReturning
<1>5. CASE FailsAborting(flags)
  BY <1>5, FailsAbortingStep
<1> QED
  BY <1>3, <1>4, <1>5 DEF TX_XFREE, pmemobj_tx_xfree

(* The beginning: nothing to give back but the memory as it is. *)
LEMMA BeginStep ==
  ASSUME SInv, Begin
  PROVE  SInv'
<1>1. /\ ~running /\ running' /\ p' = p /\ before' = p.mem /\ unsaved' = {}
  BY DEF Begin
<1>2. IsTx(p) /\ Recovered(p) = p.mem
  BY <1>1 DEF SInv, Kept
<1> QED
  BY <1>1, <1>2 DEF SInv, Kept

(* A commit makes the memory what later aborts give back. *)
LEMMA CommitStep ==
  ASSUME SInv, pmemobj_tx_commit
  PROVE  SInv'
<1>1. p' = Commit(p) /\ before' = p'.mem /\ unsaved' = {}
  BY DEF pmemobj_tx_commit
<1>2. Recovered(Commit(p)) = Commit(p).mem /\ IsTx(Commit(p))
  BY CommitRecovered
<1> QED
  BY <1>1, <1>2 DEF SInv, Kept

(* The steps that touch objects in use. *)
UsingStep ==
  \E o \in Usable :
       \/ \E F \in {{f} : f \in Fields} \cup {Fields} :
            \/ \E flags \in SUBSET POBJ_XADD_FLAGS : TX_XADD(At(o, F), flags)
            \/ \E c \in Bytes : TX_MEMSET(o, c, F)
            \/ \E src \in Usable \ {o} : TX_MEMCPY(o, src, F)
       \/ \E f \in Fields, v \in Bytes : TX_SET(o, f, v) \/ Assign(o, f, v)
       \/ \E new \in Oids : TX_REALLOC(o, new)
       \/ \E flags \in SUBSET POBJ_XFREE_FLAGS : TX_XFREE(o, flags)

(* The steps that make new ones. *)
AllocatingStep ==
  \E o \in Oids :
       \/ TX_ZALLOC(o)
       \/ \E flags \in SUBSET POBJ_XALLOC_FLAGS :
            \/ TX_XALLOC(o, flags)
            \/ \E s \in [Fields -> Bytes] : TX_XSTRDUP(o, s, flags)

(* Every macro keeps the promise for objects in use. *)
LEMMA UsingStepKeeps ==
  ASSUME SInv, UsingStep
  PROVE  SInv'
<1>1. PICK o \in Usable :
        \/ \E F, flags : TX_XADD(At(o, F), flags)
        \/ \E F, c : TX_MEMSET(o, c, F)
        \/ \E F, src : TX_MEMCPY(o, src, F)
        \/ \E f, v : TX_SET(o, f, v)
        \/ \E f, v : Assign(o, f, v)
        \/ \E new : TX_REALLOC(o, new)
        \/ \E flags : TX_XFREE(o, flags)
  BY DEF UsingStep
<1>2. ASSUME NEW F, NEW flags, TX_XADD(At(o, F), flags)
      PROVE  SInv'
  BY <1>2, AddStep
<1>3. ASSUME NEW F, NEW c, TX_MEMSET(o, c, F)
      PROVE  SInv'
  BY <1>3, AddAndStoreStep DEF TX_MEMSET
<1>4. ASSUME NEW F, NEW src, TX_MEMCPY(o, src, F)
      PROVE  SInv'
  BY <1>4, AddAndStoreStep DEF TX_MEMCPY
<1>5. ASSUME NEW f, NEW v, TX_SET(o, f, v)
      PROVE  SInv'
  BY <1>5, AddAndStoreStep DEF TX_SET
<1>6. ASSUME NEW f, NEW v, Assign(o, f, v)
      PROVE  SInv'
  BY <1>6, AssignStep
<1>7. ASSUME NEW new, TX_REALLOC(o, new)
      PROVE  SInv'
  BY <1>7, ReallocStep
<1>8. ASSUME NEW flags, TX_XFREE(o, flags)
      PROVE  SInv'
  BY <1>8, FreeStep
<1> QED
  BY <1>1, <1>2, <1>3, <1>4, <1>5, <1>6, <1>7, <1>8

(* And for new ones. *)
LEMMA AllocatingStepKeeps ==
  ASSUME SInv, AllocatingStep
  PROVE  SInv'
<1>1. PICK o \in Oids :
        \/ TX_ZALLOC(o)
        \/ \E flags : TX_XALLOC(o, flags)
        \/ \E flags, s : TX_XSTRDUP(o, s, flags)
  BY DEF AllocatingStep
<1>2. CASE TX_ZALLOC(o)
  <2> DEFINE c == [l \in At(o, Fields) |-> 0]
  <2>1. \A l \in DOMAIN c : l[1] = o
    BY AtObject
  <2>2. pmemobj_tx_xalloc(o, c, {})
    BY <1>2 DEF TX_ZALLOC
  <2> QED
    BY <2>1, <2>2, AllocStep
<1>3. ASSUME NEW flags, TX_XALLOC(o, flags)
      PROVE  SInv'
  <2>1. PICK garbage \in [At(o, Fields) -> Bytes] : pmemobj_tx_xalloc(o, garbage, flags)
    BY <1>3 DEF TX_XALLOC
  <2>2. \A l \in DOMAIN garbage : l[1] = o
    BY AtObject
  <2> QED
    BY <2>1, <2>2, AllocStep
<1>4. ASSUME NEW flags, NEW s, TX_XSTRDUP(o, s, flags)
      PROVE  SInv'
  <2> DEFINE c == [l \in At(o, Fields) |-> s[l[2]]]
  <2>1. \A l \in DOMAIN c : l[1] = o
    BY AtObject
  <2>2. pmemobj_tx_xalloc(o, c, flags)
    BY <1>4 DEF TX_XSTRDUP
  <2> QED
    BY <2>1, <2>2, AllocStep
<1> QED
  BY <1>1, <1>2, <1>3, <1>4

(* SInv is inductive. *)
LEMMA StoresNext == SInv /\ [Next]_vars => SInv'
<1> SUFFICES ASSUME SInv, [Next]_vars PROVE SInv'
  OBVIOUS
<1>1. CASE Begin
  BY <1>1, BeginStep
<1>2. CASE pmemobj_tx_commit
  BY <1>2, CommitStep
<1>3. CASE pmemobj_tx_abort
  BY <1>3, AbortStep DEF pmemobj_tx_abort
<1>4. ASSUME NEW b \in {"ABORT", "RETURN"}, pmemobj_tx_set_failure_behavior(b)
      PROVE  SInv'
  BY <1>4 DEF pmemobj_tx_set_failure_behavior, SInv, Kept
<1>5. CASE UsingStep
  BY <1>5, UsingStepKeeps
<1>6. CASE AllocatingStep
  BY <1>6, AllocatingStepKeeps
<1>7. CASE UNCHANGED vars
  BY <1>7 DEF vars, SInv, Kept
<1> QED
  BY <1>1, <1>2, <1>3, <1>4, <1>5, <1>6, <1>7 DEF Next, UsingStep, AllocatingStep

(* It is what StoresRollBack says. *)
LEMMA StoresHold == SInv => StoresRollBack
  BY DEF SInv, Kept, StoresRollBack

(* StoresRollBack of TxStores: in every state, also in the middle of a transaction, an
   abort would give back the objects of its beginning, and their values but where a macro
   stored without the snapshot it had asked for. *)
THEOREM StoresGiveBack == Spec => []StoresRollBack
  BY StoresInit, StoresNext, StoresHold, PTL DEF Spec
-----------------------------------------------------------------------------
(* PoolAccess. *)

(* A cache that is up to date and names a pool has its base, and that pool is not
   being closed; except while its thread has recorded the counter and not yet
   looked the pool up. *)
Current(t) ==
  (calls[t].pc # "lookup" /\ pcache[t].invalidate = invalidate /\ pcache[t].uuid_lo # Null)
    => pcache[t].uuid_lo # closing /\ base[pcache[t].uuid_lo] = pcache[t].pop

(* The pool of a running call is one that is not being closed. *)
Called(t) == calls[t].pc # "idle" => calls[t].uuid \in Pools /\ calls[t].uuid # closing

AInv ==
  /\ A!TypeOK
  /\ \A t \in Threads : pcache[t].invalidate <= invalidate /\ Current(t) /\ Called(t)
-----------------------------------------------------------------------------
LEMMA AccessInit == A!Init => AInv
  BY AccessAssumption DEF A!Init, AInv, A!TypeOK, Current, Called, A!NoCall, A!At, A!ZeroCache

(* Opening a pool makes no cache wrong: one that names it would have a base for it. *)
LEMMA OpenStep ==
  ASSUME AInv, NEW q \in Pools, A!Open(q)
  PROVE  AInv'
<1>1. PICK b \in Bases : base' = [base EXCEPT ![q] = b]
  BY DEF A!Open
<1>2. UNCHANGED <<closing, invalidate, pcache, calls, result>> /\ base[q] = Null
  BY DEF A!Open
<1>3. A!TypeOK'
  BY <1>1, <1>2 DEF AInv, A!TypeOK
<1>4. ASSUME NEW t \in Threads
      PROVE  (pcache[t].invalidate <= invalidate /\ Current(t) /\ Called(t))'
  <2>1. pcache[t].invalidate <= invalidate /\ Current(t) /\ Called(t)
    BY DEF AInv
  <2>2. pcache[t].uuid_lo # Null =>
          pcache[t].uuid_lo \in Pools /\ pcache[t].pop # Null
    BY DEF AInv, A!TypeOK
  <2>3. base \in [Pools -> Bases \cup {Null}]
    BY DEF AInv, A!TypeOK
  <2> QED
    BY <1>1, <1>2, <2>1, <2>2, <2>3 DEF Current, Called
<1> QED
  BY <1>3, <1>4 DEF AInv

(* From the moment a pool is being closed all caches are out of date. *)
LEMMA CloseStep ==
  ASSUME AInv, NEW q \in Pools, A!Close(q)
  PROVE  AInv'
<1>1. /\ closing' = q /\ invalidate' = invalidate + 1 /\ invalidate < MaxCloses
      /\ UNCHANGED <<base, pcache, calls, result>> /\ ~A!InUse(q)
  BY DEF A!Close
<1>2. invalidate \in 0 .. MaxCloses /\ MaxCloses \in Nat
  BY AccessAssumption DEF AInv, A!TypeOK
<1>3. invalidate + 1 \in 0 .. MaxCloses
  BY <1>1, <1>2
<1>4. A!TypeOK'
  BY <1>1, <1>3 DEF AInv, A!TypeOK
<1>5. ASSUME NEW t \in Threads
      PROVE  (pcache[t].invalidate <= invalidate /\ Current(t) /\ Called(t))'
  <2>1. pcache[t].invalidate \in Nat /\ pcache[t].invalidate <= invalidate /\ Called(t)
    BY DEF AInv, A!TypeOK
  <2>2. pcache'[t].invalidate < invalidate'
    BY <1>1, <1>2, <2>1
  <2>3. Current(t)' /\ (pcache[t].invalidate <= invalidate)'
    BY <1>1, <1>2, <2>1, <2>2 DEF Current
  <2>4. Called(t)'
    BY <1>1, <2>1 DEF Called, A!InUse
  <2> QED
    BY <2>3, <2>4
<1> QED
  BY <1>4, <1>5 DEF AInv

LEMMA ClosedStep ==
  ASSUME AInv, A!Closed
  PROVE  AInv'
<1>1. /\ closing # Null /\ base' = [base EXCEPT ![closing] = Null] /\ closing' = Null
      /\ UNCHANGED <<invalidate, pcache, calls, result>>
  BY DEF A!Closed
<1>2. closing \in Pools /\ base \in [Pools -> Bases \cup {Null}]
  BY <1>1 DEF AInv, A!TypeOK
<1>3. A!TypeOK'
  BY <1>1, <1>2 DEF AInv, A!TypeOK
<1>4. ASSUME NEW t \in Threads
      PROVE  (pcache[t].invalidate <= invalidate /\ Current(t) /\ Called(t))'
  <2>1. pcache[t].invalidate <= invalidate /\ Current(t) /\ Called(t)
    BY DEF AInv
  <2>2. pcache[t].uuid_lo # Null => pcache[t].uuid_lo \in Pools
    BY DEF AInv, A!TypeOK
  <2> QED
    BY <1>1, <1>2, <2>1, <2>2, AccessAssumption DEF Current, Called
<1> QED
  BY <1>3, <1>4 DEF AInv

(* The steps of thread t leave everything but its own cache and call alone. *)
LEMMA CallStep ==
  ASSUME AInv, NEW t \in Threads,
         A!DirectNull(t) \/ A!Compare(t) \/ A!Record(t) \/ A!Lookup(t) \/ \E q \in Pools : A!DirectOf(t, q)
  PROVE  AInv'
<1>1. /\ UNCHANGED <<base, closing, invalidate>>
      /\ \A u \in Threads : u # t => calls'[u] = calls[u] /\ pcache'[u] = pcache[u]
  BY DEF A!DirectNull, A!DirectOf, A!Compare, A!Record, A!Lookup, A!Return, AInv, A!TypeOK
<1>2. /\ A!TypeOK /\ Current(t) /\ Called(t) /\ pcache[t].invalidate <= invalidate
      /\ invalidate \in 0 .. MaxCloses /\ invalidate <= invalidate
  BY AccessAssumption DEF AInv, A!TypeOK
<1> DEFINE Own ==
      /\ A!TypeOK'
      /\ (pcache[t].invalidate <= invalidate /\ Current(t) /\ Called(t))'
<1>3. ASSUME A!DirectNull(t) PROVE Own
  <2>1. UNCHANGED <<base, closing, invalidate, pcache>>
        /\ calls' = [calls EXCEPT ![t] = A!NoCall] /\ calls[t].pc = "idle"
        /\ result' = [result EXCEPT ![t] = Null]
    BY <1>3 DEF A!DirectNull, A!Return
  <2>2. A!TypeOK'
    BY <1>2, <2>1 DEF A!TypeOK, A!NoCall, A!At
  <2>3. calls'[t] = A!NoCall
    BY <1>2, <2>1 DEF A!TypeOK
  <2> QED
    BY <1>2, <2>1, <2>2, <2>3 DEF Current, Called, A!NoCall, A!At
<1>4. ASSUME NEW q \in Pools, A!DirectOf(t, q) PROVE Own
  <2>1. UNCHANGED <<base, closing, invalidate, pcache, result>> /\ q # closing /\ calls[t].pc = "idle"
        /\ calls' = [calls EXCEPT ![t] = A!At("compare", q)]
    BY <1>4 DEF A!DirectOf
  <2>2. A!TypeOK'
    BY <1>2, <2>1 DEF A!TypeOK, A!At
  <2>3. calls'[t] = A!At("compare", q)
    BY <1>2, <2>1 DEF A!TypeOK, A!At
  <2> QED
    BY <1>2, <2>1, <2>2, <2>3 DEF Current, Called, A!At
<1>5. ASSUME A!Compare(t) PROVE Own
  <2>1. UNCHANGED <<base, closing, invalidate, pcache>> /\ calls[t].pc = "compare"
        /\ \/ calls' = [calls EXCEPT ![t] = A!NoCall] /\ result' = [result EXCEPT ![t] = pcache[t].pop]
           \/ calls' = [calls EXCEPT ![t] = A!At("record", calls[t].uuid)] /\ result' = result
    BY <1>5 DEF A!Compare, A!Return
  <2>2. A!TypeOK'
    <3>1. pcache[t].pop \in Bases \cup {Null}
          /\ calls[t].uuid \in Pools \cup {Null}
      BY <1>2 DEF A!TypeOK
    <3>2. CASE calls' = [calls EXCEPT ![t] = A!NoCall] /\ result' = [result EXCEPT ![t] = pcache[t].pop]
      BY <1>2, <2>1, <3>1, <3>2 DEF A!TypeOK, A!NoCall, A!At
    <3>3. CASE calls' = [calls EXCEPT ![t] = A!At("record", calls[t].uuid)] /\ result' = result
      BY <1>2, <2>1, <3>1, <3>3 DEF A!TypeOK, A!At
    <3> QED
      BY <2>1, <3>2, <3>3
  <2>3. calls'[t].pc # "lookup" /\ (calls'[t].pc = "idle" \/ calls'[t].uuid = calls[t].uuid)
    BY <1>2, <2>1 DEF A!TypeOK, A!NoCall, A!At
  <2> QED
    BY <1>2, <2>1, <2>2, <2>3 DEF Current, Called
<1>6. ASSUME A!Record(t) PROVE Own
  <2>1. UNCHANGED <<base, closing, invalidate, result>> /\ calls[t].pc = "record"
        /\ pcache' = [pcache EXCEPT ![t] = A!Recorded(pcache[t])]
        /\ calls' = [calls EXCEPT ![t] = A!At("lookup", calls[t].uuid)]
    BY <1>6 DEF A!Record
  <2>2. A!TypeOK'
    BY <1>2, <2>1 DEF A!TypeOK, A!At, A!Recorded
  <2>3. pcache'[t].invalidate = invalidate /\ calls'[t].pc = "lookup"
        /\ calls'[t].uuid = calls[t].uuid
    BY <1>2, <2>1 DEF A!TypeOK, A!At, A!Recorded
  <2> QED
    BY <1>2, <2>1, <2>2, <2>3 DEF Current, Called
<1>7. ASSUME A!Lookup(t) PROVE Own
  <2> DEFINE uuid == calls[t].uuid
             new == A!LookedUp(pcache[t], uuid)
  <2>1. UNCHANGED <<base, closing, invalidate>> /\ calls[t].pc = "lookup"
        /\ pcache' = [pcache EXCEPT ![t] = new] /\ calls' = [calls EXCEPT ![t] = A!NoCall]
        /\ result' = [result EXCEPT ![t] = base[uuid]]
    BY <1>7 DEF A!Lookup, A!Return
  <2>2. uuid \in Pools /\ uuid # closing
    BY <1>2, <2>1 DEF Called
  <2>3. /\ new = [pop |-> base[uuid], uuid_lo |-> IF base[uuid] = Null THEN Null ELSE uuid,
                  invalidate |-> pcache[t].invalidate]
        /\ base[uuid] \in Bases \cup {Null}
    BY <1>2, <2>2 DEF A!LookedUp, A!TypeOK
  <2>4. pcache'[t] = new /\ calls'[t] = A!NoCall
    BY <1>2, <2>1 DEF A!TypeOK
  <2> HIDE DEF new, uuid
  <2>5. A!TypeOK'
    <3>1. pcache' \in [Threads -> [pop : Bases \cup {Null}, uuid_lo : Pools \cup {Null},
                                   invalidate : 0 .. MaxCloses]]
      BY <1>2, <2>1, <2>2, <2>3 DEF A!TypeOK
    <3>2. \A u \in Threads : pcache'[u].uuid_lo # Null => pcache'[u].pop # Null
      BY <1>1, <1>2, <2>3, <2>4 DEF A!TypeOK
    <3> QED
      BY <1>2, <2>1, <2>3, <3>1, <3>2 DEF A!TypeOK, A!NoCall, A!At
  <2> QED
    BY <1>2, <2>1, <2>2, <2>3, <2>4, <2>5 DEF Current, Called, A!NoCall, A!At
<1>8. Own
  BY <1>3, <1>4, <1>5, <1>6, <1>7
<1>9. ASSUME NEW u \in Threads, u # t
      PROVE  (pcache[u].invalidate <= invalidate /\ Current(u) /\ Called(u))'
  BY <1>1, <1>9 DEF AInv, Current, Called
<1> QED
  BY <1>8, <1>9 DEF AInv
-----------------------------------------------------------------------------
(* AInv is inductive, through any number of closes, opens and restarts. *)
THEOREM AccessInvariant == A!Spec => []AInv
<1>1. AInv /\ [A!Next]_A!vars => AInv'
  <2> SUFFICES ASSUME AInv, [A!Next]_A!vars PROVE AInv'
    OBVIOUS
  <2>1. CASE A!Restart
    BY <2>1, AccessAssumption DEF A!Restart, AInv, A!TypeOK, Current, Called, A!NoCall, A!At, A!ZeroCache
  <2>2. CASE UNCHANGED A!vars
    BY <2>2 DEF A!vars, AInv, A!TypeOK, Current, Called
  <2> QED
    BY <2>1, <2>2, OpenStep, CloseStep, ClosedStep, CallStep DEF A!Next
<1> QED
  BY <1>1, AccessInit, PTL DEF A!Spec

(* TypeOK: a cache that names a pool has a base for it. *)
THEOREM AccessTypeCorrect == A!Spec => []A!TypeOK
<1>1. AInv => A!TypeOK
  BY DEF AInv
<1> QED
  BY <1>1, AccessInvariant, PTL

(* DirectIsCurrent for every number of threads and pools: pmemobj_direct never gives
   an address of a mapping that is gone, whatever other threads close meanwhile. *)
THEOREM AccessDirectIsCurrent == A!Spec => A!DirectIsCurrent
<1> DEFINE Answers(t) ==
      (A!Compare(t) \/ A!Lookup(t)) /\ calls'[t] = A!NoCall => result'[t] = base[calls[t].uuid]
<1>1. AInv /\ [A!Next]_A!vars => [\A t \in Threads : Answers(t)]_A!vars
  <2> SUFFICES ASSUME AInv, NEW t \in Threads, A!Compare(t) \/ A!Lookup(t), calls'[t] = A!NoCall
               PROVE  result'[t] = base[calls[t].uuid] \/ UNCHANGED A!vars
    OBVIOUS
  <2>1. CASE A!Lookup(t)
    <3>1. result' = [result EXCEPT ![t] = base[calls[t].uuid]]
      BY <2>1 DEF A!Lookup, A!Return
    <3> QED
      BY <3>1 DEF AInv, A!TypeOK
  <2>2. CASE A!Compare(t)
    <3>1. A!TypeOK /\ Current(t) /\ Called(t) /\ calls[t].pc = "compare"
      BY <2>2 DEF AInv, A!Compare
    <3>2. CASE A!Stale(pcache[t], calls[t].uuid)
      <4>1. calls' = [calls EXCEPT ![t] = A!At("record", calls[t].uuid)]
        BY <2>2, <3>2 DEF A!Compare
      <4>2. calls'[t].pc = "record"
        BY <3>1, <4>1 DEF A!TypeOK, A!At
      <4> QED
        BY <4>2 DEF A!NoCall, A!At
    <3>3. CASE ~A!Stale(pcache[t], calls[t].uuid)
      <4>1. result' = [result EXCEPT ![t] = pcache[t].pop]
        BY <2>2, <3>3 DEF A!Compare, A!Return
      <4>2. pcache[t].invalidate = invalidate /\ pcache[t].uuid_lo = calls[t].uuid
        BY <3>3 DEF A!Stale
      <4>3. pcache[t].pop = base[calls[t].uuid]
        BY <3>1, <4>2, AccessAssumption DEF Current, Called
      <4> QED
        BY <3>1, <4>1, <4>3 DEF A!TypeOK
    <3> QED
      BY <3>2, <3>3
  <2> QED
    BY <2>1, <2>2
<1> QED
  BY <1>1, AccessInvariant, PTL DEF A!Spec, A!DirectIsCurrent
-----------------------------------------------------------------------------
(* PoolWalks: every loop visits what belongs to it once, whatever its body does.

   An object is in one place of one list at most. *)
ListsOK(ls) ==
  /\ ls \in [Heads -> Seq(Objs)]
  /\ \A g, h \in Heads : \A i \in DOMAIN ls[g], j \in DOMAIN ls[h] :
       ls[g][i] = ls[h][j] => g = h /\ i = j

Precedes(s, a, b) == \E i, j \in DOMAIN s : i <= j /\ s[i] = a /\ s[j] = b

(* Those of `stayed' that the loop has passed. *)
Passed ==
  CASE loop = "none"                      -> stayed
    [] loop \in W!SafeLoops               -> {o \in stayed : nvar = 0 \/ o < nvar}
    [] loop = "POBJ_LIST_FOREACH"         -> {o \in stayed : Precedes(lists[of], o, var)}
    [] loop = "POBJ_LIST_FOREACH_REVERSE" -> {o \in stayed : Precedes(lists[of], var, o)}
    [] OTHER                              -> {o \in stayed : o <= var}

NumbersTell ==
  number \in [Types -> Nat] /\ \A t, u \in Types : number[t] = number[u] => t = u

PoolOK ==
  /\ NumbersTell
  /\ typeOf \in [Objs -> Types \cup {"free"}]
  /\ ListsOK(lists) /\ \A h \in Heads : W!ToSet(lists[h]) \subseteq W!Live

(* What a loop goes on from is there, and belongs to it where the step needs that. *)
LoopOK ==
  /\ loop \in W!WholeLoops \cup W!TypeLoops \cup W!ListLoops \cup {"none"}
  /\ loop \in W!TypeLoops => of \in Types
  /\ loop \in W!ListLoops => of \in Heads
  /\ loop \in W!SafeLoops => nvar \in W!Live \cup {0}
  /\ loop \notin W!SafeLoops \cup {"none"} => var \in W!Live
  /\ loop \in W!ListLoops \cup {"POBJ_NEXT"} => var \in W!Belonging(loop, of)
  /\ loop # "none" => stayed \subseteq W!Belonging(loop, of)

WalkInv == PoolOK /\ LoopOK /\ ~wrong /\ seen = Passed
-----------------------------------------------------------------------------
(* Sequences without repetition, and the order of what is in them. *)

Inj(s) == \A i, j \in DOMAIN s : s[i] = s[j] => i = j

KeepsOrder(s, t) ==
  \A a, b \in W!ToSet(s) \cap W!ToSet(t) : Precedes(s, a, b) <=> Precedes(t, a, b)

LEMMA PrecedesAt ==
  ASSUME NEW s, Inj(s), NEW i \in DOMAIN s, NEW j \in DOMAIN s
  PROVE  Precedes(s, s[i], s[j]) <=> i <= j
  BY DEF Precedes, Inj

(* t is s and more, in the same order. *)
LEMMA Embedded ==
  ASSUME NEW s, NEW t, Inj(s), Inj(t), NEW sh \in [DOMAIN s -> DOMAIN t],
         \A k \in DOMAIN s : t[sh[k]] = s[k],
         \A k, m \in DOMAIN s : k <= m <=> sh[k] <= sh[m]
  PROVE  \A a, b \in W!ToSet(s) : Precedes(s, a, b) <=> Precedes(t, a, b)
<1> SUFFICES ASSUME NEW k \in DOMAIN s, NEW m \in DOMAIN s
             PROVE  Precedes(s, s[k], s[m]) <=> Precedes(t, s[k], s[m])
  BY DEF W!ToSet
<1>1. Precedes(s, s[k], s[m]) <=> k <= m
  BY PrecedesAt
<1>2. Precedes(t, t[sh[k]], t[sh[m]]) <=> sh[k] <= sh[m]
  BY PrecedesAt
<1> QED
  BY <1>1, <1>2

(* An element put into a sequence. *)
LEMMA InsertAtFacts ==
  ASSUME NEW S, NEW s \in Seq(S), NEW i \in 1 .. Len(s) + 1, NEW o \in S
  PROVE  /\ W!InsertAt(s, i, o) \in Seq(S) /\ Len(W!InsertAt(s, i, o)) = Len(s) + 1
         /\ \A k \in 1 .. Len(s) + 1 :
              W!InsertAt(s, i, o)[k] = IF k < i THEN s[k] ELSE IF k = i THEN o ELSE s[k - 1]
<1> DEFINE a == SubSeq(s, 1, i - 1)
           b == SubSeq(s, i, Len(s))
           c == a \o <<o>>
<1>1. Len(s) \in Nat /\ i \in Nat /\ DOMAIN s = 1 .. Len(s)
  OBVIOUS
<1>2. a \in Seq(S) /\ Len(a) = i - 1 /\ \A k \in 1 .. i - 1 : a[k] = s[k]
  BY <1>1
<1>3. /\ b \in Seq(S) /\ Len(b) = Len(s) + 1 - i
      /\ \A k \in 1 .. Len(s) + 1 - i : b[k] = s[i + k - 1]
  BY <1>1
<1> HIDE DEF a, b
<1>4. c \in Seq(S) /\ Len(c) = i /\ c[i] = o /\ \A k \in 1 .. i - 1 : c[k] = s[k]
  BY SMTT(30), <1>1, <1>2
<1> HIDE DEF c
<1>5. /\ c \o b \in Seq(S) /\ Len(c \o b) = Len(s) + 1
      /\ \A k \in 1 .. Len(s) + 1 : (c \o b)[k] = IF k <= i THEN c[k] ELSE b[k - i]
  <2>1. Len(c) + Len(b) = Len(s) + 1
    BY <1>1, <1>3, <1>4
  <2> QED
    BY <1>3, <1>4, <2>1, ConcatProperties
<1>6. W!InsertAt(s, i, o) = c \o b
  BY DEF W!InsertAt, a, b, c
<1>7. ASSUME NEW k \in 1 .. Len(s) + 1
      PROVE  (c \o b)[k] = IF k < i THEN s[k] ELSE IF k = i THEN o ELSE s[k - 1]
  <2>1. CASE k > i
    <3>1. k - i \in 1 .. Len(s) + 1 - i /\ i + (k - i) - 1 = k - 1
      BY <1>1, <2>1
    <3>2. (c \o b)[k] = b[k - i] /\ b[k - i] = s[k - 1]
      BY <1>1, <1>3, <1>5, <2>1, <3>1
    <3> QED
      BY <1>1, <2>1, <3>2
  <2>2. CASE k = i
    BY <1>1, <1>4, <1>5, <2>2
  <2>3. CASE k < i
    BY <1>1, <1>4, <1>5, <2>3
  <2> QED
    <3>1. k < i \/ k = i \/ k > i
      BY <1>1
    <3> QED
      BY <2>1, <2>2, <2>3, <3>1
<1> QED
  BY <1>5, <1>6, <1>7

LEMMA InsertKeeps ==
  ASSUME NEW S, NEW s \in Seq(S), Inj(s), NEW i \in 1 .. Len(s) + 1, NEW o \in S,
         o \notin W!ToSet(s)
  PROVE  LET t == W!InsertAt(s, i, o)
         IN  t \in Seq(S) /\ Inj(t) /\ W!ToSet(t) = W!ToSet(s) \cup {o} /\ KeepsOrder(s, t)
<1> DEFINE t == W!InsertAt(s, i, o)
           sh == [k \in DOMAIN s |-> IF k < i THEN k ELSE k + 1]
<1>1. /\ t \in Seq(S) /\ Len(t) = Len(s) + 1
      /\ \A k \in 1 .. Len(s) + 1 :
           t[k] = IF k < i THEN s[k] ELSE IF k = i THEN o ELSE s[k - 1]
  BY InsertAtFacts
<1> HIDE DEF t
<1>2. DOMAIN s = 1 .. Len(s) /\ DOMAIN t = 1 .. Len(s) + 1 /\ Len(s) \in Nat
  BY <1>1
<1>3. Inj(t)
  <2>1. \A k \in DOMAIN s : s[k] # o
    BY DEF W!ToSet
  <2>2. \A k, m \in DOMAIN s : k # m => s[k] # s[m]
    BY DEF Inj
  <2> SUFFICES ASSUME NEW k \in 1 .. Len(s) + 1, NEW m \in 1 .. Len(s) + 1, k < m
               PROVE  t[k] # t[m]
    BY <1>2 DEF Inj
  <2>3. CASE k < i /\ m < i
    BY <1>1, <1>2, <2>2, <2>3
  <2>4. CASE k < i /\ m = i
    BY <1>1, <1>2, <2>1, <2>4
  <2>5. CASE k < i /\ m > i
    <3>1. t[k] = s[k] /\ t[m] = s[m - 1] /\ k \in DOMAIN s /\ m - 1 \in DOMAIN s /\ k # m - 1
      BY <1>1, <1>2, <2>5
    <3> QED
      BY <2>2, <3>1
  <2>6. CASE k = i
    <3>1. t[k] = o /\ t[m] = s[m - 1] /\ m - 1 \in DOMAIN s
      BY <1>1, <1>2, <2>6
    <3> QED
      BY <2>1, <3>1
  <2>7. CASE k > i
    <3>1. /\ t[k] = s[k - 1] /\ t[m] = s[m - 1] /\ k - 1 \in DOMAIN s /\ m - 1 \in DOMAIN s
          /\ k - 1 # m - 1
      BY <1>1, <1>2, <2>7
    <3> QED
      BY <2>2, <3>1
  <2> QED
    BY <2>3, <2>4, <2>5, <2>6, <2>7
<1>4. /\ sh \in [DOMAIN s -> DOMAIN t]
      /\ \A k \in DOMAIN s : t[sh[k]] = s[k]
      /\ \A k, m \in DOMAIN s : k <= m <=> sh[k] <= sh[m]
  BY <1>1, <1>2
<1>5. W!ToSet(t) = W!ToSet(s) \cup {o}
  <2>1. W!ToSet(s) \subseteq W!ToSet(t)
    <3> HIDE DEF sh
    <3> QED
      BY <1>4 DEF W!ToSet
  <2>2. t[i] = o /\ i \in DOMAIN t
    BY <1>1, <1>2
  <2>3. \A k \in DOMAIN t : t[k] = o \/ \E m \in DOMAIN s : t[k] = s[m]
    <3> SUFFICES ASSUME NEW k \in DOMAIN t, k # i PROVE \E m \in DOMAIN s : t[k] = s[m]
      BY <2>2
    <3>1. CASE k < i
      <4>1. k \in DOMAIN s /\ t[k] = s[k]
        BY <1>1, <1>2, <3>1
      <4> QED
        BY <4>1
    <3>2. CASE k > i
      <4>1. k - 1 \in DOMAIN s /\ t[k] = s[k - 1]
        BY <1>1, <1>2, <3>2
      <4> QED
        BY <4>1
    <3> QED
      BY <1>2, <3>1, <3>2
  <2> QED
    BY <2>1, <2>2, <2>3 DEF W!ToSet
<1>6. KeepsOrder(s, t)
  <2> HIDE DEF sh
  <2> QED
    BY <1>3, <1>4, Embedded DEF KeepsOrder
<1>7. t \in Seq(S) /\ Inj(t) /\ W!ToSet(t) = W!ToSet(s) \cup {o} /\ KeepsOrder(s, t)
  BY <1>1, <1>3, <1>5, <1>6
<1> QED
  BY <1>7 DEF t

LEMMA RestLength ==
  \A n \in Nat : \A m \in 1 .. n : (IF m + 1 <= n THEN n - (m + 1) + 1 ELSE 0) = n - m
  OBVIOUS

(* An element taken out. *)
LEMMA RemoveAtFacts ==
  ASSUME NEW S, NEW s \in Seq(S), NEW i \in 1 .. Len(s)
  PROVE  /\ W!RemoveAt(s, i) \in Seq(S) /\ Len(W!RemoveAt(s, i)) = Len(s) - 1
         /\ \A k \in 1 .. Len(s) - 1 :
              W!RemoveAt(s, i)[k] = IF k < i THEN s[k] ELSE s[k + 1]
<1> DEFINE a == SubSeq(s, 1, i - 1)
           b == SubSeq(s, i + 1, Len(s))
<1>1. Len(s) \in Nat /\ i \in Nat /\ DOMAIN s = 1 .. Len(s)
  OBVIOUS
<1>2. a \in Seq(S) /\ Len(a) = i - 1 /\ \A k \in 1 .. i - 1 : a[k] = s[k]
  BY <1>1
<1>3. /\ b \in Seq(S) /\ Len(b) = Len(s) - i
      /\ \A k \in 1 .. Len(s) - i : b[k] = s[i + k]
  <2>1. \A k \in i + 1 .. Len(s) : s[k] \in S
    BY <1>1
  <2>2. /\ b \in Seq(S) /\ Len(b) = IF i + 1 <= Len(s) THEN Len(s) - (i + 1) + 1 ELSE 0
        /\ \A k \in 1 .. Len(s) - (i + 1) + 1 : b[k] = s[i + 1 + k - 1]
    <3> HIDE DEF b
    <3>1. b = SubSeq(s, i + 1, Len(s)) /\ i + 1 \in Int /\ Len(s) \in Int
      BY <1>1 DEF b
    <3> QED
      BY <2>1, <3>1, SubSeqProperties
  <2> HIDE DEF b
  <2>3. (IF i + 1 <= Len(s) THEN Len(s) - (i + 1) + 1 ELSE 0) = Len(s) - i
    <3>1. \A n \in Nat : \A m \in 1 .. n : (IF m + 1 <= n THEN n - (m + 1) + 1 ELSE 0) = n - m
      BY RestLength
    <3> QED
      BY <1>1, <3>1
  <2>4. Len(s) - (i + 1) + 1 = Len(s) - i /\ \A k \in 1 .. Len(s) - i : i + 1 + k - 1 = i + k
    BY <1>1
  <2> QED
    BY <2>2, <2>3, <2>4
<1> HIDE DEF a, b
<1>4. /\ a \o b \in Seq(S) /\ Len(a \o b) = Len(s) - 1
      /\ \A k \in 1 .. Len(s) - 1 : (a \o b)[k] = IF k < i THEN a[k] ELSE b[k + 1 - i]
  <2>1. Len(a) + Len(b) = Len(s) - 1
    BY <1>1, <1>2, <1>3
  <2>2. /\ a \o b \in Seq(S) /\ Len(a \o b) = Len(s) - 1
        /\ \A k \in 1 .. Len(s) - 1 : (a \o b)[k] = IF k <= i - 1 THEN a[k] ELSE b[k - (i - 1)]
    <3>1. /\ a \o b \in Seq(S) /\ Len(a \o b) = Len(a) + Len(b)
          /\ \A k \in 1 .. Len(a) + Len(b) :
               (a \o b)[k] = IF k <= Len(a) THEN a[k] ELSE b[k - Len(a)]
      BY <1>2, <1>3, ConcatProperties
    <3> QED
      BY <1>2, <2>1, <3>1
  <2>3. \A k \in 1 .. Len(s) - 1 : (k <= i - 1 <=> k < i) /\ k - (i - 1) = k + 1 - i
    BY <1>1
  <2> QED
    BY <2>2, <2>3
<1>5. W!RemoveAt(s, i) = a \o b
  BY DEF W!RemoveAt, a, b
<1>6. ASSUME NEW k \in 1 .. Len(s) - 1
      PROVE  (a \o b)[k] = IF k < i THEN s[k] ELSE s[k + 1]
  <2>1. CASE k >= i
    <3>1. k + 1 - i \in 1 .. Len(s) - i /\ i + (k + 1 - i) = k + 1
      BY <1>1, <2>1
    <3>2. ~(k < i)
      BY <1>1, <2>1
    <3>3. (a \o b)[k] = b[k + 1 - i] /\ b[k + 1 - i] = s[k + 1]
      BY <1>3, <1>4, <3>1, <3>2
    <3> QED
      BY <3>2, <3>3
  <2>2. CASE k < i
    BY <1>1, <1>2, <1>4, <2>2
  <2> QED
    <3>1. k < i \/ k >= i
      BY <1>1
    <3> QED
      BY <2>1, <2>2, <3>1
<1> QED
  BY <1>4, <1>5, <1>6

LEMMA RemoveKeeps ==
  ASSUME NEW S, NEW s \in Seq(S), Inj(s), NEW i \in 1 .. Len(s)
  PROVE  LET t == W!RemoveAt(s, i)
         IN  t \in Seq(S) /\ Inj(t) /\ W!ToSet(t) = W!ToSet(s) \ {s[i]} /\ KeepsOrder(s, t)
<1> DEFINE t == W!RemoveAt(s, i)
           sh == [k \in DOMAIN t |-> IF k < i THEN k ELSE k + 1]
<1>1. /\ t \in Seq(S) /\ Len(t) = Len(s) - 1
      /\ \A k \in 1 .. Len(s) - 1 : t[k] = IF k < i THEN s[k] ELSE s[k + 1]
  BY RemoveAtFacts
<1> HIDE DEF t
<1>2. DOMAIN s = 1 .. Len(s) /\ DOMAIN t = 1 .. Len(s) - 1 /\ Len(s) \in Nat
  BY <1>1
<1>3. /\ sh \in [DOMAIN t -> DOMAIN s]
      /\ \A k \in DOMAIN t : t[k] = s[sh[k]] /\ sh[k] # i
      /\ \A k, m \in DOMAIN t : k <= m <=> sh[k] <= sh[m]
  BY <1>1, <1>2
<1>4. Inj(t)
  <2> HIDE DEF sh
  <2> SUFFICES ASSUME NEW k \in DOMAIN t, NEW m \in DOMAIN t, t[k] = t[m] PROVE k = m
    BY DEF Inj
  <2>1. sh[k] \in DOMAIN s /\ sh[m] \in DOMAIN s /\ s[sh[k]] = s[sh[m]]
    BY <1>3
  <2>2. sh[k] = sh[m] /\ sh[k] \in Nat
    BY <1>2, <2>1 DEF Inj
  <2>3. k <= m /\ m <= k
    BY <1>3, <2>2
  <2> QED
    BY <1>2, <2>3
<1>5. W!ToSet(t) = W!ToSet(s) \ {s[i]}
  <2>1. \A k \in DOMAIN t : t[k] \in W!ToSet(s) \ {s[i]}
    <3> HIDE DEF sh
    <3> QED
      BY <1>2, <1>3 DEF W!ToSet, Inj
  <2>2. \A m \in DOMAIN s : m # i => s[m] \in W!ToSet(t)
    <3> SUFFICES ASSUME NEW m \in DOMAIN s, m # i PROVE \E k \in DOMAIN t : t[k] = s[m]
      BY DEF W!ToSet
    <3>1. CASE m < i
      <4>1. m \in DOMAIN t /\ t[m] = s[m]
        BY <1>1, <1>2, <3>1
      <4> QED
        BY <4>1
    <3>2. CASE m > i
      <4>1. m - 1 \in DOMAIN t /\ t[m - 1] = s[m]
        BY <1>1, <1>2, <3>2
      <4> QED
        BY <4>1
    <3> QED
      BY <1>2, <3>1, <3>2
  <2> QED
    BY <2>1, <2>2 DEF W!ToSet
<1>6. KeepsOrder(s, t)
  <2> HIDE DEF sh
  <2>1. \A a, b \in W!ToSet(t) : Precedes(t, a, b) <=> Precedes(s, a, b)
    BY <1>3, <1>4, Embedded
  <2> QED
    BY <2>1 DEF KeepsOrder
<1>7. t \in Seq(S) /\ Inj(t) /\ W!ToSet(t) = W!ToSet(s) \ {s[i]} /\ KeepsOrder(s, t)
  BY <1>1, <1>4, <1>5, <1>6
<1> QED
  BY <1>7 DEF t

(* The place of an element. *)
LEMMA PlaceIs ==
  ASSUME NEW s, NEW o \in W!ToSet(s)
  PROVE  W!Place(s, o) \in DOMAIN s /\ s[W!Place(s, o)] = o
  BY DEF W!Place, W!ToSet

(* A set of numbers has a least one. *)
LEMMA LeastOf ==
  ASSUME NEW S \in SUBSET Nat, S # {}
  PROVE  \E j \in S : \A k \in S : j <= k
<1> DEFINE R == StrictSubsetOrdering(Nat)
           T == {0 .. n : n \in S}
<1>1. T # {} /\ T \subseteq FiniteSubsetsOf(Nat)
  <2>1. \A n \in S : IsFiniteSet(0 .. n) /\ 0 .. n \in SUBSET Nat
    BY FS_Interval
  <2> QED
    BY <2>1 DEF FiniteSubsetsOf
<1>2. PICK t \in T : \A y \in T : ~ (<<y, t>> \in R)
  <2> HIDE DEF R, T
  <2> QED
    BY <1>1, FS_StrictSubsetOrderingWellFounded, WFMin DEF R
<1>3. PICK j \in S : t = 0 .. j
  OBVIOUS
<1>4. ASSUME NEW k \in S, k < j PROVE FALSE
  <2>1. 0 .. k \in SUBSET Nat /\ 0 .. j \in SUBSET Nat /\ 0 .. k \subseteq 0 .. j
    BY <1>4
  <2>2. j \in 0 .. j /\ j \notin 0 .. k
    BY <1>4
  <2>3. 0 .. k # 0 .. j
    BY <2>2
  <2>4. <<0 .. k, t>> \in R
    BY <1>3, <2>1, <2>3 DEF StrictSubsetOrdering
  <2> QED
    BY <1>2, <2>4
<1>5. \A k \in S : j <= k
  <2> SUFFICES ASSUME NEW k \in S PROVE j <= k
    OBVIOUS
  <2>1. ~(k < j)
    BY <1>4
  <2> QED
    BY <2>1
<1> QED
  BY <1>5

-----------------------------------------------------------------------------
(* The lists of the pool. *)

LEMMA ListsParts ==
  ASSUME NEW ls
  PROVE  ListsOK(ls) <=> /\ ls \in [Heads -> Seq(Objs)]
                         /\ \A h \in Heads : Inj(ls[h])
                         /\ \A g, h \in Heads : g # h => W!ToSet(ls[g]) \cap W!ToSet(ls[h]) = {}
<1>1. ASSUME ListsOK(ls), NEW h \in Heads PROVE Inj(ls[h])
  BY <1>1 DEF ListsOK, Inj
<1>2. ASSUME ListsOK(ls), NEW g \in Heads, NEW h \in Heads, g # h
      PROVE  W!ToSet(ls[g]) \cap W!ToSet(ls[h]) = {}
  BY <1>2 DEF ListsOK, W!ToSet
<1>3. ASSUME /\ ls \in [Heads -> Seq(Objs)]
             /\ \A h \in Heads : Inj(ls[h])
             /\ \A g, h \in Heads : g # h => W!ToSet(ls[g]) \cap W!ToSet(ls[h]) = {}
      PROVE  ListsOK(ls)
  <2> SUFFICES ASSUME NEW g \in Heads, NEW h \in Heads, NEW i \in DOMAIN ls[g],
                      NEW j \in DOMAIN ls[h], ls[g][i] = ls[h][j]
               PROVE  g = h /\ i = j
    BY <1>3 DEF ListsOK
  <2>1. ls[g][i] \in W!ToSet(ls[g]) \cap W!ToSet(ls[h])
    BY DEF W!ToSet
  <2>2. g = h
    BY <1>3, <2>1
  <2> QED
    BY <1>3, <2>2 DEF Inj
<1> QED
  BY <1>1, <1>2, <1>3 DEF ListsOK

(* A change of the list of h alone. *)
LEMMA OneList ==
  ASSUME NEW ls, ListsOK(ls), NEW h \in Heads, NEW t \in Seq(Objs), Inj(t),
         \A g \in Heads : g # h => W!ToSet(ls[g]) \cap W!ToSet(t) = {}
  PROVE  LET ls2 == [ls EXCEPT ![h] = t]
         IN  ListsOK(ls2) /\ ls2[h] = t /\ \A g \in Heads : g # h => ls2[g] = ls[g]
<1> DEFINE ls2 == [ls EXCEPT ![h] = t]
<1>1. ls \in [Heads -> Seq(Objs)]
  BY DEF ListsOK
<1>2. ls2 \in [Heads -> Seq(Objs)] /\ ls2[h] = t /\ \A g \in Heads : g # h => ls2[g] = ls[g]
  BY <1>1
<1> HIDE DEF ls2
<1>3. ListsOK(ls2)
  BY <1>2, ListsParts
<1>4. ListsOK(ls2) /\ ls2[h] = t /\ \A g \in Heads : g # h => ls2[g] = ls[g]
  BY <1>2, <1>3
<1> QED
  BY <1>4 DEF ls2

(* What ls has become in ls2: a list more or less of o, the others as they were. *)
Gained(ls, ls2, h, o) ==
  /\ ListsOK(ls2)
  /\ W!ToSet(ls2[h]) = W!ToSet(ls[h]) \cup {o} /\ KeepsOrder(ls[h], ls2[h])
  /\ \A g \in Heads : g # h => ls2[g] = ls[g]
Lost(ls, ls2, h, o) ==
  /\ ListsOK(ls2)
  /\ W!ToSet(ls2[h]) = W!ToSet(ls[h]) \ {o} /\ KeepsOrder(ls[h], ls2[h])
  /\ \A g \in Heads : g # h => ls2[g] = ls[g]

LEMMA PutGains ==
  ASSUME NEW ls, ListsOK(ls), NEW h \in Heads, NEW o \in Objs,
         \A g \in Heads : o \notin W!ToSet(ls[g]), NEW i \in 1 .. Len(ls[h]) + 1
  PROVE  Gained(ls, W!Put(ls, h, i, o), h, o)
<1> DEFINE t == W!InsertAt(ls[h], i, o)
<1>1. ls \in [Heads -> Seq(Objs)] /\ ls[h] \in Seq(Objs) /\ Inj(ls[h])
  BY ListsParts
<1>2. t \in Seq(Objs) /\ Inj(t) /\ W!ToSet(t) = W!ToSet(ls[h]) \cup {o} /\ KeepsOrder(ls[h], t)
  BY <1>1, InsertKeeps
<1>3. W!Put(ls, h, i, o) = [ls EXCEPT ![h] = t]
  BY DEF W!Put
<1> HIDE DEF t
<1>4. \A g \in Heads : g # h => W!ToSet(ls[g]) \cap W!ToSet(t) = {}
  BY <1>2, ListsParts
<1>5. /\ ListsOK([ls EXCEPT ![h] = t]) /\ [ls EXCEPT ![h] = t][h] = t
      /\ \A g \in Heads : g # h => [ls EXCEPT ![h] = t][g] = ls[g]
  BY <1>2, <1>4, OneList
<1> QED
  BY <1>2, <1>3, <1>5 DEF Gained

LEMMA InsertedGains ==
  ASSUME NEW ls, ListsOK(ls), NEW h \in Heads, NEW o \in Objs,
         \A g \in Heads : o \notin W!ToSet(ls[g]), NEW ls2 \in W!Inserted(ls, h, o)
  PROVE  Gained(ls, ls2, h, o)
<1>1. ls[h] \in Seq(Objs) /\ Len(ls[h]) \in Nat /\ DOMAIN ls[h] = 1 .. Len(ls[h])
  BY DEF ListsOK
<1>2. 1 \in 1 .. Len(ls[h]) + 1 /\ Len(ls[h]) + 1 \in 1 .. Len(ls[h]) + 1
  BY <1>1
<1>3. \A e \in W!ToSet(ls[h]) : /\ W!Place(ls[h], e) + 1 \in 1 .. Len(ls[h]) + 1
                              /\ W!Place(ls[h], e) \in 1 .. Len(ls[h]) + 1
  <2> SUFFICES ASSUME NEW e \in W!ToSet(ls[h])
               PROVE  /\ W!Place(ls[h], e) + 1 \in 1 .. Len(ls[h]) + 1
                      /\ W!Place(ls[h], e) \in 1 .. Len(ls[h]) + 1
    OBVIOUS
  <2>1. W!Place(ls[h], e) \in 1 .. Len(ls[h])
    BY <1>1, PlaceIs
  <2> QED
    BY <1>1, <2>1
<1>4. \E i \in 1 .. Len(ls[h]) + 1 : ls2 = W!Put(ls, h, i, o)
  BY <1>2, <1>3 DEF W!Inserted, W!POBJ_LIST_INSERT_HEAD, W!POBJ_LIST_INSERT_TAIL,
     W!POBJ_LIST_INSERT_AFTER, W!POBJ_LIST_INSERT_BEFORE
<1> QED
  BY <1>4, PutGains

LEMMA RemovedLoses ==
  ASSUME NEW ls, ListsOK(ls), NEW h \in Heads, NEW o \in W!ToSet(ls[h])
  PROVE  Lost(ls, W!Removed(ls, h, o), h, o)
<1> DEFINE i == W!Place(ls[h], o)
           t == W!RemoveAt(ls[h], i)
<1>1. ls \in [Heads -> Seq(Objs)] /\ ls[h] \in Seq(Objs) /\ Inj(ls[h])
  BY ListsParts
<1>2. i \in 1 .. Len(ls[h]) /\ ls[h][i] = o
  BY <1>1, PlaceIs
<1>3. W!Removed(ls, h, o) = [ls EXCEPT ![h] = t]
  BY DEF W!Removed
<1> HIDE DEF i
<1>4. t \in Seq(Objs) /\ Inj(t) /\ W!ToSet(t) = W!ToSet(ls[h]) \ {o} /\ KeepsOrder(ls[h], t)
  BY <1>1, <1>2, RemoveKeeps
<1> HIDE DEF t
<1>5. \A g \in Heads : g # h => W!ToSet(ls[g]) \cap W!ToSet(t) = {}
  BY <1>4, ListsParts
<1>6. /\ ListsOK([ls EXCEPT ![h] = t]) /\ [ls EXCEPT ![h] = t][h] = t
      /\ \A g \in Heads : g # h => [ls EXCEPT ![h] = t][g] = ls[g]
  BY <1>4, <1>5, OneList
<1> QED
  BY <1>3, <1>4, <1>6 DEF Lost
-----------------------------------------------------------------------------
(* The order of the pool. *)

LEMMA LowestIs ==
  ASSUME WalkAssumption, NEW S \in SUBSET Objs
  PROVE  \/ S = {} /\ W!Lowest(S) = 0
         \/ W!Lowest(S) \in S /\ W!Lowest(S) # 0 /\ \A q \in S : W!Lowest(S) <= q
<1>1. CASE S = {}
  BY <1>1 DEF W!Lowest
<1>2. CASE S # {}
  <2>1. S \in SUBSET Nat /\ 0 \notin S
    BY DEF WalkAssumption
  <2>2. \E j \in S : \A q \in S : j <= q
    BY <1>2, <2>1, LeastOf
  <2>3. W!Lowest(S) = CHOOSE j \in S : \A q \in S : j <= q
    BY <1>2 DEF W!Lowest
  <2>4. W!Lowest(S) \in S /\ \A q \in S : W!Lowest(S) <= q
    BY <2>2, <2>3
  <2> QED
    BY <2>1, <2>4
<1> QED
  BY <1>1, <1>2
-----------------------------------------------------------------------------
(* The body of a loop. *)

(* What the loop still has to do with q is as it was. *)
Untouched(q) ==
  /\ q \in W!Live => q \in Objs /\ typeOf'[q] = typeOf[q]
  /\ (loop \in W!ListLoops /\ q \in W!ToSet(lists[of])) => q \in W!ToSet(lists'[of])

(* A change that spares the object the loop goes on from, and those of `stayed' that
   are not in G. *)
Spares(G) ==
  /\ UNCHANGED <<number, loop, of, var, nvar, wrong>>
  /\ stayed' = stayed \ G /\ seen' = seen \ G
  /\ \A q \in (stayed \ G) \cup {W!Anchor} : Untouched(q)
  /\ loop \in W!ListLoops =>
       \A a, b \in W!ToSet(lists[of]) \cap ((stayed \ G) \cup {W!Anchor}) :
         Precedes(lists[of], a, b) <=> Precedes(lists'[of], a, b)

LEMMA ChangeKeepsLoop ==
  ASSUME WalkInv, NEW G, Spares(G), PoolOK'
  PROVE  LoopOK'
<1> DEFINE Q == (stayed \ G) \cup {W!Anchor}
<1>1. /\ loop' = loop /\ of' = of /\ var' = var /\ nvar' = nvar /\ stayed' = stayed \ G
      /\ \A q \in Q : Untouched(q)
  BY DEF Spares
<1>2. LoopOK
  BY DEF WalkInv
<1>3. \A q \in Q : q \in W!Live => q \in W!Live' /\ typeOf'[q] = typeOf[q]
  BY <1>1 DEF W!Live, Untouched
<1>4. \A q \in Q : q \in W!Belonging(loop, of) /\ loop # "none" => q \in W!Belonging(loop, of)'
  <2> SUFFICES ASSUME NEW q \in Q, q \in W!Belonging(loop, of), loop # "none"
               PROVE  q \in W!Belonging(loop, of)'
    OBVIOUS
  <2>1. CASE loop \in W!WholeLoops
    BY <1>1, <1>3, <2>1 DEF W!Belonging
  <2>2. CASE loop \in W!TypeLoops
    <3>1. q \in W!Live /\ typeOf[q] = of
      BY <2>2 DEF W!Belonging, W!TypeLoops, W!WholeLoops
    <3> QED
      BY <1>1, <1>3, <2>2, <3>1 DEF W!Belonging, W!TypeLoops, W!WholeLoops
  <2>3. CASE loop \in W!ListLoops
    <3>1. q \in W!ToSet(lists[of])
      BY <2>3 DEF W!Belonging, W!ListLoops, W!TypeLoops, W!WholeLoops
    <3>2. q \in W!ToSet(lists'[of])
      BY <1>1, <2>3, <3>1 DEF Untouched
    <3>3. q \in W!ToSet(lists[of])'
      BY <1>1, <3>2 DEF W!ToSet
    <3> QED
      BY <1>1, <2>3, <3>3 DEF W!Belonging, W!ListLoops, W!TypeLoops, W!WholeLoops
  <2> QED
    BY <1>2, <2>1, <2>2, <2>3 DEF LoopOK
<1>5. /\ loop \in W!SafeLoops => W!Anchor = nvar
      /\ loop \notin W!SafeLoops => W!Anchor = var
      /\ W!Anchor \in Q
  BY DEF W!Anchor
<1> HIDE DEF Q
<1>6. loop \in W!SafeLoops => nvar \in (W!Live \cup {0})'
  BY <1>1, <1>2, <1>3, <1>5 DEF LoopOK
<1>7. loop \notin W!SafeLoops \cup {"none"} => var \in W!Live'
  BY <1>2, <1>3, <1>5 DEF LoopOK
<1>8. loop \in W!ListLoops \cup {"POBJ_NEXT"} => var \in W!Belonging(loop, of)'
  BY <1>2, <1>4, <1>5 DEF LoopOK, W!ListLoops, W!SafeLoops
<1>9. loop # "none" => stayed' \subseteq W!Belonging(loop, of)'
  BY <1>1, <1>2, <1>4 DEF LoopOK, Q
<1> QED
  BY <1>1, <1>2, <1>6, <1>7, <1>8, <1>9 DEF LoopOK

LEMMA ChangeKeeps ==
  ASSUME WalkInv, NEW G, Spares(G), PoolOK'
  PROVE  WalkInv'
<1>1. /\ loop' = loop /\ of' = of /\ var' = var /\ nvar' = nvar /\ wrong' = wrong
      /\ stayed' = stayed \ G /\ seen' = seen \ G
      /\ \A q \in (stayed \ G) \cup {W!Anchor} : Untouched(q)
  BY DEF Spares
<1>2. LoopOK /\ seen = Passed /\ ~wrong
  BY DEF WalkInv
<1>3. LoopOK'
  BY ChangeKeepsLoop
<1>4. ASSUME loop \in W!ListLoops
      PROVE  \A q \in stayed \ G :
               /\ Precedes(lists[of], q, var) <=> Precedes(lists[of], q, var)'
               /\ Precedes(lists[of], var, q) <=> Precedes(lists[of], var, q)'
  <2>1. \A a, b \in W!ToSet(lists[of]) \cap ((stayed \ G) \cup {W!Anchor}) :
          Precedes(lists[of], a, b) <=> Precedes(lists'[of], a, b)
    BY <1>4 DEF Spares
  <2>2. W!Anchor = var
    BY <1>4 DEF W!Anchor, W!ListLoops, W!SafeLoops
  <2>3. var \in W!ToSet(lists[of]) /\ stayed \subseteq W!ToSet(lists[of])
    BY <1>2, <1>4 DEF LoopOK, W!Belonging, W!ListLoops, W!TypeLoops, W!WholeLoops
  <2>5. ASSUME NEW q \in stayed \ G
        PROVE  /\ Precedes(lists[of], q, var) <=> Precedes(lists'[of], q, var)
               /\ Precedes(lists[of], var, q) <=> Precedes(lists'[of], var, q)
    BY <2>1, <2>2, <2>3
  <2>6. /\ \A q : Precedes(lists[of], q, var)' <=> Precedes(lists'[of], q, var)
        /\ \A q : Precedes(lists[of], var, q)' <=> Precedes(lists'[of], var, q)
    BY <1>1 DEF Precedes
  <2> QED
    BY <2>5, <2>6
<1>5. seen' = Passed'
  <2>1. CASE loop = "POBJ_LIST_FOREACH"
    <3>1. Passed = {o \in stayed : Precedes(lists[of], o, var)}
      BY <2>1 DEF Passed, W!SafeLoops
    <3>2. Passed' = {o \in stayed' : Precedes(lists[of], o, var)'}
      BY <1>1, <2>1 DEF Passed, W!SafeLoops
    <3> QED
      BY <1>1, <1>2, <1>4, <2>1, <3>1, <3>2 DEF W!ListLoops
  <2>2. CASE loop = "POBJ_LIST_FOREACH_REVERSE"
    <3>1. Passed = {o \in stayed : Precedes(lists[of], var, o)}
      BY <2>2 DEF Passed, W!SafeLoops
    <3>2. Passed' = {o \in stayed' : Precedes(lists[of], var, o)'}
      BY <1>1, <2>2 DEF Passed, W!SafeLoops
    <3> QED
      BY <1>1, <1>2, <1>4, <2>2, <3>1, <3>2 DEF W!ListLoops
  <2>3. CASE loop \notin W!ListLoops
    BY <1>1, <1>2, <2>3 DEF Passed, W!ListLoops
  <2> QED
    BY <2>1, <2>2, <2>3 DEF W!ListLoops
<1> QED
  BY <1>1, <1>2, <1>3, <1>5 DEF WalkInv
-----------------------------------------------------------------------------
(* The numbers of the types. *)

(* The types that the three headers declare, and what they keep of their numbers: the
   size of an array, which is one more. *)
DeclaredTypes ==
  {"hashmap_tx", "buckets", "entry", "Cache", "CacheEntry", "QueueRoot", "QueueEntry", "Queue"}

Numbering(f) ==
  /\ DOMAIN f = DeclaredTypes
  /\ f["hashmap_tx"] = 1005 /\ f["buckets"] = 1006 /\ f["entry"] = 1007
  /\ f["Cache"] = 101 /\ f["CacheEntry"] = 102
  /\ f["QueueRoot"] = 1 /\ f["QueueEntry"] = 2 /\ f["Queue"] = 3

(* Wherever the counter starts. *)
LEMMA IncludedNumbers ==
  ASSUME NEW c \in Nat
  PROVE  Numbering(W!Included(c).size)
<1> DEFINE D(f, t, i) == [y \in DOMAIN f \cup {t} |-> IF y = t THEN i + 1 ELSE f[y]]
           f1 == D(<<>>, "hashmap_tx", 1004)
           f2 == D(f1, "buckets", 1005)
           f3 == D(f2, "entry", 1006)
           f4 == D(f3, "Cache", 100)
           f5 == D(f4, "CacheEntry", 101)
           f6 == D(f5, "QueueRoot", 0)
           f7 == D(f6, "QueueEntry", 1)
           f8 == D(f7, "Queue", 2)
           R(n, r, f) == [counter |-> n, ref |-> r, size |-> f]
<1>1. \A f, t, i, n, r : W!_TOID_DECLARE(R(n, r, f), t, i) = R(n, r, D(f, t, i))
  BY DEF W!_TOID_DECLARE
<1>2. \A f, n, r : /\ W!Counted(R(n, r, f)) = R(n + 1, r, f)
                   /\ W!POBJ_LAYOUT_BEGIN(R(n, r, f)) = R(n + 1, n + 1, f)
                   /\ R(n, r, f).counter = n /\ R(n, r, f).ref = r /\ R(n, r, f).size = f
  <2> SUFFICES ASSUME NEW f, NEW n, NEW r
               PROVE  /\ W!Counted(R(n, r, f)) = R(n + 1, r, f)
                      /\ W!POBJ_LAYOUT_BEGIN(R(n, r, f)) = R(n + 1, n + 1, f)
                      /\ R(n, r, f).counter = n /\ R(n, r, f).ref = r /\ R(n, r, f).size = f
    OBVIOUS
  <2>1. R(n, r, f).counter = n /\ R(n, r, f).ref = r /\ R(n, r, f).size = f
    OBVIOUS
  <2>2. W!Counted(R(n, r, f)) = R(n + 1, r, f)
    BY DEF W!Counted
  <2>3. [R(n + 1, r, f) EXCEPT !.ref = n + 1] = R(n + 1, n + 1, f)
    OBVIOUS
  <2> HIDE DEF R
  <2> QED
    BY <2>1, <2>2, <2>3 DEF W!POBJ_LAYOUT_BEGIN
<1> HIDE DEF D, R
<1>3. W!hashmap_tx_h(W!Unit(c)) = R(c, 0, f3)
  <2>1. W!Unit(c) = R(c, 0, <<>>)
    BY DEF W!Unit, R
  <2>2. 1004 + 0 = 1004 /\ 1004 + 1 = 1005 /\ 1004 + 2 = 1006
    OBVIOUS
  <2> QED
    BY <1>1, <2>1, <2>2 DEF W!hashmap_tx_h, W!HASHMAP_TX_TYPE_OFFSET
<1>4. W!cache_h(W!Unit(c)) = R(c, 0, f5)
  <2>1. 100 + 1 = 101
    OBVIOUS
  <2> QED
    BY <1>1, <1>3, <2>1 DEF W!cache_h, W!CACHE_TX_TYPE_OFFSET
<1> HIDE DEF f3, f4, f5
<1>5. W!queue_h(R(c, 0, f5)) = R(c + 1 + 1 + 1 + 1, c + 1, f8)
  <2> DEFINE u1 == W!POBJ_LAYOUT_ROOT(W!POBJ_LAYOUT_BEGIN(R(c, 0, f5)), "QueueRoot")
             u2 == W!POBJ_LAYOUT_TOID(u1, "QueueEntry")
             u3 == W!POBJ_LAYOUT_TOID(u2, "Queue")
  <2>1. u1 = R(c + 1, c + 1, f6)
    BY <1>1, <1>2 DEF W!POBJ_LAYOUT_ROOT, W!POBJ_ROOT_TYPE_NUM
  <2>2. u2 = R(c + 1 + 1, c + 1, f7)
    <3>1. c + 1 + 1 - (c + 1) = 1
      OBVIOUS
    <3> HIDE DEF u1, f6
    <3> QED
      BY <1>1, <1>2, <2>1, <3>1 DEF W!POBJ_LAYOUT_TOID
  <2>3. u3 = R(c + 1 + 1 + 1, c + 1, f8)
    <3>1. c + 1 + 1 + 1 - (c + 1) = 2
      OBVIOUS
    <3> HIDE DEF u2, f7
    <3> QED
      BY <1>1, <1>2, <2>2, <3>1 DEF W!POBJ_LAYOUT_TOID
  <2>4. W!queue_h(R(c, 0, f5)) = W!POBJ_LAYOUT_END(u3)
    BY DEF W!queue_h
  <2> HIDE DEF u3, f8
  <2> QED
    BY <1>2, <2>3, <2>4 DEF W!POBJ_LAYOUT_END
<1>6. W!Included(c).size = f8
  BY <1>2, <1>4, <1>5 DEF W!Included
<1> HIDE DEF f6, f7, f8
<1>7. f1["hashmap_tx"] = 1005 /\ DOMAIN f1 = {"hashmap_tx"}
  BY DEF f1, D
<1> HIDE DEF f1
<1>8. /\ f2["hashmap_tx"] = 1005 /\ f2["buckets"] = 1006
      /\ DOMAIN f2 = {"hashmap_tx", "buckets"}
  BY <1>7 DEF f2, D
<1> HIDE DEF f2
<1>9. /\ f3["hashmap_tx"] = 1005 /\ f3["buckets"] = 1006 /\ f3["entry"] = 1007
      /\ DOMAIN f3 = {"hashmap_tx", "buckets", "entry"}
  BY <1>8 DEF f3, D
<1>10. /\ f4["hashmap_tx"] = 1005 /\ f4["buckets"] = 1006 /\ f4["entry"] = 1007
       /\ f4["Cache"] = 101
       /\ DOMAIN f4 = {"hashmap_tx", "buckets", "entry", "Cache"}
  BY <1>9 DEF f4, D
<1>11. /\ f5["hashmap_tx"] = 1005 /\ f5["buckets"] = 1006 /\ f5["entry"] = 1007
       /\ f5["Cache"] = 101 /\ f5["CacheEntry"] = 102
       /\ DOMAIN f5 = {"hashmap_tx", "buckets", "entry", "Cache", "CacheEntry"}
  BY <1>10 DEF f5, D
<1>12. /\ f6["hashmap_tx"] = 1005 /\ f6["buckets"] = 1006 /\ f6["entry"] = 1007
       /\ f6["Cache"] = 101 /\ f6["CacheEntry"] = 102 /\ f6["QueueRoot"] = 1
       /\ DOMAIN f6 = {"hashmap_tx", "buckets", "entry", "Cache", "CacheEntry", "QueueRoot"}
  BY <1>11 DEF f6, D
<1>13. /\ f7["hashmap_tx"] = 1005 /\ f7["buckets"] = 1006 /\ f7["entry"] = 1007
       /\ f7["Cache"] = 101 /\ f7["CacheEntry"] = 102 /\ f7["QueueRoot"] = 1
       /\ f7["QueueEntry"] = 2
       /\ DOMAIN f7 =
            {"hashmap_tx", "buckets", "entry", "Cache", "CacheEntry", "QueueRoot", "QueueEntry"}
  BY <1>12 DEF f7, D
<1>14. Numbering(f8)
  BY <1>13 DEF f8, D, Numbering, DeclaredTypes
<1> QED
  BY <1>6, <1>14

LEMMA Declared ==
  ASSUME WalkAssumption
  PROVE  Types \subseteq DeclaredTypes /\ "free" \notin Types
<1>1. DOMAIN W!Included(0).size = DeclaredTypes
  BY IncludedNumbers DEF Numbering
<1>2. "free" \notin DeclaredTypes
  BY DEF DeclaredTypes
<1> QED
  BY <1>1, <1>2 DEF WalkAssumption

LEMMA NumbersDiffer ==
  ASSUME WalkAssumption, NEW c \in Counters,
         number = [t \in Types |-> W!TOID_TYPE_NUM(W!Included(c), t)]
  PROVE  NumbersTell
<1>1. Numbering(W!Included(c).size)
  BY IncludedNumbers DEF WalkAssumption
<1>2. PICK f : f = W!Included(c).size
  OBVIOUS
<1>3. Numbering(f) /\ number = [t \in Types |-> f[t] - 1]
  BY <1>1, <1>2 DEF W!TOID_TYPE_NUM
<1>4. \A t \in DeclaredTypes : f[t] - 1 \in Nat
  BY <1>3 DEF Numbering, DeclaredTypes
<1>5. \A t, u \in DeclaredTypes : f[t] - 1 = f[u] - 1 => t = u
  BY <1>3 DEF Numbering, DeclaredTypes
<1> QED
  BY <1>3, <1>4, <1>5, Declared DEF NumbersTell
-----------------------------------------------------------------------------
(* The calls that a body may make. *)

LEMMA NewStep ==
  ASSUME WalkAssumption, WalkInv, NEW o \in Objs, NEW t \in Types, W!POBJ_NEW(o, t)
  PROVE  WalkInv'
<1>1. /\ UNCHANGED <<number, loop, of, var, nvar, wrong, lists, stayed, seen>>
      /\ typeOf[o] = "free" /\ typeOf' = [typeOf EXCEPT ![o] = t]
  BY DEF W!POBJ_NEW, W!Change
<1>2. PoolOK
  BY DEF WalkInv
<1>3. t # "free"
  BY Declared
<1>4. typeOf' \in [Objs -> Types \cup {"free"}] /\ W!Live \subseteq W!Live'
      /\ \A q \in W!Live : typeOf'[q] = typeOf[q]
  BY <1>1, <1>2, <1>3 DEF PoolOK, W!Live
<1>5. PoolOK'
  BY <1>1, <1>2, <1>4 DEF PoolOK, NumbersTell
<1>6. \A q : Untouched(q)
  BY <1>1, <1>4 DEF Untouched, W!Live
<1>7. Spares({})
  BY <1>1, <1>6 DEF Spares
<1> QED
  BY <1>5, <1>7, ChangeKeeps

LEMMA FreeObjectStep ==
  ASSUME WalkInv, NEW o \in Objs, W!POBJ_FREE(o)
  PROVE  WalkInv'
<1>1. /\ UNCHANGED <<number, loop, of, var, nvar, wrong, lists>> /\ o # W!Anchor
      /\ o \in W!Live \ W!Listed /\ typeOf' = [typeOf EXCEPT ![o] = "free"]
      /\ stayed' = stayed \ {o} /\ seen' = seen \ {o}
  BY DEF W!POBJ_FREE, W!Change, W!Leaves
<1>2. PoolOK
  BY DEF WalkInv
<1>3. typeOf' \in [Objs -> Types \cup {"free"}] /\ W!Live \ {o} \subseteq W!Live'
      /\ \A q \in W!Live \ {o} : typeOf'[q] = typeOf[q]
  BY <1>1, <1>2 DEF PoolOK, W!Live
<1>4. \A h \in Heads : W!ToSet(lists[h]) \subseteq W!Live \ {o}
  BY <1>1, <1>2 DEF PoolOK, W!Listed
<1>5. PoolOK'
  BY <1>1, <1>2, <1>3, <1>4 DEF PoolOK, NumbersTell
<1>6. \A q : q # o => Untouched(q)
  BY <1>1, <1>3 DEF Untouched, W!Live
<1>7. Spares({o})
  BY <1>1, <1>6 DEF Spares
<1> QED
  BY <1>5, <1>7, ChangeKeeps

LEMMA ReallocObjectStep ==
  ASSUME WalkInv, NEW o \in Objs, NEW new \in Objs, W!POBJ_REALLOC(o, new)
  PROVE  WalkInv'
<1>1. /\ UNCHANGED <<number, loop, of, var, nvar, wrong, lists>> /\ o # W!Anchor
      /\ o \in W!Live \ W!Listed /\ typeOf[new] = "free"
      /\ typeOf' = [typeOf EXCEPT ![o] = "free", ![new] = typeOf[o]]
      /\ stayed' = stayed \ {o} /\ seen' = seen \ {o}
  BY DEF W!POBJ_REALLOC, W!Change, W!Leaves
<1>2. PoolOK
  BY DEF WalkInv
<1>3. typeOf' \in [Objs -> Types \cup {"free"}] /\ W!Live \ {o} \subseteq W!Live'
      /\ \A q \in W!Live \ {o} : typeOf'[q] = typeOf[q]
  BY <1>1, <1>2 DEF PoolOK, W!Live
<1>4. \A h \in Heads : W!ToSet(lists[h]) \subseteq W!Live \ {o}
  BY <1>1, <1>2 DEF PoolOK, W!Listed
<1>5. PoolOK'
  BY <1>1, <1>2, <1>3, <1>4 DEF PoolOK, NumbersTell
<1>6. \A q : q # o => Untouched(q)
  BY <1>1, <1>3 DEF Untouched, W!Live
<1>7. Spares({o})
  BY <1>1, <1>6 DEF Spares
<1> QED
  BY <1>5, <1>7, ChangeKeeps

(* Of an insertion a loop notices nothing. *)
LEMMA GainSpares ==
  ASSUME WalkInv, UNCHANGED <<number, loop, of, var, nvar, wrong, stayed, seen>>,
         NEW h \in Heads, NEW o, Gained(lists, lists', h, o), o \in W!Live',
         typeOf' \in [Objs -> Types \cup {"free"}], \A q \in W!Live : typeOf'[q] = typeOf[q]
  PROVE  WalkInv'
<1>1. PoolOK /\ LoopOK
  BY DEF WalkInv
<1>2. W!Live \subseteq W!Live'
  BY DEF W!Live
<1>3. /\ ListsOK(lists') /\ W!ToSet(lists'[h]) = W!ToSet(lists[h]) \cup {o}
      /\ KeepsOrder(lists[h], lists'[h]) /\ \A g \in Heads : g # h => lists'[g] = lists[g]
  BY DEF Gained
<1>4. \A g \in Heads : W!ToSet(lists'[g]) \subseteq W!Live'
  <2> SUFFICES ASSUME NEW g \in Heads PROVE W!ToSet(lists'[g]) \subseteq W!Live'
    OBVIOUS
  <2>1. W!ToSet(lists[g]) \subseteq W!Live
    BY <1>1 DEF PoolOK
  <2>2. W!ToSet(lists'[g]) \subseteq W!ToSet(lists[g]) \cup {o}
    BY <1>3
  <2> QED
    BY <1>2, <2>1, <2>2
<1>5. PoolOK'
  <2>1. NumbersTell'
    BY <1>1 DEF PoolOK, NumbersTell
  <2>2. \A g \in Heads : W!ToSet(lists[g])' \subseteq W!Live'
    BY <1>4 DEF W!ToSet
  <2>3. ListsOK(lists)'
    BY <1>3 DEF ListsOK
  <2> QED
    BY <2>1, <2>2, <2>3 DEF PoolOK
<1>6. loop \in W!ListLoops => of \in Heads
  BY <1>1 DEF LoopOK
<1>7. \A q : Untouched(q)
  BY <1>3, <1>6 DEF Untouched, W!Live
<1>8. loop \in W!ListLoops =>
        \A a, b \in W!ToSet(lists[of]) : Precedes(lists[of], a, b) <=> Precedes(lists'[of], a, b)
  <2>1. CASE of = h
    BY <1>3, <2>1 DEF KeepsOrder
  <2>2. CASE of # h
    BY <1>3, <1>6, <2>2
  <2> QED
    BY <2>1, <2>2
<1>9. Spares({})
  BY <1>7, <1>8 DEF Spares
<1> QED
  BY <1>5, <1>9, ChangeKeeps

LEMMA ListInsertStep ==
  ASSUME WalkInv, NEW h \in Heads, NEW o \in Objs, W!POBJ_LIST_INSERT(h, o)
  PROVE  WalkInv'
<1>1. /\ UNCHANGED <<number, loop, of, var, nvar, wrong, stayed, seen, typeOf>>
      /\ o \in W!Live \ W!Listed /\ lists' \in W!Inserted(lists, h, o)
  BY DEF W!POBJ_LIST_INSERT, W!Change
<1>2. PoolOK
  BY DEF WalkInv
<1>3. Gained(lists, lists', h, o)
  <2>1. ListsOK(lists) /\ \A g \in Heads : o \notin W!ToSet(lists[g])
    BY <1>1, <1>2 DEF PoolOK, W!Listed
  <2> QED
    BY <1>1, <2>1, InsertedGains
<1> QED
  BY <1>1, <1>2, <1>3, GainSpares DEF PoolOK, W!Live

LEMMA ListInsertNewStep ==
  ASSUME WalkAssumption, WalkInv, NEW h \in Heads, NEW o \in Objs, NEW t \in Types,
         W!POBJ_LIST_INSERT_NEW(h, o, t)
  PROVE  WalkInv'
<1>1. /\ UNCHANGED <<number, loop, of, var, nvar, wrong, stayed, seen>>
      /\ typeOf[o] = "free" /\ lists' \in W!Inserted(lists, h, o)
      /\ typeOf' = [typeOf EXCEPT ![o] = t]
  BY DEF W!POBJ_LIST_INSERT_NEW, W!Change
<1>2. PoolOK
  BY DEF WalkInv
<1>3. t # "free"
  BY Declared
<1>4. Gained(lists, lists', h, o)
  <2>1. ListsOK(lists) /\ \A g \in Heads : o \notin W!ToSet(lists[g])
    BY <1>1, <1>2 DEF PoolOK, W!Live
  <2> QED
    BY <1>1, <2>1, InsertedGains
<1>5. typeOf' \in [Objs -> Types \cup {"free"}] /\ o \in W!Live'
      /\ \A q \in W!Live : typeOf'[q] = typeOf[q]
  BY <1>1, <1>2, <1>3 DEF PoolOK, W!Live
<1> QED
  BY <1>1, <1>4, <1>5, GainSpares

(* An object that leaves a list, and the lists' order without it. *)
LEMMA LossSpares ==
  ASSUME WalkInv, UNCHANGED <<number, loop, of, var, nvar, wrong>>,
         NEW o, o # W!Anchor,
         \/ stayed' = stayed \ {o} /\ seen' = seen \ {o}
         \/ loop \notin W!ListLoops /\ stayed' = stayed /\ seen' = seen /\ typeOf' = typeOf,
         typeOf' \in [Objs -> Types \cup {"free"}],
         \A q \in W!Live \ {o} : typeOf'[q] = typeOf[q],
         ListsOK(lists'), \A g \in Heads : W!ToSet(lists'[g]) \subseteq W!Live',
         \A g \in Heads : /\ W!ToSet(lists[g]) \ {o} \subseteq W!ToSet(lists'[g])
                          /\ \A a, b \in W!ToSet(lists[g]) \ {o} :
                               Precedes(lists[g], a, b) <=> Precedes(lists'[g], a, b)
  PROVE  WalkInv'
<1>1. PoolOK /\ LoopOK
  BY DEF WalkInv
<1>2. PoolOK'
  <2>1. NumbersTell'
    BY <1>1 DEF PoolOK, NumbersTell
  <2>2. \A g \in Heads : W!ToSet(lists[g])' \subseteq W!Live'
    BY DEF W!ToSet
  <2>3. ListsOK(lists)'
    BY DEF ListsOK
  <2> QED
    BY <2>1, <2>2, <2>3 DEF PoolOK
<1>3. loop \in W!ListLoops => of \in Heads
  BY <1>1 DEF LoopOK
<1>4. \A q : q # o => Untouched(q)
  BY <1>3 DEF Untouched, W!Live
<1>5. CASE stayed' = stayed \ {o} /\ seen' = seen \ {o}
  <2>1. Spares({o})
    BY <1>3, <1>4, <1>5 DEF Spares
  <2> QED
    BY <1>2, <2>1, ChangeKeeps
<1>6. CASE loop \notin W!ListLoops /\ stayed' = stayed /\ seen' = seen /\ typeOf' = typeOf
  <2>1. \A q : Untouched(q)
    BY <1>6 DEF Untouched, W!Live
  <2>2. Spares({})
    BY <1>6, <2>1 DEF Spares
  <2> QED
    BY <1>2, <2>2, ChangeKeeps
<1> QED
  BY <1>5, <1>6

(* The order among the others, when o is taken out of a list, and when it is put in
   again. *)
LEMMA LossOrder ==
  ASSUME NEW ls, NEW ls2, NEW h \in Heads, NEW o, Lost(ls, ls2, h, o)
  PROVE  \A g \in Heads : /\ W!ToSet(ls[g]) \ {o} \subseteq W!ToSet(ls2[g])
                          /\ \A a, b \in W!ToSet(ls[g]) \ {o} :
                               Precedes(ls[g], a, b) <=> Precedes(ls2[g], a, b)
  BY DEF Lost, KeepsOrder

LEMMA GainOrder ==
  ASSUME NEW ls, NEW ls2, NEW h \in Heads, NEW o, Gained(ls, ls2, h, o)
  PROVE  \A g \in Heads : /\ W!ToSet(ls[g]) \subseteq W!ToSet(ls2[g])
                          /\ \A a, b \in W!ToSet(ls[g]) :
                               Precedes(ls[g], a, b) <=> Precedes(ls2[g], a, b)
  BY DEF Gained, KeepsOrder

LEMMA ListRemoveStep ==
  ASSUME WalkInv, NEW h \in Heads, NEW o \in Objs, W!POBJ_LIST_REMOVE(h, o)
  PROVE  WalkInv'
<1>1. /\ UNCHANGED <<number, loop, of, var, nvar, wrong, typeOf>> /\ o # W!Anchor
      /\ o \in W!ToSet(lists[h]) /\ lists' = W!Removed(lists, h, o)
      /\ \/ stayed' = stayed \ {o} /\ seen' = seen \ {o}
         \/ loop \notin W!ListLoops /\ stayed' = stayed /\ seen' = seen
  BY DEF W!POBJ_LIST_REMOVE, W!Change, W!Leaves
<1>2. PoolOK /\ W!Live' = W!Live
  BY <1>1 DEF WalkInv, W!Live
<1>3. Lost(lists, lists', h, o)
  BY <1>1, <1>2, RemovedLoses DEF PoolOK
<1>4. \A g \in Heads : W!ToSet(lists'[g]) \subseteq W!Live'
  BY <1>2, <1>3 DEF PoolOK, Lost
<1>5. ListsOK(lists')
  BY <1>3 DEF Lost
<1>6. \A g \in Heads : /\ W!ToSet(lists[g]) \ {o} \subseteq W!ToSet(lists'[g])
                       /\ \A a, b \in W!ToSet(lists[g]) \ {o} :
                            Precedes(lists[g], a, b) <=> Precedes(lists'[g], a, b)
  BY <1>3, LossOrder
<1>7. typeOf' \in [Objs -> Types \cup {"free"}]
  BY <1>1, <1>2 DEF PoolOK
<1> QED
  BY <1>1, <1>4, <1>5, <1>6, <1>7, LossSpares

LEMMA ListRemoveFreeStep ==
  ASSUME WalkInv, NEW h \in Heads, NEW o \in Objs, W!POBJ_LIST_REMOVE_FREE(h, o)
  PROVE  WalkInv'
<1>1. /\ UNCHANGED <<number, loop, of, var, nvar, wrong>> /\ o # W!Anchor
      /\ o \in W!ToSet(lists[h]) /\ lists' = W!Removed(lists, h, o)
      /\ typeOf' = [typeOf EXCEPT ![o] = "free"]
      /\ stayed' = stayed \ {o} /\ seen' = seen \ {o}
  BY DEF W!POBJ_LIST_REMOVE_FREE, W!Change, W!Leaves
<1>2. PoolOK
  BY DEF WalkInv
<1>3. Lost(lists, lists', h, o)
  BY <1>1, <1>2, RemovedLoses DEF PoolOK
<1>4. typeOf' \in [Objs -> Types \cup {"free"}] /\ W!Live \ {o} \subseteq W!Live'
      /\ \A q \in W!Live \ {o} : typeOf'[q] = typeOf[q]
  BY <1>1, <1>2 DEF PoolOK, W!Live
<1>5. \A g \in Heads : W!ToSet(lists'[g]) \subseteq W!Live'
  <2> SUFFICES ASSUME NEW g \in Heads PROVE W!ToSet(lists'[g]) \subseteq W!Live'
    OBVIOUS
  <2>1. W!ToSet(lists[g]) \subseteq W!Live
    BY <1>2 DEF PoolOK
  <2>2. CASE g = h
    BY <1>3, <1>4, <2>1, <2>2 DEF Lost
  <2>3. CASE g # h
    <3>1. o \notin W!ToSet(lists[g]) /\ lists'[g] = lists[g]
      BY <1>1, <1>2, <1>3, <2>3, ListsParts DEF PoolOK, Lost
    <3> QED
      BY <1>4, <2>1, <3>1
  <2> QED
    BY <2>2, <2>3
<1>6. ListsOK(lists')
  BY <1>3 DEF Lost
<1>7. \A g \in Heads : /\ W!ToSet(lists[g]) \ {o} \subseteq W!ToSet(lists'[g])
                       /\ \A a, b \in W!ToSet(lists[g]) \ {o} :
                            Precedes(lists[g], a, b) <=> Precedes(lists'[g], a, b)
  BY <1>3, LossOrder
<1> QED
  BY <1>1, <1>4, <1>5, <1>6, <1>7, LossSpares

LEMMA ListMoveStep ==
  ASSUME WalkInv, NEW h \in Heads, NEW h2 \in Heads, NEW o \in Objs,
         W!POBJ_LIST_MOVE_ELEMENT(h, h2, o)
  PROVE  WalkInv'
<1>1. /\ UNCHANGED <<number, loop, of, var, nvar, wrong, typeOf>> /\ o # W!Anchor
      /\ o \in W!ToSet(lists[h]) /\ lists' \in W!Inserted(W!Removed(lists, h, o), h2, o)
      /\ \/ stayed' = stayed \ {o} /\ seen' = seen \ {o}
         \/ loop \notin W!ListLoops /\ stayed' = stayed /\ seen' = seen
  BY DEF W!POBJ_LIST_MOVE_ELEMENT, W!Change, W!Leaves
<1>2. PoolOK /\ W!Live' = W!Live /\ o \in W!Live
  BY <1>1 DEF WalkInv, W!Live, PoolOK
<1> DEFINE ls == W!Removed(lists, h, o)
<1>3. Lost(lists, ls, h, o)
  BY <1>1, <1>2, RemovedLoses DEF PoolOK
<1>4. \A g \in Heads : o \notin W!ToSet(ls[g])
  <2>1. ASSUME NEW g \in Heads, g # h PROVE o \notin W!ToSet(lists[g])
    BY <1>1, <1>2, <2>1, ListsParts DEF PoolOK
  <2> HIDE DEF ls
  <2> QED
    BY <1>3, <2>1 DEF Lost
<1>5. Gained(ls, lists', h2, o)
  <2> HIDE DEF ls
  <2>1. ListsOK(ls)
    BY <1>3 DEF Lost
  <2> QED
    BY <1>1, <1>4, <2>1, InsertedGains DEF ls
<1> HIDE DEF ls
<1>6. \A g \in Heads : W!ToSet(lists'[g]) \subseteq W!Live'
  <2>1. \A g \in Heads : W!ToSet(ls[g]) \subseteq W!Live
    BY <1>2, <1>3 DEF PoolOK, Lost
  <2> QED
    BY <1>2, <1>5, <2>1 DEF Gained
<1>7. ListsOK(lists')
  BY <1>5 DEF Gained
<1>8. \A g \in Heads : /\ W!ToSet(lists[g]) \ {o} \subseteq W!ToSet(lists'[g])
                       /\ \A a, b \in W!ToSet(lists[g]) \ {o} :
                            Precedes(lists[g], a, b) <=> Precedes(lists'[g], a, b)
  <2> SUFFICES ASSUME NEW g \in Heads
               PROVE  /\ W!ToSet(lists[g]) \ {o} \subseteq W!ToSet(lists'[g])
                      /\ \A a, b \in W!ToSet(lists[g]) \ {o} :
                           Precedes(lists[g], a, b) <=> Precedes(lists'[g], a, b)
    OBVIOUS
  <2>1. /\ W!ToSet(lists[g]) \ {o} \subseteq W!ToSet(ls[g])
        /\ \A a, b \in W!ToSet(lists[g]) \ {o} :
             Precedes(lists[g], a, b) <=> Precedes(ls[g], a, b)
    BY <1>3, LossOrder
  <2>2. /\ W!ToSet(ls[g]) \subseteq W!ToSet(lists'[g])
        /\ \A a, b \in W!ToSet(ls[g]) : Precedes(ls[g], a, b) <=> Precedes(lists'[g], a, b)
    BY <1>5, GainOrder
  <2> QED
    BY <2>1, <2>2
<1>9. typeOf' \in [Objs -> Types \cup {"free"}]
  BY <1>1, <1>2 DEF PoolOK
<1> QED
  BY <1>1, <1>6, <1>7, <1>8, <1>9, LossSpares
-----------------------------------------------------------------------------
(* The loops. *)

Loops == W!WholeLoops \cup W!TypeLoops \cup W!ListLoops

(* Those of S that loop l over x comes to before o. *)
Before(l, x, o, S) ==
  CASE l = "POBJ_LIST_FOREACH"         -> {q \in S : q # o /\ Precedes(lists[x], q, o)}
    [] l = "POBJ_LIST_FOREACH_REVERSE" -> {q \in S : q # o /\ Precedes(lists[x], o, q)}
    [] OTHER                           -> {q \in S : q < o}

(* o is what the loop comes to next: all before it have been passed, or all of S if it
   is 0. *)
ComesNext(l, x, o, S, already) ==
  IF o = 0 THEN already = S
  ELSE /\ o \in W!Live /\ (l \in W!ListLoops \cup {"POBJ_NEXT"} => o \in W!Belonging(l, x))
       /\ already = Before(l, x, o, S)

LEMMA InLive ==
  ASSUME WalkAssumption, PoolOK, NEW l \in Loops, NEW x,
         l \in W!TypeLoops => x \in Types, l \in W!ListLoops => x \in Heads
  PROVE  /\ W!Belonging(l, x) \subseteq W!Live
         /\ W!Live \in SUBSET Objs /\ W!Live \in SUBSET Nat /\ 0 \notin W!Live
<1>1. W!Live \in SUBSET Objs /\ W!Live \in SUBSET Nat /\ 0 \notin W!Live
  BY DEF W!Live, WalkAssumption
<1>2. CASE l \in W!ListLoops
  BY <1>1, <1>2 DEF W!Belonging, PoolOK, W!ListLoops, W!TypeLoops, W!WholeLoops
<1>3. CASE l \notin W!ListLoops
  BY <1>1, <1>3 DEF W!Belonging, W!ListLoops, Loops
<1> QED
  BY <1>1, <1>2, <1>3

(* The objects of a type are those with its number. *)
LEMMA NumberOfType ==
  ASSUME PoolOK, NEW t \in Types, NEW o \in W!Live
  PROVE  W!pmemobj_type_num(o) = number[t] <=> typeOf[o] = t
<1>1. typeOf[o] \in Types
  BY DEF PoolOK, W!Live
<1> QED
  BY <1>1 DEF W!pmemobj_type_num, PoolOK, NumbersTell

(* The body runs for o exactly when o belongs. *)
LEMMA RunsForBelonging ==
  ASSUME PoolOK, NEW l \in Loops, NEW x, NEW o \in W!Live,
         l \in W!TypeLoops => x \in Types, l \in W!ListLoops => o \in W!Belonging(l, x)
  PROVE  W!RunsFor(l, x, o) <=> o \in W!Belonging(l, x)
<1>1. CASE l \in W!TypeLoops
  BY <1>1, NumberOfType DEF W!RunsFor, W!Belonging, W!TypeLoops, W!WholeLoops
<1>2. CASE l \in W!WholeLoops
  BY <1>2 DEF W!RunsFor, W!Belonging, W!TypeLoops, W!WholeLoops
<1>3. CASE l \in W!ListLoops
  BY <1>3 DEF W!RunsFor, W!ListLoops, W!TypeLoops
<1> QED
  BY <1>1, <1>2, <1>3 DEF Loops

LEMMA PrecedesSelf ==
  ASSUME NEW s, s \in Seq(Objs), NEW o \in W!ToSet(s)
  PROVE  Precedes(s, o, o)
<1>1. PICK i \in DOMAIN s : s[i] = o
  BY DEF W!ToSet
<1>2. i <= i
  BY <1>1
<1> QED
  BY <1>1, <1>2 DEF Precedes

LEMMA EnterKeeps ==
  ASSUME WalkAssumption, PoolOK, UNCHANGED <<number, W!pool>>,
         NEW l \in Loops, NEW x, l \in W!TypeLoops => x \in Types, l \in W!ListLoops => x \in Heads,
         of' = x, stayed' \subseteq W!Belonging(l, x),
         NEW o, NEW already, W!Enter(l, x, o, already), ComesNext(l, x, o, stayed', already)
  PROVE  WalkInv'
<1>1. /\ typeOf' = typeOf /\ lists' = lists /\ number' = number
      /\ loop' = (IF o = 0 THEN "none" ELSE l) /\ var' = o /\ nvar' \in W!NextKept(l, o)
      /\ \A s, a, b : Precedes(s, a, b)' <=> Precedes(s', a, b)
  BY DEF W!pool, W!Enter, Precedes
<1>2. PoolOK' /\ W!Live' = W!Live
  BY <1>1 DEF PoolOK, NumbersTell, ListsOK, W!Live
<1>3. \A k : W!Belonging(k, x)' = W!Belonging(k, x)
  BY <1>1, <1>2 DEF W!Belonging
<1>4. /\ W!Belonging(l, x) \subseteq W!Live
      /\ W!Live \in SUBSET Objs /\ W!Live \in SUBSET Nat /\ 0 \notin W!Live
  BY InLive
<1>5. CASE o = 0
  <2>1. loop' = "none" /\ seen' = already /\ wrong' = FALSE /\ already = stayed'
    BY <1>1, <1>5 DEF W!Enter, ComesNext
  <2>2. LoopOK'
    BY <2>1 DEF LoopOK, W!WholeLoops, W!TypeLoops, W!ListLoops, W!SafeLoops
  <2>3. Passed' = stayed'
    BY <2>1 DEF Passed, W!SafeLoops
  <2> QED
    BY <1>2, <2>1, <2>2, <2>3 DEF WalkInv
<1>6. CASE o # 0
  <2>1. /\ o \in W!Live /\ (l \in W!ListLoops \cup {"POBJ_NEXT"} => o \in W!Belonging(l, x))
        /\ already = Before(l, x, o, stayed')
    BY <1>6 DEF ComesNext
  <2>2. loop' = l /\ var' = o /\ o \in Nat /\ l # "none"
    BY <1>1, <1>4, <1>6, <2>1 DEF Loops, W!WholeLoops, W!TypeLoops, W!ListLoops
  <2>3. o \notin already
    <3>1. ~(o < o)
      BY <2>2
    <3> QED
      BY <2>1, <3>1 DEF Before
  <2>4. W!RunsFor(l, x, o) <=> o \in W!Belonging(l, x)
    BY <2>1, RunsForBelonging
  <2>5. seen' = already \cup ({o} \cap stayed') /\ wrong' = FALSE
    <3>1. CASE W!RunsFor(l, x, o)
      BY <1>6, <2>3, <2>4, <3>1 DEF W!Enter
    <3>2. CASE ~W!RunsFor(l, x, o)
      <4>1. seen' = already /\ wrong' = FALSE
        BY <1>6, <3>2 DEF W!Enter
      <4>2. o \notin stayed'
        BY <2>4, <3>2
      <4> QED
        BY <4>1, <4>2
    <3> QED
      BY <3>1, <3>2
  <2>6. l \in W!SafeLoops =>
          /\ nvar' \in W!Live \cup {0}
          /\ \A q \in W!Live : (nvar' = 0 \/ q < nvar') <=> (q < o \/ q = o)
    <3> SUFFICES ASSUME l \in W!SafeLoops
                 PROVE  /\ nvar' \in W!Live \cup {0}
                        /\ \A q \in W!Live : (nvar' = 0 \/ q < nvar') <=> (q < o \/ q = o)
      OBVIOUS
    <3> DEFINE S == {p_ \in W!Live : p_ > o}
    <3>1. nvar' = W!Lowest(S)
      BY <1>1, <1>6, <2>1 DEF W!NextKept, W!pmemobj_next
    <3>2. S \in SUBSET Objs
      BY <1>4
    <3>3. \/ S = {} /\ nvar' = 0
          \/ nvar' \in S /\ nvar' # 0 /\ \A q \in S : nvar' <= q
      BY <3>1, <3>2, LowestIs
    <3>4. CASE S = {} /\ nvar' = 0
      BY <1>4, <2>2, <3>4
    <3>5. CASE nvar' \in S /\ nvar' # 0 /\ \A q \in S : nvar' <= q
      <4>1. nvar' \in W!Live /\ nvar' > o /\ nvar' \in Nat
        BY <1>4, <3>5
      <4>2. \A q \in W!Live : q > o => nvar' <= q
        BY <3>5
      <4>3. ASSUME NEW q \in W!Live PROVE (nvar' = 0 \/ q < nvar') <=> (q < o \/ q = o)
        <5>1. q \in Nat
          BY <1>4
        <5> QED
          BY <2>2, <3>5, <4>1, <4>2, <5>1
      <4> QED
        BY <4>1, <4>3
    <3> QED
      BY <3>3, <3>4, <3>5
  <2>7. LoopOK'
    <3>1. loop' = l /\ var' = o /\ of' = x
      BY <2>2
    <3>2. W!Belonging(loop, of)' = W!Belonging(l, x)
      BY <1>3, <3>1 DEF W!Belonging
    <3>3. loop' \in W!SafeLoops => nvar' \in (W!Live \cup {0})'
      BY <1>2, <2>6, <3>1
    <3> QED
      BY <1>2, <2>1, <3>1, <3>2, <3>3 DEF LoopOK, Loops
  <2>8. Passed' = already \cup ({o} \cap stayed')
    <3>1. CASE l \in W!SafeLoops
      <4>1. already = {q \in stayed' : q < o}
        BY <2>1, <3>1 DEF Before, W!SafeLoops
      <4>2. Passed' = {q \in stayed' : nvar' = 0 \/ q < nvar'}
        BY <2>2, <3>1 DEF Passed, W!SafeLoops
      <4> QED
        BY <1>4, <2>6, <3>1, <4>1, <4>2
    <3>2. CASE l = "POBJ_LIST_FOREACH"
      <4>1. already = {q \in stayed' : q # o /\ Precedes(lists[x], q, o)}
        BY <2>1, <3>2 DEF Before
      <4>2. Passed' = {q \in stayed' : Precedes(lists[x], q, o)}
        BY <1>1, <2>2, <3>2 DEF Passed, W!SafeLoops, Precedes
      <4>3. Precedes(lists[x], o, o)
        BY <2>1, <3>2, PrecedesSelf DEF W!Belonging, W!ListLoops, W!TypeLoops, W!WholeLoops,
           PoolOK, ListsOK
      <4> QED
        BY <4>1, <4>2, <4>3
    <3>3. CASE l = "POBJ_LIST_FOREACH_REVERSE"
      <4>1. already = {q \in stayed' : q # o /\ Precedes(lists[x], o, q)}
        BY <2>1, <3>3 DEF Before
      <4>2. Passed' = {q \in stayed' : Precedes(lists[x], o, q)}
        BY <1>1, <2>2, <3>3 DEF Passed, W!SafeLoops, Precedes
      <4>3. Precedes(lists[x], o, o)
        BY <2>1, <3>3, PrecedesSelf DEF W!Belonging, W!ListLoops, W!TypeLoops, W!WholeLoops,
           PoolOK, ListsOK
      <4> QED
        BY <4>1, <4>2, <4>3
    <3>4. CASE l \notin W!SafeLoops \cup W!ListLoops
      <4>1. already = {q \in stayed' : q < o}
        BY <2>1, <3>4 DEF Before, W!ListLoops
      <4>2. Passed' = {q \in stayed' : q <= o}
        BY <2>2, <3>4 DEF Passed, W!ListLoops
      <4>3. ASSUME NEW q \in stayed' PROVE q <= o <=> q < o \/ q = o
        <5>1. q \in Nat
          BY <1>4
        <5> QED
          BY <2>2, <5>1
      <4> QED
        BY <4>1, <4>2, <4>3
    <3> QED
      BY <3>1, <3>2, <3>3, <3>4 DEF W!ListLoops
  <2> QED
    BY <1>2, <2>5, <2>7, <2>8 DEF WalkInv
<1> QED
  BY <1>5, <1>6

(* The remainders that the ring of a list needs. *)
LEMMA RingPlaces ==
  ASSUME NEW n \in Nat, NEW k \in 1 .. n
  PROVE  /\ (k % n) + 1 = (IF k = n THEN 1 ELSE k + 1)
         /\ ((k + n - 2) % n) + 1 = (IF k = 1 THEN n ELSE k - 1)
<1>1. k = n => k % n = 0
  OBVIOUS
<1>2. k # n => k % n = k
  OBVIOUS
<1>3. k = 1 => (k + n - 2) % n = n - 1
  OBVIOUS
<1>4. k # 1 => (k + n - 2) % n = k - 2
  <2> SUFFICES ASSUME k # 1 PROVE (n + (k - 2)) % n = k - 2
    OBVIOUS
  <2>1. k - 2 \in 0 .. n - 1
    OBVIOUS
  <2> QED
    BY <2>1
<1> QED
  BY <1>1, <1>2, <1>3, <1>4

LEMMA Neighbours ==
  ASSUME NEW s \in Seq(Objs), Inj(s), NEW k \in DOMAIN s
  PROVE  /\ W!POBJ_LIST_FIRST(s) = s[1] /\ W!POBJ_LIST_LAST(s) = s[Len(s)]
         /\ W!POBJ_LIST_NEXT(s, s[k]) = (IF k = Len(s) THEN s[1] ELSE s[k + 1])
         /\ W!POBJ_LIST_PREV(s, s[k]) = (IF k = 1 THEN s[Len(s)] ELSE s[k - 1])
<1>1. Len(s) \in Nat /\ k \in 1 .. Len(s) /\ s # <<>>
  OBVIOUS
<1>2. W!POBJ_LIST_FIRST(s) = s[1] /\ W!POBJ_LIST_LAST(s) = s[Len(s)]
  BY <1>1 DEF W!POBJ_LIST_FIRST, W!POBJ_LIST_LAST, W!Last
<1>3. W!Place(s, s[k]) = k
  <2>1. s[k] \in W!ToSet(s)
    BY DEF W!ToSet
  <2> QED
    BY <2>1, PlaceIs DEF Inj
<1>4. /\ W!POBJ_LIST_NEXT(s, s[k]) = s[(k % Len(s)) + 1]
      /\ W!POBJ_LIST_PREV(s, s[k]) = s[((k + Len(s) - 2) % Len(s)) + 1]
  BY <1>3 DEF W!POBJ_LIST_NEXT, W!POBJ_LIST_PREV
<1>5. /\ (k % Len(s)) + 1 = (IF k = Len(s) THEN 1 ELSE k + 1)
      /\ ((k + Len(s) - 2) % Len(s)) + 1 = (IF k = 1 THEN Len(s) ELSE k - 1)
  BY <1>1, RingPlaces
<1> QED
  BY <1>2, <1>4, <1>5

(* The first object of a loop. *)
LEMMA FirstComes ==
  ASSUME WalkAssumption, PoolOK,
         NEW l \in Loops, NEW x, l \in W!TypeLoops => x \in Types, l \in W!ListLoops => x \in Heads
  PROVE  ComesNext(l, x, W!FirstOf(l, x), W!Belonging(l, x), {})
<1> DEFINE B == W!Belonging(l, x)
           o == W!FirstOf(l, x)
<1>1. B \subseteq W!Live /\ W!Live \in SUBSET Objs /\ W!Live \in SUBSET Nat /\ 0 \notin W!Live
  BY InLive
<1>2. ASSUME NEW S \in SUBSET W!Live, B \subseteq S, o = W!Lowest(S), l \notin W!ListLoops,
             l = "POBJ_NEXT" => B = S
      PROVE  ComesNext(l, x, o, B, {})
  <2> HIDE DEF B, o
  <2>1. \/ S = {} /\ o = 0
        \/ o \in S /\ o # 0 /\ \A q \in S : o <= q
    BY <1>1, <1>2, LowestIs
  <2>2. Before(l, x, o, B) = {q \in B : q < o}
    BY <1>2 DEF Before, W!ListLoops
  <2>3. ASSUME o # 0 PROVE {q \in B : q < o} = {}
    <3> SUFFICES ASSUME NEW q \in B, q < o PROVE FALSE
      OBVIOUS
    <3>1. q \in Nat /\ o \in Nat /\ o <= q
      BY <1>1, <1>2, <2>1, <2>3
    <3> QED
      BY <3>1
  <2> QED
    BY <1>2, <2>1, <2>2, <2>3 DEF ComesNext, B
<1>3. CASE l \in W!WholeLoops \cup W!TypeLoops /\ l # "POBJ_NEXT"
  <2>1. o = W!Lowest(W!Live) /\ l \notin W!ListLoops
    BY <1>3 DEF W!FirstOf, W!pmemobj_first, W!WholeLoops, W!TypeLoops, W!ListLoops
  <2> QED
    BY <1>1, <1>2, <1>3, <2>1
<1>4. CASE l = "POBJ_NEXT"
  <2> DEFINE S == {q \in W!Live : W!pmemobj_type_num(q) = number[x]}
  <2>1. l \in W!TypeLoops /\ l \notin W!ListLoops /\ l \notin W!WholeLoops
    BY <1>4 DEF W!TypeLoops, W!ListLoops, W!WholeLoops
  <2>2. o = W!Lowest(S)
    BY <1>4 DEF W!FirstOf, W!POBJ_FIRST_TYPE_NUM
  <2>3. S = B
    BY <2>1, NumberOfType DEF W!Belonging
  <2> HIDE DEF S, o, B
  <2>4. S \in SUBSET W!Live /\ B \subseteq S /\ B = S
    BY <1>1, <2>3
  <2>5. ComesNext(l, x, o, B, {})
    BY <1>2, <2>1, <2>2, <2>4
  <2> QED
    BY <2>5 DEF o, B
<1>5. CASE l \in W!ListLoops
  <2> DEFINE s == lists[x]
  <2>1. s \in Seq(Objs) /\ Inj(s) /\ B = W!ToSet(s) /\ DOMAIN s = 1 .. Len(s) /\ Len(s) \in Nat
    BY <1>5, ListsParts DEF PoolOK, W!Belonging, W!ListLoops, W!TypeLoops, W!WholeLoops
  <2>2. CASE s = <<>>
    <3>1. B = {}
      BY <2>1, <2>2 DEF W!ToSet
    <3>2. o = 0
      BY <1>5, <2>2 DEF W!FirstOf, W!ListLoops, W!POBJ_LIST_FIRST, W!POBJ_LIST_LAST
    <3> QED
      BY <3>1, <3>2 DEF ComesNext
  <2>3. CASE s # <<>> /\ l = "POBJ_LIST_FOREACH"
    <3>1. 1 \in DOMAIN s
      BY <2>1, <2>3
    <3>2. o = s[1]
      BY <2>1, <2>3, <3>1, Neighbours DEF W!FirstOf
    <3>3. o \in B /\ o # 0
      BY <1>1, <2>1, <3>1, <3>2 DEF W!ToSet
    <3>4. ASSUME NEW q \in B, Precedes(s, q, o) PROVE q = o
      <4>1. PICK k \in DOMAIN s : q = s[k]
        BY <2>1 DEF W!ToSet
      <4>2. k <= 1
        BY <2>1, <3>1, <3>2, <3>4, <4>1, PrecedesAt
      <4> QED
        BY <2>1, <3>2, <4>1, <4>2
    <3>5. Before(l, x, o, B) = {q \in B : q # o /\ Precedes(s, q, o)}
      BY <2>3 DEF Before
    <3> HIDE DEF o, B
    <3>6. Before(l, x, o, B) = {}
      BY <3>4, <3>5
    <3>7. ComesNext(l, x, o, B, {})
      BY <1>1, <3>3, <3>6 DEF ComesNext, B
    <3> QED
      BY <3>7 DEF o, B
  <2>4. CASE s # <<>> /\ l = "POBJ_LIST_FOREACH_REVERSE"
    <3>1. 1 \in DOMAIN s /\ Len(s) \in DOMAIN s
      BY <2>1, <2>4
    <3>2. o = s[Len(s)]
      BY <2>1, <2>4, <3>1, Neighbours DEF W!FirstOf
    <3>3. o \in B /\ o # 0
      BY <1>1, <2>1, <3>1, <3>2 DEF W!ToSet
    <3>4. ASSUME NEW q \in B, Precedes(s, o, q) PROVE q = o
      <4>1. PICK k \in DOMAIN s : q = s[k]
        BY <2>1 DEF W!ToSet
      <4>2. Len(s) <= k
        BY <2>1, <3>1, <3>2, <3>4, <4>1, PrecedesAt
      <4> QED
        BY <2>1, <3>2, <4>1, <4>2
    <3>5. Before(l, x, o, B) = {q \in B : q # o /\ Precedes(s, o, q)}
      BY <2>4 DEF Before
    <3> HIDE DEF o, B
    <3>6. Before(l, x, o, B) = {}
      BY <3>4, <3>5
    <3>7. ComesNext(l, x, o, B, {})
      BY <1>1, <3>3, <3>6 DEF ComesNext, B
    <3> QED
      BY <3>7 DEF o, B
  <2> QED
    BY <1>5, <2>2, <2>3, <2>4 DEF W!ListLoops
<1> QED
  BY <1>3, <1>4, <1>5 DEF Loops

LEMMA WalkBeginStep ==
  ASSUME WalkAssumption, WalkInv, NEW l \in Loops, NEW x,
         l \in W!TypeLoops => x \in Types, l \in W!ListLoops => x \in Heads, W!Begin(l, x)
  PROVE  WalkInv'
<1>1. PoolOK
  BY DEF WalkInv
<1>2. /\ of' = x /\ stayed' = W!Belonging(l, x) /\ W!Enter(l, x, W!FirstOf(l, x), {})
      /\ UNCHANGED <<number, W!pool>>
  BY DEF W!Begin
<1>3. ComesNext(l, x, W!FirstOf(l, x), stayed', {})
  BY <1>1, <1>2, FirstComes
<1> QED
  BY <1>1, <1>2, <1>3, EnterKeeps

(* The next object of a loop. *)
LEMMA NextComes ==
  ASSUME WalkAssumption, WalkInv, loop # "none", NEW o \in W!StepsOf(loop, of, var)
  PROVE  ComesNext(loop, of, o, stayed, seen)
<1>1. /\ PoolOK /\ LoopOK /\ seen = Passed
      /\ loop \in Loops /\ stayed \subseteq W!Belonging(loop, of)
      /\ loop \in W!TypeLoops => of \in Types
      /\ loop \in W!ListLoops => of \in Heads
  BY DEF WalkInv, LoopOK, Loops
<1>2. /\ W!Belonging(loop, of) \subseteq W!Live /\ W!Live \in SUBSET Objs /\ W!Live \in SUBSET Nat
      /\ 0 \notin W!Live /\ stayed \in SUBSET Nat
  BY <1>1, InLive
<1>3. CASE loop \in W!SafeLoops
  <2>1. o = nvar /\ nvar \in W!Live \cup {0} /\ loop \notin W!ListLoops \cup {"POBJ_NEXT"}
    BY <1>1, <1>3 DEF W!StepsOf, W!ForeachStep, W!SafeLoops, W!ListLoops, LoopOK
  <2>2. seen = {q \in stayed : nvar = 0 \/ q < nvar}
    BY <1>1, <1>3 DEF Passed, W!SafeLoops
  <2>3. Before(loop, of, o, stayed) = {q \in stayed : q < o}
    BY <1>3 DEF Before, W!SafeLoops
  <2>4. CASE o = 0
    BY <2>1, <2>2, <2>4 DEF ComesNext
  <2>5. CASE o # 0
    BY <2>1, <2>2, <2>3, <2>5 DEF ComesNext
  <2> QED
    BY <2>4, <2>5
<1>4. ASSUME loop \notin W!SafeLoops \cup W!ListLoops,
             NEW S \in SUBSET {q \in W!Live : q > var}, o = W!Lowest(S),
             \A q \in stayed : q > var => q \in S,
             loop = "POBJ_NEXT" => S \subseteq W!Belonging(loop, of)
      PROVE  ComesNext(loop, of, o, stayed, seen)
  <2>1. \/ S = {} /\ o = 0
        \/ o \in S /\ o # 0 /\ \A q \in S : o <= q
    BY <1>2, <1>4, LowestIs
  <2>2. seen = {q \in stayed : q <= var} /\ var \in Nat
    BY <1>1, <1>2, <1>4 DEF Passed, W!ListLoops, LoopOK
  <2>3. Before(loop, of, o, stayed) = {q \in stayed : q < o}
    BY <1>4 DEF Before, W!ListLoops
  <2>4. CASE S = {} /\ o = 0
    <3>1. ASSUME NEW q \in stayed PROVE q <= var
      <4>1. q \in Nat /\ ~(q > var)
        BY <1>2, <1>4, <2>4
      <4> QED
        BY <2>2, <4>1
    <3> QED
      BY <2>2, <2>4, <3>1 DEF ComesNext
  <2>5. CASE o \in S /\ o # 0 /\ \A q \in S : o <= q
    <3>1. o \in W!Live /\ o \in Nat /\ o > var
      BY <1>2, <1>4, <2>5
    <3>2. ASSUME NEW q \in stayed PROVE q <= var <=> q < o
      <4>1. q \in Nat /\ (q > var => o <= q)
        BY <1>2, <1>4, <2>5
      <4> QED
        BY <2>2, <3>1, <4>1
    <3>3. seen = Before(loop, of, o, stayed)
      BY <2>2, <2>3, <3>2
    <3> QED
      BY <1>4, <2>5, <3>1, <3>3 DEF ComesNext
  <2> QED
    BY <2>1, <2>4, <2>5
<1>5. CASE loop \in {"POBJ_FOREACH", "POBJ_FOREACH_TYPE"}
  <2> DEFINE S == {q \in W!Live : q > var}
  <2>1. loop \notin W!SafeLoops \cup W!ListLoops /\ var \in W!Live /\ loop # "POBJ_NEXT"
    BY <1>1, <1>5 DEF W!SafeLoops, W!ListLoops, LoopOK
  <2>2. W!StepsOf(loop, of, var) = W!pmemobj_next(var)
    BY <1>5, <2>1 DEF W!StepsOf, W!ForeachStep
  <2>3. o = W!Lowest(S)
    BY <2>1, <2>2 DEF W!pmemobj_next
  <2>4. S \in SUBSET {q \in W!Live : q > var} /\ \A q \in stayed : q > var => q \in S
    BY <1>1, <1>2
  <2> HIDE DEF S
  <2> QED
    BY <1>4, <2>1, <2>3, <2>4
<1>6. CASE loop = "POBJ_NEXT"
  <2> DEFINE S == {q \in W!Live : q > var /\ W!pmemobj_type_num(q) = W!pmemobj_type_num(var)}
  <2>1. /\ loop \notin W!SafeLoops \cup W!ListLoops /\ loop \in W!TypeLoops /\ of \in Types
        /\ var \in W!Belonging(loop, of)
    BY <1>1, <1>6 DEF W!SafeLoops, W!ListLoops, W!TypeLoops, LoopOK
  <2>2. W!Belonging(loop, of) = {q \in W!Live : typeOf[q] = of}
    BY <2>1 DEF W!Belonging, W!TypeLoops, W!WholeLoops
  <2>3. var \in W!Live /\ W!pmemobj_type_num(var) = number[of]
    BY <1>1, <2>1, <2>2, NumberOfType
  <2>4. \A q \in W!Live :
          W!pmemobj_type_num(q) = W!pmemobj_type_num(var) <=> q \in W!Belonging(loop, of)
    BY <1>1, <2>1, <2>2, <2>3, NumberOfType
  <2>5. o = W!Lowest(S)
    BY <1>6 DEF W!StepsOf, W!POBJ_NEXT_TYPE_NUM
  <2>6. /\ S \in SUBSET {q \in W!Live : q > var} /\ S \subseteq W!Belonging(loop, of)
        /\ \A q \in stayed : q > var => q \in S
    BY <1>1, <1>2, <2>4
  <2> HIDE DEF S
  <2> QED
    BY <1>4, <2>1, <2>5, <2>6
<1>7. CASE loop \in W!ListLoops
  <2> DEFINE s == lists[of]
  <2>1. /\ s \in Seq(Objs) /\ Inj(s) /\ W!Belonging(loop, of) = W!ToSet(s)
        /\ DOMAIN s = 1 .. Len(s) /\ Len(s) \in Nat
        /\ var \in W!ToSet(s)
    BY <1>1, <1>7, ListsParts DEF PoolOK, W!Belonging, W!ListLoops, W!TypeLoops, W!WholeLoops,
       LoopOK
  <2>2. PICK k \in DOMAIN s : var = s[k]
    BY <2>1 DEF W!ToSet
  <2>3. /\ W!POBJ_LIST_FIRST(s) = s[1] /\ W!POBJ_LIST_LAST(s) = s[Len(s)]
        /\ W!POBJ_LIST_NEXT(s, var) = (IF k = Len(s) THEN s[1] ELSE s[k + 1])
        /\ W!POBJ_LIST_PREV(s, var) = (IF k = 1 THEN s[Len(s)] ELSE s[k - 1])
    BY <2>1, <2>2, Neighbours
  <2>4. /\ \A q \in stayed : \E m \in DOMAIN s : q = s[m]
        /\ \A m \in DOMAIN s : s[m] \in W!Live /\ s[m] # 0 /\ s[m] \in W!Belonging(loop, of)
        /\ 1 \in DOMAIN s /\ Len(s) \in DOMAIN s
    <3>1. \A m \in DOMAIN s : s[m] \in W!Belonging(loop, of)
      BY <2>1 DEF W!ToSet
    <3>2. 1 \in DOMAIN s /\ Len(s) \in DOMAIN s
      BY <2>1, <2>2
    <3>3. \A q \in stayed : q \in W!ToSet(s)
      BY <1>1, <2>1
    <3>4. \A q \in stayed : \E m \in DOMAIN s : q = s[m]
      BY <3>3 DEF W!ToSet
    <3> HIDE DEF s
    <3> QED
      BY <1>2, <3>1, <3>2, <3>4
  <2>5. \A m, n \in DOMAIN s : (s[m] = s[n] => m = n) /\ (Precedes(s, s[m], s[n]) <=> m <= n)
    BY <2>1, PrecedesAt DEF Inj
  <2>6. CASE loop = "POBJ_LIST_FOREACH"
    <3>1. /\ seen = {q \in stayed : Precedes(s, q, var)}
          /\ \A y : Before(loop, of, y, stayed) = {q \in stayed : q # y /\ Precedes(s, q, y)}
      BY <1>1, <2>6 DEF Passed, W!SafeLoops, Before
    <3>2. o = W!ListForeachStep(s, var)
      BY <2>6 DEF W!StepsOf
    <3> HIDE DEF s
    <3>3. CASE k = Len(s)
      <4>1. o = 0
        BY <2>3, <3>2, <3>3 DEF W!ListForeachStep
      <4>2. ASSUME NEW q \in stayed PROVE Precedes(s, q, var)
        BY <2>1, <2>2, <2>4, <2>5, <3>3
      <4> QED
        BY <3>1, <4>1, <4>2 DEF ComesNext
    <3>4. CASE k # Len(s)
      <4>1. k + 1 \in DOMAIN s /\ k + 1 # 1
        BY <2>1, <3>4
      <4>2. o = s[k + 1]
        BY <2>3, <2>4, <2>5, <3>2, <3>4, <4>1 DEF W!ListForeachStep
      <4>3. ASSUME NEW q \in stayed PROVE Precedes(s, q, var) <=> q # o /\ Precedes(s, q, o)
        <5>1. PICK m \in DOMAIN s : q = s[m]
          BY <2>4
        <5>2. /\ Precedes(s, q, var) <=> m <= k
              /\ q # o <=> m # k + 1
              /\ Precedes(s, q, o) <=> m <= k + 1
          BY <2>2, <2>5, <4>1, <4>2, <5>1
        <5> QED
          BY <2>1, <5>2
      <4>4. seen = Before(loop, of, o, stayed)
        BY <3>1, <4>3
      <4> QED
        BY <2>4, <4>1, <4>2, <4>4 DEF ComesNext
    <3> QED
      BY <3>3, <3>4
  <2>7. CASE loop = "POBJ_LIST_FOREACH_REVERSE"
    <3>1. /\ seen = {q \in stayed : Precedes(s, var, q)}
          /\ \A y : Before(loop, of, y, stayed) = {q \in stayed : q # y /\ Precedes(s, y, q)}
      BY <1>1, <2>7 DEF Passed, W!SafeLoops, Before
    <3>2. o = W!ListForeachReverseStep(s, var)
      BY <2>7 DEF W!StepsOf
    <3> HIDE DEF s
    <3>3. CASE k = 1
      <4>1. o = 0
        BY <2>3, <3>2, <3>3 DEF W!ListForeachReverseStep
      <4>2. ASSUME NEW q \in stayed PROVE Precedes(s, var, q)
        BY <2>1, <2>2, <2>4, <2>5, <3>3
      <4> QED
        BY <3>1, <4>1, <4>2 DEF ComesNext
    <3>4. CASE k # 1
      <4>1. k - 1 \in DOMAIN s /\ k - 1 # Len(s)
        BY <2>1, <3>4
      <4>2. o = s[k - 1]
        BY <2>3, <2>4, <2>5, <3>2, <3>4, <4>1 DEF W!ListForeachReverseStep
      <4>3. ASSUME NEW q \in stayed PROVE Precedes(s, var, q) <=> q # o /\ Precedes(s, o, q)
        <5>1. PICK m \in DOMAIN s : q = s[m]
          BY <2>4
        <5>2. /\ Precedes(s, var, q) <=> k <= m
              /\ q # o <=> m # k - 1
              /\ Precedes(s, o, q) <=> k - 1 <= m
          BY <2>2, <2>5, <4>1, <4>2, <5>1
        <5> QED
          BY <2>1, <5>2
      <4>4. seen = Before(loop, of, o, stayed)
        BY <3>1, <4>3
      <4> QED
        BY <2>4, <4>1, <4>2, <4>4 DEF ComesNext
    <3> QED
      BY <3>3, <3>4
  <2> QED
    BY <1>7, <2>6, <2>7 DEF W!ListLoops
<1> QED
  BY <1>1, <1>3, <1>5, <1>6, <1>7 DEF Loops, W!WholeLoops, W!TypeLoops, W!SafeLoops

LEMMA WalkStepStep ==
  ASSUME WalkAssumption, WalkInv, W!Step
  PROVE  WalkInv'
<1>1. loop # "none" /\ UNCHANGED <<stayed, number, W!pool, of, changes>>
  BY DEF W!Step
<1>2. PICK o \in W!StepsOf(loop, of, var) : W!Enter(loop, of, o, seen)
  BY DEF W!Step
<1>3. ComesNext(loop, of, o, stayed, seen)
  BY <1>1, NextComes
<1>4. /\ PoolOK /\ loop \in Loops /\ stayed \subseteq W!Belonging(loop, of)
      /\ loop \in W!TypeLoops => of \in Types
      /\ loop \in W!ListLoops => of \in Heads
  BY <1>1 DEF WalkInv, LoopOK, Loops
<1> QED
  <2>1. PICK l_, x_, s_ : l_ = loop /\ x_ = of /\ s_ = seen
    OBVIOUS
  <2>2. of' = x_ /\ stayed' \subseteq W!Belonging(l_, x_) /\ UNCHANGED <<number, W!pool>>
    BY <1>1, <1>4, <2>1
  <2>3. W!Enter(l_, x_, o, s_) /\ ComesNext(l_, x_, o, stayed', s_)
    BY <1>1, <1>2, <1>3, <2>1
  <2>4. /\ l_ \in Loops /\ PoolOK
        /\ l_ \in W!TypeLoops => x_ \in Types
        /\ l_ \in W!ListLoops => x_ \in Heads
    BY <1>4, <2>1
  <2> QED
    BY <2>2, <2>3, <2>4, EnterKeeps
-----------------------------------------------------------------------------
LEMMA WalkInit ==
  ASSUME WalkAssumption, W!Init
  PROVE  WalkInv
<1>1. NumbersTell
  BY NumbersDiffer DEF W!Init
<1>2. typeOf \in [Objs -> Types \cup {"free"}] /\ lists = [h \in Heads |-> <<>>]
  BY DEF W!Init
<1>3. ListsOK(lists)
  BY <1>2 DEF ListsOK
<1>4. \A h \in Heads : W!ToSet(lists[h]) \subseteq W!Live
  BY <1>2 DEF W!ToSet
<1>5. PoolOK
  BY <1>1, <1>2, <1>3, <1>4 DEF PoolOK
<1>6. loop = "none" /\ stayed = {} /\ seen = {} /\ wrong = FALSE
  BY DEF W!Init
<1>7. LoopOK
  BY <1>6 DEF LoopOK, W!WholeLoops, W!TypeLoops, W!ListLoops, W!SafeLoops
<1>8. Passed = {}
  BY <1>6 DEF Passed, W!SafeLoops
<1> QED
  BY <1>5, <1>6, <1>7, <1>8 DEF WalkInv

LEMMA WalkNext ==
  ASSUME WalkAssumption, WalkInv, [W!Next]_W!vars
  PROVE  WalkInv'
<1>1. CASE W!Step
  BY <1>1, WalkStepStep
<1>2. ASSUME NEW l \in W!WholeLoops, W!Begin(l, "none") PROVE WalkInv'
  <2>1. l \in Loops /\ l \notin W!TypeLoops /\ l \notin W!ListLoops
    BY DEF Loops, W!WholeLoops, W!TypeLoops, W!ListLoops
  <2> QED
    BY <1>2, <2>1, WalkBeginStep
<1>3. ASSUME NEW l \in W!TypeLoops, NEW t \in Types, W!Begin(l, t) PROVE WalkInv'
  <2>1. l \in Loops /\ l \notin W!ListLoops
    BY DEF Loops, W!TypeLoops, W!ListLoops
  <2> QED
    BY <1>3, <2>1, WalkBeginStep
<1>4. ASSUME NEW l \in W!ListLoops, NEW h \in Heads, W!Begin(l, h) PROVE WalkInv'
  <2>1. l \in Loops /\ l \notin W!TypeLoops
    BY DEF Loops, W!TypeLoops, W!ListLoops
  <2> QED
    BY <1>4, <2>1, WalkBeginStep
<1>5. ASSUME NEW o \in Objs, NEW t \in Types, W!POBJ_NEW(o, t) PROVE WalkInv'
  BY <1>5, NewStep
<1>6. ASSUME NEW o \in Objs, W!POBJ_FREE(o) PROVE WalkInv'
  BY <1>6, FreeObjectStep
<1>7. ASSUME NEW o \in Objs, NEW new \in Objs, W!POBJ_REALLOC(o, new) PROVE WalkInv'
  BY <1>7, ReallocObjectStep
<1>8. ASSUME NEW h \in Heads, NEW o \in Objs, W!POBJ_LIST_INSERT(h, o) PROVE WalkInv'
  BY <1>8, ListInsertStep
<1>9. ASSUME NEW h \in Heads, NEW o \in Objs, W!POBJ_LIST_REMOVE(h, o) PROVE WalkInv'
  BY <1>9, ListRemoveStep
<1>10. ASSUME NEW h \in Heads, NEW o \in Objs, W!POBJ_LIST_REMOVE_FREE(h, o) PROVE WalkInv'
  BY <1>10, ListRemoveFreeStep
<1>11. ASSUME NEW h \in Heads, NEW o \in Objs, NEW t \in Types, W!POBJ_LIST_INSERT_NEW(h, o, t)
       PROVE  WalkInv'
  BY <1>11, ListInsertNewStep
<1>12. ASSUME NEW h \in Heads, NEW o \in Objs, NEW h2 \in Heads,
              W!POBJ_LIST_MOVE_ELEMENT(h, h2, o)
       PROVE  WalkInv'
  BY <1>12, ListMoveStep
<1>13. CASE UNCHANGED W!vars
  BY <1>13 DEF W!vars, W!pool, W!walk, WalkInv, PoolOK, NumbersTell, ListsOK, LoopOK, Passed,
     W!Live, W!Belonging, Precedes
<1> QED
  BY <1>1, <1>2, <1>3, <1>4, <1>5, <1>6, <1>7, <1>8, <1>9, <1>10, <1>11, <1>12, <1>13 DEF W!Next

LEMMA WalkInvMeans ==
  ASSUME WalkInv
  PROVE  W!WalkVisitsOnce
  BY DEF WalkInv, W!WalkVisitsOnce, Passed, W!SafeLoops
-----------------------------------------------------------------------------
(* The parts leave each other alone, so the composition is each of the parts. *)
THEOREM PartsApart == PartSpec => Spec /\ A!Spec
<1>1. PartInit => Init /\ A!Init
  BY DEF PartInit
<1>2. [PartNext]_<<part, accessVars, walkVars, vars>> => [Next]_vars /\ [A!Next]_A!vars
  BY DEF PartNext, accessVars, A!vars
<1> QED
  BY <1>1, <1>2, PTL DEF PartSpec, Spec, A!Spec

(* StoresRollBack for any objects, fields and bytes: in every state, also in the middle
   of a transaction, an abort would give back the objects of its beginning, and their
   values but where a macro stored without the snapshot it had asked for. *)
THEOREM PartsStoresRollBack == PartSpec => []StoresRollBack
  BY PartsApart, StoresGiveBack, PTL

(* DirectIsCurrent for every number of threads and pools: pmemobj_direct never gives
   an address of a mapping that is gone, whatever other threads close meanwhile. *)
THEOREM PartsDirectIsCurrent == PartSpec => DirectIsCurrent
  BY PartsApart, AccessDirectIsCurrent, PTL DEF DirectIsCurrent

(* A loop visits each object once, wherever the counter of type numbers starts: WalkInv,
   while that part runs. *)
WalksWhole == part = "walks" => WalkInv

THEOREM WalksInvariant == PartSpec => []WalksWhole
<1>1. PartInit => WalksWhole
  BY WalkAssumption, WalkInit DEF PartInit, WalksWhole
<1>2. WalksWhole /\ [PartNext]_<<part, accessVars, walkVars, vars>> => WalksWhole'
  <2> SUFFICES ASSUME WalksWhole, [PartNext]_<<part, accessVars, walkVars, vars>>,
                      part' = "walks"
               PROVE  WalkInv'
    BY DEF WalksWhole
  <2>1. WalkInv /\ [W!Next]_W!vars
    BY DEF WalksWhole, PartNext, walkVars, W!vars, W!pool, W!walk
  <2> QED
    BY <2>1, WalkAssumption, WalkNext
<1> QED
  BY <1>1, <1>2, PTL DEF PartSpec

(* WalkVisitsOnce for any objects, lists and changes: each loop of iterator.h and
   lists_atomic.h runs its body once for every object that belongs to it throughout,
   while the body inserts, moves, reallocates and frees others. *)
THEOREM PartsWalkVisitsOnce == PartSpec => []WalkVisitsOnce
<1>1. WalksWhole => WalkVisitsOnce
  BY WalkInvMeans DEF WalksWhole, WalkVisitsOnce
<1> QED
  BY <1>1, WalksInvariant, PTL
=============================================================================
