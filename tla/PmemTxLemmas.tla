---------------------------- MODULE PmemTxLemmas ----------------------------
(***************************************************************************)
(* Facts about the operators of PmemTx, for any memory and transaction:    *)
(* which of them leave what a rollback gives back as it is, and when.      *)
(***************************************************************************)
EXTENDS PmemTx, TLAPS

(* p has the shape the operators of PmemTx expect. *)
IsTx(p) ==
  p = [mem |-> p.mem, undo |-> p.undo, fresh |-> p.fresh, doomed |-> p.doomed]

(* A store to l is covered: the undo log restores l, or l goes away with its
   object. *)
Covered(p, l) == l \in DOMAIN p.mem => (l \in DOMAIN p.undo \/ l[1] \in p.fresh)

(* What each operator changes, field by field. *)
LEMMA NoTxFields ==
  ASSUME NEW m
  PROVE  /\ IsTx(NoTx(m)) /\ NoTx(m).mem = m /\ NoTx(m).undo = <<>>
         /\ NoTx(m).fresh = {} /\ NoTx(m).doomed = {}
  BY DEF IsTx, NoTx

(* A store changes nothing but the memory. *)
LEMMA StoreFields ==
  ASSUME NEW p, IsTx(p), NEW l, NEW v
  PROVE  LET q == Store(p, l, v)
         IN  /\ IsTx(q) /\ q.mem = [p.mem EXCEPT ![l] = v]
             /\ q.undo = p.undo /\ q.fresh = p.fresh /\ q.doomed = p.doomed
  BY DEF IsTx, Store

(* It changes one location at most, and allocates none. *)
LEMMA StoreDomain ==
  ASSUME NEW p, IsTx(p), NEW l, NEW v
  PROVE  /\ DOMAIN Store(p, l, v).mem = DOMAIN p.mem
         /\ \A x \in DOMAIN p.mem : x # l => Store(p, l, v).mem[x] = p.mem[x]
         /\ l \in DOMAIN p.mem => Store(p, l, v).mem[l] = v
<1>1. Store(p, l, v).mem = [p.mem EXCEPT ![l] = v]
  BY StoreFields
<1> QED
  BY <1>1

(* A store to a covered location does not change what a rollback gives back. *)
LEMMA StoreRecovered ==
  ASSUME NEW p, IsTx(p), NEW l, NEW v, Covered(p, l)
  PROVE  Recovered(Store(p, l, v)) = Recovered(p)
<1> DEFINE q == Store(p, l, v)
<1>1. /\ q.mem = [p.mem EXCEPT ![l] = v]
      /\ q.undo = p.undo /\ q.fresh = p.fresh
  BY StoreFields
<1>2. DOMAIN q.mem = DOMAIN p.mem
  BY <1>1
<1>3. \A x \in DOMAIN p.mem : x # l => q.mem[x] = p.mem[x]
  BY <1>1
<1> QED
  BY <1>1, <1>2, <1>3 DEF Recovered, LocsOf, Covered

(* TX_ADD logs the locations that are there and are not of this transaction. *)
LEMMA TxAddFields ==
  ASSUME NEW p, IsTx(p), NEW L
  PROVE  LET q == TxAdd(p, L)
         IN  /\ IsTx(q) /\ q.mem = p.mem /\ q.fresh = p.fresh /\ q.doomed = p.doomed
             /\ DOMAIN q.undo =
                  DOMAIN p.undo \cup {l \in L \cap DOMAIN p.mem : l[1] \notin p.fresh}
  BY DEF IsTx, TxAdd

(* Taking snapshots changes nothing that a rollback gives back. *)
LEMMA TxAddRecovered ==
  ASSUME NEW p, IsTx(p), NEW L
  PROVE  Recovered(TxAdd(p, L)) = Recovered(p)
  BY TxAddFields DEF Recovered, LocsOf, TxAdd, IsTx

(* TX_NEW adds the object and remembers that it is new. *)
LEMMA TxAllocFields ==
  ASSUME NEW p, IsTx(p), NEW o, NEW c
  PROVE  LET q == TxAlloc(p, o, c)
         IN  /\ IsTx(q)
             /\ DOMAIN q.mem = DOMAIN p.mem \cup DOMAIN c
             /\ \A l \in DOMAIN c : q.mem[l] = c[l]
             /\ \A l \in DOMAIN p.mem \ DOMAIN c : q.mem[l] = p.mem[l]
             /\ q.undo = p.undo /\ q.fresh = p.fresh \cup {o} /\ q.doomed = p.doomed
<1> DEFINE m == [l \in DOMAIN p.mem \cup DOMAIN c |->
                   IF l \in DOMAIN c THEN c[l] ELSE p.mem[l]]
<1>1. TxAlloc(p, o, c) = [mem |-> m, undo |-> p.undo,
                          fresh |-> p.fresh \cup {o}, doomed |-> p.doomed]
  <2> HIDE DEF m
  <2>1. TxAlloc(p, o, c) = [p EXCEPT !.mem = m, !.fresh = p.fresh \cup {o}]
    BY DEF TxAlloc, m
  <2> QED
    BY <2>1 DEF IsTx
<1> QED
  BY <1>1 DEF IsTx

(* Allocating an object that was not there changes nothing either. *)
LEMMA TxAllocRecovered ==
  ASSUME NEW p, IsTx(p), NEW o, NEW c,
         o \notin Objects(p.mem), \A l \in DOMAIN c : l[1] = o
  PROVE  Recovered(TxAlloc(p, o, c)) = Recovered(p)
<1> DEFINE q == TxAlloc(p, o, c)
<1>1. /\ DOMAIN q.mem = DOMAIN p.mem \cup DOMAIN c
      /\ \A l \in DOMAIN p.mem \ DOMAIN c : q.mem[l] = p.mem[l]
      /\ q.undo = p.undo /\ q.fresh = p.fresh \cup {o}
  BY TxAllocFields
<1>2. \A l \in DOMAIN p.mem : l[1] # o
  BY DEF Objects
<1>3. DOMAIN q.mem \ LocsOf(q.mem, q.fresh) = DOMAIN p.mem \ LocsOf(p.mem, p.fresh)
  BY <1>1, <1>2 DEF LocsOf
<1>4. \A l \in DOMAIN p.mem \ LocsOf(p.mem, p.fresh) : q.mem[l] = p.mem[l]
  BY <1>1, <1>2
<1> QED
  BY <1>1, <1>3, <1>4 DEF Recovered

(* TX_FREE of an object of this transaction takes it away at once. *)
LEMMA TxFreeFresh ==
  ASSUME NEW p, IsTx(p), NEW o, o \in p.fresh
  PROVE  LET q == TxFree(p, o)
         IN  /\ IsTx(q) /\ q.mem = Without(p.mem, {o}) /\ q.undo = p.undo
             /\ q.fresh = p.fresh \ {o} /\ q.doomed = p.doomed
  BY DEF IsTx, TxFree

(* TX_FREE of any other object only marks it. *)
LEMMA TxFreeLater ==
  ASSUME NEW p, IsTx(p), NEW o, o \notin p.fresh
  PROVE  LET q == TxFree(p, o)
         IN  /\ IsTx(q) /\ q.mem = p.mem /\ q.undo = p.undo
             /\ q.fresh = p.fresh /\ q.doomed = p.doomed \cup {o}
  BY DEF IsTx, TxFree

(* Nor does freeing one. *)
LEMMA TxFreeRecovered ==
  ASSUME NEW p, IsTx(p), NEW o
  PROVE  Recovered(TxFree(p, o)) = Recovered(p) /\ IsTx(TxFree(p, o))
<1>1. CASE o \notin p.fresh
  BY <1>1, TxFreeLater DEF Recovered
<1>2. CASE o \in p.fresh
  <2> DEFINE q == TxFree(p, o)
  <2>1. q.mem = Without(p.mem, {o}) /\ q.fresh = p.fresh \ {o} /\ q.undo = p.undo
    BY <1>2, TxFreeFresh
  <2>2. DOMAIN q.mem = {l \in DOMAIN p.mem : l[1] # o}
    BY <2>1 DEF Without, LocsOf
  <2>3. DOMAIN q.mem \ LocsOf(q.mem, q.fresh) = DOMAIN p.mem \ LocsOf(p.mem, p.fresh)
    BY <1>2, <2>1, <2>2 DEF LocsOf
  <2>4. \A l \in DOMAIN q.mem : q.mem[l] = p.mem[l]
    BY <2>1 DEF Without
  <2>5. Recovered(q) = Recovered(p)
    BY <2>1, <2>3, <2>4 DEF Recovered
  <2> QED
    BY <1>2, <2>5, TxFreeFresh
<1> QED
  BY <1>1, <1>2

(* With no transaction running a rollback gives back the memory itself. *)
LEMMA NoTxRecovered ==
  ASSUME NEW D, NEW m, m = [l \in D |-> m[l]]
  PROVE  Recovered(NoTx(m)) = m
  BY NoTxFields DEF Recovered, LocsOf

(* So a commit makes the memory durable. *)
LEMMA CommitRecovered ==
  ASSUME NEW p
  PROVE  Recovered(Commit(p)) = Commit(p).mem /\ IsTx(Commit(p))
<1> DEFINE m == Without(p.mem, p.doomed)
<1>1. m = [l \in DOMAIN p.mem \ LocsOf(p.mem, p.doomed) |-> m[l]]
  BY DEF Without
<1> QED
  BY <1>1, NoTxRecovered, NoTxFields DEF Commit

(* And a rollback is final: rolling back again gives the same memory. *)
LEMMA RollbackRecovered ==
  ASSUME NEW p
  PROVE  Recovered(Rollback(p)) = Recovered(p) /\ IsTx(Rollback(p))
<1> DEFINE m == Recovered(p)
<1>1. m = [l \in DOMAIN p.mem \ LocsOf(p.mem, p.fresh) |-> m[l]]
  BY DEF Recovered
<1> QED
  BY <1>1, NoTxRecovered, NoTxFields DEF Rollback
=============================================================================
