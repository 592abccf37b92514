------------------------------ MODULE TxStores -------------------------------
(***************************************************************************)
(* The functions of libpmemobj/tx_base.h and the macros of libpmemobj/tx.h *)
(* with which the code in a WORK section snapshots, stores, allocates and  *)
(* frees, when each of them may fail.  A function is declared there and    *)
(* defined in the library; its effect on memory is in PmemTx.  A failing   *)
(* one aborts the transaction, unless its flags or the failure behavior of *)
(* the transaction have it return an error.  TX_SET, TX_MEMCPY and         *)
(* TX_MEMSET drop that error and store all the same.                       *)
(***************************************************************************)
EXTENDS PmemTx, FiniteSets

CONSTANTS
  Oids,    \* bound: the objects the pool has room for
  Fields,  \* of every object
  Bytes    \* the values of a field, among them 0

VARIABLES
  p,         \* memory and the running transaction, as in PmemTx
  running,
  behavior,  \* pobj_tx_failure_behavior of the transaction
  before,    \* history: the memory when it began, or as it was left by a commit
  unsaved    \* history: what a macro has stored to, or was told not to snapshot,
             \* without the snapshot it asked for

vars == <<p, running, behavior, before, unsaved>>

At(o, F) == {<<o, f>> : f \in F}
Usable == Objects(p.mem) \ p.doomed

Init ==
  /\ \E O \in SUBSET Oids : \E m \in [O \X Fields -> Bytes] : p = NoTx(m) /\ before = m
  /\ running = FALSE /\ behavior = "ABORT" /\ unsaved = {}

(* The failure behavior of a transaction is to abort, until the code sets another. *)
Begin ==
  /\ ~running /\ running' = TRUE
  /\ behavior' = "ABORT"
  /\ before' = p.mem /\ unsaved' = {}
  /\ UNCHANGED p

pmemobj_tx_set_failure_behavior(b) ==
  /\ running /\ behavior' = b
  /\ UNCHANGED <<p, running, before, unsaved>>
-----------------------------------------------------------------------------
(* The functions.  Each succeeds, or fails in one of two ways. *)

POBJ_XADD_FLAGS == {"NO_SNAPSHOT", "NO_ABORT"}
POBJ_XALLOC_FLAGS == {"NO_ABORT"}
POBJ_XFREE_FLAGS == {"NO_ABORT"}

Goes(q) == running /\ p' = q /\ UNCHANGED <<running, behavior, before>>

(* An error is returned, and the code goes on with q. *)
FailsReturning(flags, q) == (behavior = "RETURN" \/ "NO_ABORT" \in flags) /\ Goes(q)

FailsAborting(flags) ==
  /\ running /\ behavior = "ABORT" /\ "NO_ABORT" \notin flags
  /\ p' = Rollback(p) /\ running' = FALSE
  /\ UNCHANGED <<behavior, before, unsaved>>

Snapshotted(L, flags) == IF "NO_SNAPSHOT" \in flags THEN p ELSE TxAdd(p, L)
Skipped(L, flags) == IF "NO_SNAPSHOT" \in flags THEN L ELSE {}

pmemobj_tx_xadd_range(L, flags) ==
  \/ Goes(Snapshotted(L, flags)) /\ unsaved' = unsaved \cup Skipped(L, flags)
  \/ FailsReturning(flags, p) /\ UNCHANGED unsaved
  \/ FailsAborting(flags)

pmemobj_tx_xalloc(o, contents, flags) ==
  /\ o \notin Objects(p.mem) /\ UNCHANGED unsaved
  /\ \/ Goes(TxAlloc(p, o, contents))
     \/ FailsReturning(flags, p)
     \/ FailsAborting(flags)

(* Another object with the contents of o, which is freed. *)
Moved(o, new) ==
  TxFree(TxAlloc(p, new, [l \in At(new, Fields) |-> p.mem[<<o, l[2]>>]]), o)

pmemobj_tx_realloc(o, new) ==
  /\ new \notin Objects(p.mem) /\ UNCHANGED unsaved
  /\ Goes(Moved(o, new)) \/ FailsReturning({}, p) \/ FailsAborting({})

pmemobj_tx_xfree(o, flags) ==
  /\ UNCHANGED unsaved
  /\ Goes(TxFree(p, o)) \/ FailsReturning(flags, p) \/ FailsAborting(flags)

pmemobj_tx_commit ==
  /\ running /\ running' = FALSE
  /\ p' = Commit(p) /\ before' = p'.mem /\ unsaved' = {}
  /\ UNCHANGED behavior

(* Also a crash and the next pmemobj_open. *)
pmemobj_tx_abort ==
  /\ running /\ running' = FALSE
  /\ p' = Rollback(p)
  /\ UNCHANGED <<behavior, before, unsaved>>
-----------------------------------------------------------------------------
(* The macros. *)

(* TX_ADD* and TX_XADD*: the code looks at the result before it stores. *)
TX_XADD(L, flags) == pmemobj_tx_xadd_range(L, flags)

(* A plain store, to what was added or has been allocated. *)
Assign(o, field, value) ==
  /\ <<o, field>> \in DOMAIN p.undo \cup unsaved \/ o \in p.fresh
  /\ Goes(Store(p, <<o, field>>, value)) /\ UNCHANGED unsaved

Written(q, L, v) == [q EXCEPT !.mem = [l \in DOMAIN @ |-> IF l \in L THEN v[l] ELSE @[l]]]

AddAfterStore(L, v) ==
  \/ Goes(TxAdd(Written(p, L, v), L)) /\ UNCHANGED unsaved
  \/ FailsReturning({}, Written(p, L, v)) /\ unsaved' = unsaved \cup L
  \/ FailsAborting({})

(* Snapshot L and store v there, whatever the snapshot returned. *)
AddAndStore(L, v) ==
  \/ Goes(Written(TxAdd(p, L), L, v)) /\ UNCHANGED unsaved
  \/ FailsReturning({}, Written(p, L, v)) /\ unsaved' = unsaved \cup L
  \/ FailsAborting({})

TX_SET(o, field, value) ==
  LET L == At(o, {field}) IN AddAndStore(L, [l \in L |-> value])
TX_MEMCPY(dest, src, F) ==
  LET L == At(dest, F) IN AddAndStore(L, [l \in L |-> p.mem[<<src, l[2]>>]])
TX_MEMSET(dest, c, F) ==
  LET L == At(dest, F) IN AddAndStore(L, [l \in L |-> c])

(* TX_NEW, TX_ALLOC and TX_XALLOC leave it uninitialised. *)
TX_XALLOC(o, flags) ==
  \E garbage \in [At(o, Fields) -> Bytes] : pmemobj_tx_xalloc(o, garbage, flags)
TX_ZALLOC(o) == pmemobj_tx_xalloc(o, [l \in At(o, Fields) |-> 0], {})

(* TX_STRDUP, TX_WCSDUP and their X forms, of a string in volatile memory. *)
TX_XSTRDUP(o, s, flags) ==
  pmemobj_tx_xalloc(o, [l \in At(o, Fields) |-> s[l[2]]], flags)

(* TX_ZREALLOC zeroes only what is beyond the old size. *)
TX_REALLOC(o, new) == pmemobj_tx_realloc(o, new)
TX_XFREE(o, flags) == pmemobj_tx_xfree(o, flags)

Next ==
  \/ Begin \/ pmemobj_tx_commit \/ pmemobj_tx_abort
  \/ \E b \in {"ABORT", "RETURN"} : pmemobj_tx_set_failure_behavior(b)
  \/ \E o \in Usable :
       \/ \E F \in {{f} : f \in Fields} \cup {Fields} :
            \/ \E flags \in SUBSET POBJ_XADD_FLAGS : TX_XADD(At(o, F), flags)
            \/ \E c \in Bytes : TX_MEMSET(o, c, F)
            \/ \E src \in Usable \ {o} : TX_MEMCPY(o, src, F)
       \/ \E f \in Fields, v \in Bytes : TX_SET(o, f, v) \/ Assign(o, f, v)
       \/ \E new \in Oids : TX_REALLOC(o, new)
       \/ \E flags \in SUBSET POBJ_XFREE_FLAGS : TX_XFREE(o, flags)
  \/ \E o \in Oids :
       \/ TX_ZALLOC(o)
       \/ \E flags \in SUBSET POBJ_XALLOC_FLAGS :
            \/ TX_XALLOC(o, flags)
            \/ \E s \in [Fields -> Bytes] : TX_XSTRDUP(o, s, flags)

Spec == Init /\ [][Next]_vars
-----------------------------------------------------------------------------
(* Properties. *)

(* Whenever the transaction ends other than by its commit, the pool has the objects it
   had before, and each location its value, through frees and moves of old objects and
   new ones; except where a macro has gone on after an error or was told not to
   snapshot.  By default the first never happens. *)
StoresRollBack ==
  LET after == Recovered(p)
  IN  /\ DOMAIN after = DOMAIN before
      /\ \A l \in DOMAIN before \ unsaved : after[l] = before[l]
=============================================================================
