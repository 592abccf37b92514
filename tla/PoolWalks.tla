------------------------------ MODULE PoolWalks ------------------------------
(***************************************************************************)
(* The loops that libpmemobj/iterator.h and libpmemobj/lists_atomic.h      *)
(* offer over the objects of a pool, and what may be done in their bodies: *)
(* allocate and free (libpmemobj/atomic.h), insert into a list, remove and *)
(* move.  The functions pmemobj_* behind the macros are external; each is  *)
(* atomic.  Objects are numbered in the order pmemobj_next follows, and 0  *)
(* is OID_NULL.  A list is a ring, kept here as the sequence that starts   *)
(* with pe_first.                                                          *)
(*                                                                         *)
(* The body keeps the one rule the macros have: it leaves alone the object *)
(* that the loop will go on from, which in a SAFE loop is not the current  *)
(* one.                                                                    *)
(***************************************************************************)
EXTENDS TypeNumbers, SequencesExt

CONSTANTS
  Objs,       \* 1 .. n
  Types,      \* the types of objects the client allocates
  Heads,      \* the lists
  Counters,   \* values of __COUNTER__ before the headers
  MaxChanges  \* bound: changes of the pool during a loop

WholeLoops == {"POBJ_FOREACH", "POBJ_FOREACH_SAFE"}
TypeLoops == {"POBJ_FOREACH_TYPE", "POBJ_FOREACH_SAFE_TYPE", "POBJ_NEXT"}
ListLoops == {"POBJ_LIST_FOREACH", "POBJ_LIST_FOREACH_REVERSE"}
SafeLoops == {"POBJ_FOREACH_SAFE", "POBJ_FOREACH_SAFE_TYPE"}

VARIABLES
  number,   \* type -> its type number, fixed
  typeOf,   \* object -> its type, or "free"
  lists,    \* head -> the objects of its list
  loop,     \* the loop that runs, or "none"
  of,       \* the list or type it was started for
  var,      \* its variable
  nvar,     \* the other variable of a SAFE loop
  changes,  \* since the loop was started
  stayed,   \* history: what has belonged to the loop's list or type since it began
  seen,     \* history: those of `stayed' that the body has run for
  wrong     \* history: the body ran twice for one of them, or for an object that
            \* does not belong to the loop

pool == <<typeOf, lists>>
walk == <<loop, of, var, nvar, seen, wrong>>
vars == <<number, pool, walk, changes, stayed>>

Live == {o \in Objs : typeOf[o] # "free"}
Listed == UNION {ToSet(lists[h]) : h \in Heads}

Init ==
  /\ \E c \in Counters : number = [t \in Types |-> TOID_TYPE_NUM(Included(c), t)]
  /\ typeOf \in [Objs -> Types \cup {"free"}]
  /\ lists = [h \in Heads |-> <<>>]
  /\ loop = "none" /\ of = "none" /\ var = 0 /\ nvar = 0
  /\ changes = 0 /\ stayed = {} /\ seen = {} /\ wrong = FALSE
-----------------------------------------------------------------------------
(* The order of the pool.  The next of an object that is free is whatever is found
   there. *)

Lowest(S) == IF S = {} THEN 0 ELSE CHOOSE o \in S : \A p \in S : o <= p

pmemobj_first == Lowest(Live)
pmemobj_next(o) ==
  IF o \in Live THEN {Lowest({p \in Live : p > o})} ELSE Objs \cup {0}
pmemobj_type_num(o) == number[typeOf[o]]

POBJ_FIRST_TYPE_NUM(n) == Lowest({p \in Live : pmemobj_type_num(p) = n})
POBJ_NEXT_TYPE_NUM(o) ==
  Lowest({p \in Live : p > o /\ pmemobj_type_num(p) = pmemobj_type_num(o)})

(* The neighbours in the ring. *)
POBJ_LIST_FIRST(s) == IF s = <<>> THEN 0 ELSE Head(s)
POBJ_LIST_LAST(s) == IF s = <<>> THEN 0 ELSE Last(s)
Place(s, o) == CHOOSE i \in DOMAIN s : s[i] = o
POBJ_LIST_NEXT(s, o) == s[(Place(s, o) % Len(s)) + 1]
POBJ_LIST_PREV(s, o) == s[((Place(s, o) + Len(s) - 2) % Len(s)) + 1]
-----------------------------------------------------------------------------
(* The loops.  `for (init; test; step) body', where the body is entered when its
   variable is not null. *)

Belonging(l, x) ==
  IF l \in WholeLoops THEN Live
  ELSE IF l \in TypeLoops THEN {o \in Live : typeOf[o] = x} ELSE ToSet(lists[x])

(* if (pmemobj_type_num((var).oid) == TOID_TYPE_NUM_OF(var)) *)
RunsFor(l, x, o) == l \in TypeLoops => pmemobj_type_num(o) = number[x]

(* nvaroid = pmemobj_next(varoid), in the test of the loop *)
NextKept(l, o) == IF l \in SafeLoops /\ o # 0 THEN pmemobj_next(o) ELSE {0}

(* The variable of loop l is o now: the body runs, is passed over, or the loop ends. *)
Enter(l, x, o, already) ==
  /\ loop' = IF o = 0 THEN "none" ELSE l
  /\ var' = o /\ nvar' \in NextKept(l, o)
  /\ IF o # 0 /\ RunsFor(l, x, o)
     THEN /\ seen' = already \cup ({o} \cap stayed')
          /\ wrong' = (o \in already \/ o \notin Belonging(l, x))
     ELSE seen' = already /\ wrong' = FALSE

FirstOf(l, x) ==
  CASE l = "POBJ_LIST_FOREACH"         -> POBJ_LIST_FIRST(lists[x])
    [] l = "POBJ_LIST_FOREACH_REVERSE" -> POBJ_LIST_LAST(lists[x])
    [] l = "POBJ_NEXT"                 -> POBJ_FIRST_TYPE_NUM(number[x])
    [] OTHER                           -> pmemobj_first

Begin(l, x) ==
  /\ loop = "none"
  /\ of' = x /\ changes' = 0 /\ stayed' = Belonging(l, x)
  /\ Enter(l, x, FirstOf(l, x), {})
  /\ UNCHANGED <<number, pool>>

ListForeachStep(s, o) ==
  IF POBJ_LIST_NEXT(s, o) = POBJ_LIST_FIRST(s) THEN 0 ELSE POBJ_LIST_NEXT(s, o)
ListForeachReverseStep(s, o) ==
  IF POBJ_LIST_PREV(s, o) = POBJ_LIST_LAST(s) THEN 0 ELSE POBJ_LIST_PREV(s, o)

ForeachStepLate(l, o) == pmemobj_next(o)
ForeachStep(l, o) == IF l \in SafeLoops THEN {nvar} ELSE pmemobj_next(o)

StepsOf(l, x, o) ==
  CASE l = "POBJ_LIST_FOREACH"         -> {ListForeachStep(lists[x], o)}
    [] l = "POBJ_LIST_FOREACH_REVERSE" -> {ListForeachReverseStep(lists[x], o)}
    [] l = "POBJ_NEXT"                 -> {POBJ_NEXT_TYPE_NUM(o)}
    [] OTHER                           -> ForeachStep(l, o)

Step ==
  /\ loop # "none"
  /\ UNCHANGED stayed
  /\ \E o \in StepsOf(loop, of, var) : Enter(loop, of, o, seen)
  /\ UNCHANGED <<number, pool, of, changes>>
-----------------------------------------------------------------------------
(* The body, or code outside all loops. *)

(* What the loop goes on from. *)
Anchor == IF loop \in SafeLoops THEN nvar ELSE var

Change ==
  /\ changes < MaxChanges /\ changes' = changes + 1
  /\ UNCHANGED <<number, loop, of, var, nvar, wrong>>

(* o does not belong any more, or belongs anew. *)
Leaves(o) == stayed' = stayed \ {o} /\ seen' = seen \ {o}

POBJ_NEW(o, t) ==
  /\ Change /\ typeOf[o] = "free"
  /\ typeOf' = [typeOf EXCEPT ![o] = t]
  /\ UNCHANGED <<lists, stayed, seen>>

POBJ_FREE(o) ==
  /\ Change /\ o \in Live \ Listed /\ o # Anchor
  /\ typeOf' = [typeOf EXCEPT ![o] = "free"] /\ Leaves(o)
  /\ UNCHANGED lists

(* To another place, or by a stutter in its own. *)
POBJ_REALLOC(o, new) ==
  /\ Change /\ o \in Live \ Listed /\ o # Anchor /\ typeOf[new] = "free"
  /\ typeOf' = [typeOf EXCEPT ![o] = "free", ![new] = typeOf[o]] /\ Leaves(o)
  /\ UNCHANGED lists

(* The lists ls with o put into that of h, at either end or beside a listelm. *)
Put(ls, h, i, o) == [ls EXCEPT ![h] = InsertAt(@, i, o)]
POBJ_LIST_INSERT_HEAD(ls, h, o) == Put(ls, h, 1, o)
POBJ_LIST_INSERT_TAIL(ls, h, o) == Put(ls, h, Len(ls[h]) + 1, o)
POBJ_LIST_INSERT_AFTER(ls, h, listelm, o) == Put(ls, h, Place(ls[h], listelm) + 1, o)
POBJ_LIST_INSERT_BEFORE(ls, h, listelm, o) == Put(ls, h, Place(ls[h], listelm), o)

Inserted(ls, h, o) ==
  {POBJ_LIST_INSERT_HEAD(ls, h, o), POBJ_LIST_INSERT_TAIL(ls, h, o)}
    \cup {POBJ_LIST_INSERT_AFTER(ls, h, e, o) : e \in ToSet(ls[h])}
    \cup {POBJ_LIST_INSERT_BEFORE(ls, h, e, o) : e \in ToSet(ls[h])}

Removed(ls, h, o) == [ls EXCEPT ![h] = RemoveAt(@, Place(@, o))]

POBJ_LIST_INSERT(h, o) ==
  /\ Change /\ o \in Live \ Listed
  /\ lists' \in Inserted(lists, h, o)
  /\ UNCHANGED <<typeOf, stayed, seen>>

POBJ_LIST_INSERT_NEW(h, o, t) ==
  /\ Change /\ typeOf[o] = "free"
  /\ typeOf' = [typeOf EXCEPT ![o] = t]
  /\ lists' \in Inserted(lists, h, o)
  /\ UNCHANGED <<stayed, seen>>

POBJ_LIST_REMOVE(h, o) ==
  /\ Change /\ o \in ToSet(lists[h]) /\ o # Anchor
  /\ lists' = Removed(lists, h, o)
  /\ IF loop \in ListLoops THEN Leaves(o) ELSE UNCHANGED <<stayed, seen>>
  /\ UNCHANGED typeOf

POBJ_LIST_REMOVE_FREE(h, o) ==
  /\ Change /\ o \in ToSet(lists[h]) /\ o # Anchor
  /\ lists' = Removed(lists, h, o)
  /\ typeOf' = [typeOf EXCEPT ![o] = "free"] /\ Leaves(o)

POBJ_LIST_MOVE_ELEMENT(h, h2, o) ==
  /\ Change /\ o \in ToSet(lists[h]) /\ o # Anchor
  /\ lists' \in Inserted(Removed(lists, h, o), h2, o)
  /\ IF loop \in ListLoops THEN Leaves(o) ELSE UNCHANGED <<stayed, seen>>
  /\ UNCHANGED typeOf

Next ==
  \/ Step
  \/ \E l \in WholeLoops : Begin(l, "none")
  \/ \E l \in TypeLoops, t \in Types : Begin(l, t)
  \/ \E l \in ListLoops, h \in Heads : Begin(l, h)
  \/ \E o \in Objs, t \in Types : POBJ_NEW(o, t)
  \/ \E o \in Objs : POBJ_FREE(o) \/ \E new \in Objs : POBJ_REALLOC(o, new)
  \/ \E h \in Heads, o \in Objs :
       \/ POBJ_LIST_INSERT(h, o) \/ POBJ_LIST_REMOVE(h, o) \/ POBJ_LIST_REMOVE_FREE(h, o)
       \/ \E t \in Types : POBJ_LIST_INSERT_NEW(h, o, t)
       \/ \E h2 \in Heads : POBJ_LIST_MOVE_ELEMENT(h, h2, o)

Spec == Init /\ [][Next]_vars
-----------------------------------------------------------------------------
(* Properties. *)

(* Every loop runs its body exactly once for each object that belongs to its list or
   type from the loop's beginning to its end, and for none that does not belong when
   its turn comes, whatever the body inserts, removes, moves or frees that the loop
   does not go on from; so a SAFE loop also with its current object freed.  Numbers
   that separate the types are part of it. *)
WalkVisitsOnce == ~wrong /\ (loop = "none" => seen = stayed)
=============================================================================
