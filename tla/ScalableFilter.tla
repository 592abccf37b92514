--------------------------- MODULE ScalableFilter ----------------------------
(***************************************************************************)
(* The ScalableCuckooFilter of src/dual_domain/filter: an array of         *)
(* CuckooFilters that is to grow when the last one is full.  Of a          *)
(* CuckooFilter it sees the results of its calls, which are those of       *)
(* FilterResults: a relocation takes place within a call.                  *)
(*                                                                         *)
(* scf_new, like cf_new, fills a structure of its own.  The caller's, zero *)
(* before, changes only when an Option passed to scf_new keeps the address *)
(* of that structure; an Option may also put CuckooFilters in it.  After   *)
(* an undefined step pc is "undefined" and nothing else is said.           *)
(***************************************************************************)
EXTENDS FilterResults, Sequences, FiniteSets

CONSTANTS
  Null,
  GivenFilters  \* the arrays of initialised or uninitialised filters, none empty,
                \* that an Option sets

Filter == [ready : BOOLEAN, found : SUBSET Keys]

VARIABLES
  filters,    \* the filters and filterCount of the caller's structure, Null when zero
  pc,         \* "idle", "freed" or "undefined"
  last, ret,  \* history: the last call and its key, and what it returned
  exhausted   \* history: an allocation has failed

vars == <<filters, pc, last, ret, exhausted>>

Init ==
  /\ filters = Null /\ pc = "idle" /\ last = <<>> /\ ret = 0 /\ exhausted = FALSE

Calls(call) == pc = "idle" /\ last' = call

Return(fs, r) ==
  filters' = fs /\ ret' = r /\ UNCHANGED <<pc, exhausted>>

Undefined == pc' = "undefined" /\ UNCHANGED <<filters, ret, exhausted>>
-----------------------------------------------------------------------------
IsInit(fs) == fs # Null

CodeOf(filter, key) ==
  IF filter = Null THEN -1 ELSE LookupCode(filter.ready, filter.found, key)

LookupInPositive(fs, key) ==
  IF ~IsInit(fs) THEN -1
  ELSE IF \E i \in DOMAIN fs : CodeOf(fs[i], key) = 1 THEN 1 ELSE 0

(* Any code but 0 counts as found, the -1 of a filter that is not initialised
   included. *)
LookupIn(fs, key) ==
  IF ~IsInit(fs) THEN -1
  ELSE IF \E i \in DOMAIN fs : CodeOf(fs[i], key) # 0 THEN 1 ELSE 0

(* The options run, and scf_configure adds one filter where they gave none: the
   NULL that calloc left in filters[0], which cf_new does not change.  If cf_new
   fails filterCount stays what it was, and if calloc does NULL[0] is read.  malloc
   does not zero the structure: when an Option keeps one whose filters, or on a
   failure filterCount, is neither 0 nor given, nothing more is said. *)
scf_new ==
  /\ Calls(<<"new">>)
  /\ \/ \E given \in GivenFilters \cup {<<Null>>}, kept \in BOOLEAN :
          Return(IF kept THEN given ELSE filters, 0)
     \/ filters' \in {filters, <<>>} /\ ret' = -1 /\ exhausted' = TRUE /\ UNCHANGED pc
     \/ exhausted' = TRUE /\ pc' = "undefined" /\ UNCHANGED <<filters, ret>>
     \/ Undefined

scf_lookup(key) == Calls(<<"lookup", key>>) /\ Return(filters, LookupIn(filters, key))

GrowStoringFirst(fs) == Return(Append(fs, Null), -1)

(* A new filter.  cf_new returns 0 when it succeeds, which is taken for a failure;
   when it fails, the uninitialised newFilter is stored past the end of the array. *)
Grow(fs) ==
  \/ Return(fs, -1)
  \/ exhausted' = TRUE /\ pc' = "undefined" /\ UNCHANGED <<filters, ret>>

NoFilterAt(i) == ~IsInit(filters) \/ filters = <<>> \/ filters[i] = Null

InsertAtFirst(key) ==
  IF NoFilterAt(1) THEN Undefined
  ELSE \E x \in InsertResults(filters[1].ready, filters[1].found, key) :
         LET fs == [filters EXCEPT ![1].found = x[1]]
         IN  IF x[2] # 0 THEN Return(fs, 1) ELSE Grow(fs)

(* The last filter takes the key, unless its count divided by its bucketPower
   exceeds the load factor, a quotient that is infinite or no number for the
   smallest filter.  Only 0 from cf_insert asks for another filter. *)
Insert(key) ==
  IF NoFilterAt(Len(filters)) THEN Undefined
  ELSE \/ Grow(filters)
       \/ LET n == Len(filters)
          IN  \E x \in InsertResults(filters[n].ready, filters[n].found, key) :
                LET fs == [filters EXCEPT ![n].found = x[1]]
                IN  IF x[2] # 0 THEN Return(fs, 1) ELSE Grow(fs)

scf_insert(key) == Calls(<<"insert", key>>) /\ Insert(key)

scf_insert_unique(key) ==
  /\ Calls(<<"insert_unique", key>>)
  /\ IF LookupIn(filters, key) # 0 THEN Return(filters, 0) ELSE Insert(key)

(* The outcomes of calling each filter in turn, each with its results, up to the first
   whose code is in Stops, at `end' or 0: the filters after it are not called. *)
InTurn(results, Stops) ==
  {o \in [fs : [DOMAIN filters -> Filter \cup {Null}], end : {0} \cup DOMAIN filters] :
     \A i \in DOMAIN filters :
       IF o.end \in 1 .. i - 1 THEN o.fs[i] = filters[i]
       ELSE \E x \in results[i] :
              /\ x[2] \in Stops <=> i = o.end
              /\ o.fs[i] = IF filters[i] = Null THEN Null
                           ELSE [filters[i] EXCEPT !.found = x[1]]}

ResultsOfNull == {<<{}, -1>>}

Deletes ==
  [i \in DOMAIN filters |-> IF filters[i] = Null THEN ResultsOfNull
                            ELSE DeleteResults(filters[i].ready, filters[i].found)]
Resets ==
  [i \in DOMAIN filters |-> IF filters[i] = Null THEN ResultsOfNull
                            ELSE ResetResults(filters[i].ready, filters[i].found)]

(* Any code but 0 from a filter ends scf_delete with -1, after those before it. *)
scf_delete(key) ==
  /\ Calls(<<"delete", key>>)
  /\ IF ~IsInit(filters) THEN Return(filters, -1)
     ELSE \E o \in InTurn(Deletes, {-1, 1}) :
            Return(o.fs, IF o.end = 0 THEN 0 ELSE -1)

scf_reset ==
  /\ Calls(<<"reset">>)
  /\ IF ~IsInit(filters) THEN Return(filters, 0)
     ELSE \E o \in InTurn(Resets, {-1}) : Return(o.fs, IF o.end = 0 THEN 0 ELSE -1)

(* cf_free of NULL does nothing, of a filter with no buckets it reads NULL[0], and
   of another it may or may not be defined. *)
scf_free ==
  /\ Calls(<<"free">>)
  /\ IF ~IsInit(filters) THEN Return(filters, -1)
     ELSE \/ Undefined /\ \E i \in DOMAIN filters : filters[i] # Null
          \/ /\ \A i \in DOMAIN filters : filters[i] # Null => filters[i].ready
             /\ pc' = "freed" /\ ret' = 0 /\ UNCHANGED <<filters, exhausted>>

Next ==
  \/ scf_new \/ scf_reset \/ scf_free
  \/ \E key \in Keys : \/ scf_lookup(key) \/ scf_delete(key)
                       \/ scf_insert(key) \/ scf_insert_unique(key)

Spec == Init /\ [][Next]_vars
-----------------------------------------------------------------------------
(* Properties. *)

(* After an scf_insert that returns 1 the key is looked up with success.  That holds
   for a filter that was never initialised as well, which scf_insert takes for one
   that has stored the key: what saves it is that scf_lookup makes the same mistake.
   scf_insert_unique moreover dereferences no filter that is not there: its lookup
   keeps it away from each.  Only storing past the array, when an allocation has
   failed, is left. *)
InsertedIsFound ==
  \A key \in Keys :
    /\ (pc = "idle" /\ ret = 1 /\ last \in {<<"insert", key>>, <<"insert_unique", key>>})
         => LookupIn(filters, key) = 1
    /\ (pc = "undefined" /\ last = <<"insert_unique", key>>) => exhausted

(* The step is of a call that inserts. *)
Inserts == \E key \in Keys : last' \in {<<"insert", key>>, <<"insert_unique", key>>}

(* The keys in the filters before the last are safe from every insert: only the last
   one relocates fingerprints and may lose some. *)
OthersKept ==
  [][filters # Null /\ Inserts =>
       \A i \in DOMAIN filters : i < Len(filters) => filters'[i] = filters[i]]_vars

(* The scalable filter does not scale: whatever its load, an insert that returns
   leaves it with as many filters as it had. *)
NeverGrows ==
  [][filters # Null /\ Inserts => DOMAIN filters' = DOMAIN filters]_vars
=============================================================================
