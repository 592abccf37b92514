--------------------------- MODULE FilterContract ----------------------------
(***************************************************************************)
(* What the calls of a cuckoo filter promise a caller, who sees only their *)
(* results: which keys are found, and the code that a call returns.  -1 is *)
(* a filter that was never initialised.  0 from an insert promises         *)
(* nothing, not even that the key was left out; 1 promises that it is in.  *)
(* CuckooFilter implements it, and ScalableFilter is built on the results. *)
(***************************************************************************)
EXTENDS FilterResults

VARIABLES
  ready,  \* the filter is initialised
  found,  \* the keys a lookup finds
  busy,   \* an insert is relocating fingerprints
  last,   \* the last call and its key
  ret     \* what it returned

vars == <<ready, found, busy, last, ret>>

-----------------------------------------------------------------------------
Init == ready \in BOOLEAN /\ found = {} /\ busy = FALSE /\ last = <<>> /\ ret = 0

Returns(results) ==
  /\ \E x \in results : found' = x[1] /\ ret' = x[2]
  /\ busy' = FALSE

(* cf_new does nothing to the caller's filter. *)
New == last' = <<"new">> /\ Returns({found} \X {0, -1})

Lookup(k) ==
  /\ last' = <<"lookup", k>>
  /\ Returns({<<found, LookupCode(ready, found, k)>>})

(* An insert loses nothing that was found, unless it relocates. *)
Insert(k) ==
  /\ found \subseteq found' /\ found' \in SUBSET Keys
  /\ \/ Returns(InsertResults(ready, found, k))
     \/ ready /\ busy' = TRUE /\ UNCHANGED ret

PlainInsert(k) == last' = <<"insert", k>> /\ Insert(k)

UniqueInsert(k) ==
  /\ last' = <<"insert_unique", k>>
  /\ IF LookupCode(ready, found, k) # 0 THEN Returns({<<found, 0>>}) ELSE Insert(k)

Relocate ==
  /\ UNCHANGED last
  /\ \/ found' \in SUBSET Keys /\ UNCHANGED <<busy, ret>>
     \/ Returns(InsertResults(ready, found, last[2]))

Delete(k) == last' = <<"delete", k>> /\ Returns(DeleteResults(ready, found))

Reset == last' = <<"reset">> /\ Returns(ResetResults(ready, found))

(* It ends the filter, or the program. *)
Free == last' = <<"free">> /\ Returns({<<found, 0>>, <<found, ret>>})

Next ==
  /\ UNCHANGED ready
  /\ \/ busy /\ Relocate
     \/ /\ ~busy
        /\ \/ New \/ Reset \/ Free
           \/ \E k \in Keys : \/ Lookup(k) \/ Delete(k)
                              \/ PlainInsert(k) \/ UniqueInsert(k)

Spec == Init /\ [][Next]_vars
=============================================================================
