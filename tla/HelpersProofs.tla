--------------------------- MODULE HelpersProofs ----------------------------
(***************************************************************************)
(* The parts of Helpers, proved for every value of their constants: the    *)
(* scalable filter for any keys and any filters that an Option sets, the   *)
(* hash functions for any octets in any number of pieces of any length,    *)
(* the sizes of filters for every capacity of 32 bits, rand_bool for any   *)
(* seeds, build_program for files of any length.                           *)
(***************************************************************************)
EXTENDS Helpers, TLAPS, FiniteSetTheorems, WellFoundedInduction

(* The filter parts run in every behavior, if only by standing still. *)
THEOREM HelpersApart == HelpersSpec => Spec /\ S!Spec
<1>1. HelpersInit => Init /\ S!Init
  BY DEF HelpersInit
<1>2. [HelpersNext]_<<part, vars, scalableVars, hashVars, randVars, clVars>>
        => [Next]_vars /\ [S!Next]_S!vars
  BY DEF HelpersNext, scalableVars, S!vars
<1> QED
  BY <1>1, <1>2, PTL DEF HelpersSpec, Spec, S!Spec
-----------------------------------------------------------------------------
(* ScalableFilter. *)

(* The caller's structure, and the only way to one without filters. *)
Arrays == Seq(S!Filter \cup {Null})

ScalableInv ==
  /\ filters = Null \/ filters \in Arrays
  /\ filters = <<>> => exhausted
  /\ InsertedIsFound

LEMMA NoArrayIsNull == Null \notin Arrays
  BY ScalableAssumption DEF Arrays

(* A filter set in an array. *)
WithFound(fs, n, F) == [fs EXCEPT ![n].found = F]

LEMMA FilterSet ==
  ASSUME NEW fs \in Arrays, NEW n \in DOMAIN fs, fs[n] # Null, NEW F \in SUBSET Keys,
         NEW fs2, fs2 = WithFound(fs, n, F)
  PROVE  /\ fs2 \in Arrays /\ DOMAIN fs2 = DOMAIN fs
         /\ fs2[n].ready = fs[n].ready /\ fs2[n].found = F /\ fs2[n] # Null
         /\ \A i \in DOMAIN fs : i # n => fs2[i] = fs[i]
<1> DEFINE f == [fs[n] EXCEPT !.found = F]
<1>1. fs[n] \in S!Filter
  BY DEF Arrays
<1>2. f \in S!Filter /\ f.ready = fs[n].ready /\ f.found = F
  BY <1>1 DEF S!Filter
<1>3. fs2 = [fs EXCEPT ![n] = f]
  BY DEF WithFound
<1> HIDE DEF f
<1>4. fs2 \in Arrays /\ DOMAIN fs2 = DOMAIN fs /\ fs2[n] = f
      /\ \A i \in DOMAIN fs : i # n => fs2[i] = fs[i]
  BY <1>2, <1>3 DEF Arrays
<1>5. f # Null
  BY <1>2, ScalableAssumption
<1> QED
  BY <1>2, <1>4, <1>5

(* What Insert may do, with the filters given: give up, store the key in the last
   filter, or leave that one changed without the key. *)
StoredLast(key) ==
  /\ filters' \in Arrays /\ DOMAIN filters' = DOMAIN filters /\ UNCHANGED exhausted
  /\ \A i \in DOMAIN filters : i < Len(filters) => filters'[i] = filters[i]
  /\ ret' \in {-1, 1} /\ UNCHANGED scalablePc
  /\ ret' = 1 => S!LookupIn(filters', key) = 1

Stopped(key) ==
  /\ UNCHANGED <<filters, ret>> /\ scalablePc' = "undefined"
  /\ \/ exhausted' = TRUE
     \/ UNCHANGED exhausted /\ (filters = Null \/ filters = <<>> \/ filters[Len(filters)] = Null)

LEMMA InsertDoes ==
  ASSUME ScalableInv, NEW key \in Keys, S!Insert(key)
  PROVE  (filters \in Arrays /\ filters # <<>> /\ StoredLast(key)) \/ Stopped(key)
<1> DEFINE n == Len(filters)
<1>1. CASE S!NoFilterAt(n)
  BY <1>1 DEF S!Insert, S!Undefined, S!NoFilterAt, S!IsInit, Stopped
<1>2. CASE ~S!NoFilterAt(n)
  <2>1. filters \in Arrays /\ filters # <<>> /\ filters[n] # Null
    BY <1>2 DEF S!NoFilterAt, S!IsInit, ScalableInv
  <2>2. n \in DOMAIN filters /\ DOMAIN filters = 1 .. n /\ n \in Nat
    BY <2>1 DEF Arrays
  <2>3. filters[n] \in S!Filter /\ filters[n].found \in SUBSET Keys /\ filters[n].ready \in BOOLEAN
    BY <2>1, <2>2 DEF Arrays, S!Filter
  <2>4. ASSUME NEW fs, S!Grow(fs),
               fs \in Arrays, DOMAIN fs = DOMAIN filters,
               \A i \in DOMAIN filters : i < n => fs[i] = filters[i]
        PROVE  StoredLast(key) \/ Stopped(key)
    BY <2>4 DEF S!Grow, S!Return, StoredLast, Stopped
  <2>5. CASE S!Grow(filters)
    BY <2>1, <2>4, <2>5
  <2>6. ASSUME NEW x \in S!InsertResults(filters[n].ready, filters[n].found, key),
               LET fs == [filters EXCEPT ![n].found = x[1]]
               IN  IF x[2] # 0 THEN S!Return(fs, 1) ELSE S!Grow(fs)
        PROVE  StoredLast(key) \/ Stopped(key)
    <3>1. x[1] \in SUBSET Keys
          /\ (x[2] # 0 => ~filters[n].ready \/ key \in x[1])
      BY <2>3 DEF S!InsertResults
    <3>2. PICK fs : fs = [filters EXCEPT ![n].found = x[1]]
      OBVIOUS
    <3>3. /\ fs \in Arrays /\ DOMAIN fs = DOMAIN filters
          /\ fs[n].ready = filters[n].ready /\ fs[n].found = x[1] /\ fs[n] # Null
          /\ \A i \in DOMAIN filters : i # n => fs[i] = filters[i]
      <4>1. PICK m, F : m = n /\ F = x[1]
        OBVIOUS
      <4>2. m \in DOMAIN filters /\ filters[m] # Null /\ F \in SUBSET Keys
        BY <2>1, <2>2, <3>1, <4>1
      <4>3. fs = WithFound(filters, m, F)
        BY <3>2, <4>1 DEF WithFound
      <4>4. /\ fs \in Arrays /\ DOMAIN fs = DOMAIN filters
            /\ fs[m].ready = filters[m].ready /\ fs[m].found = F /\ fs[m] # Null
            /\ \A i \in DOMAIN filters : i # m => fs[i] = filters[i]
        BY <2>1, <4>2, <4>3, FilterSet
      <4> QED
        BY <4>1, <4>4
    <3>4. \A i \in DOMAIN filters : i < n => fs[i] = filters[i]
      BY <2>2, <3>3
    <3>5. CASE x[2] # 0
      <4>1. S!Return(fs, 1)
        BY <2>6, <3>2, <3>5
      <4>2. S!CodeOf(fs[n], key) # 0
        BY <3>1, <3>3, <3>5 DEF S!CodeOf, S!LookupCode
      <4>3. S!LookupIn(fs, key) = 1
        BY <2>2, <3>3, <4>2, NoArrayIsNull DEF S!LookupIn, S!IsInit
      <4> QED
        BY <3>3, <3>4, <4>1, <4>3 DEF S!Return, StoredLast
    <3>6. CASE x[2] = 0
      BY <2>4, <2>6, <3>2, <3>3, <3>4, <3>6
    <3> QED
      BY <3>5, <3>6
  <2> QED
    BY <1>2, <2>1, <2>5, <2>6 DEF S!Insert
<1> QED
  BY <1>1, <1>2

(* The calls that insert, and the others. *)
LEMMA CallsDiffer ==
  ASSUME NEW k
  PROVE  /\ \A j : <<"insert", j>> # <<"insert_unique", k>>
         /\ \A j : <<"insert", k>> = <<"insert", j>> => j = k
         /\ \A j : <<"insert_unique", k>> = <<"insert_unique", j>> => j = k
         /\ \A j : <<"lookup", j>> # <<"insert", k>> /\ <<"lookup", j>> # <<"insert_unique", k>>
         /\ \A j : <<"delete", j>> # <<"insert", k>> /\ <<"delete", j>> # <<"insert_unique", k>>
         /\ <<"new">> # <<"insert", k>> /\ <<"new">> # <<"insert_unique", k>>
         /\ <<"reset">> # <<"insert", k>> /\ <<"reset">> # <<"insert_unique", k>>
         /\ <<"free">> # <<"insert", k>> /\ <<"free">> # <<"insert_unique", k>>
         /\ <<>> # <<"insert", k>> /\ <<>> # <<"insert_unique", k>>
  OBVIOUS

(* A step that is not an insert, and keeps the structure one or changes its filters
   in place. *)
LEMMA OthersKeepInv ==
  ASSUME ScalableInv, filters' = Null \/ filters' \in Arrays, exhausted => exhausted',
         filters' = <<>> => filters = <<>> \/ exhausted',
         last' \in {<<"new">>, <<"reset">>, <<"free">>}
           \cup {<<"lookup", k>> : k \in Keys} \cup {<<"delete", k>> : k \in Keys}
  PROVE  ScalableInv' /\ ~S!Inserts
<1>1. \A key \in Keys : last' # <<"insert", key>> /\ last' # <<"insert_unique", key>>
  BY CallsDiffer
<1>2. InsertedIsFound'
  BY <1>1 DEF InsertedIsFound, S!InsertedIsFound
<1>3. ~S!Inserts
  BY <1>1 DEF S!Inserts
<1> QED
  BY <1>2, <1>3 DEF ScalableInv

LEMMA NewStep ==
  ASSUME ScalableInv, S!scf_new
  PROVE  ScalableInv' /\ ~S!Inserts
<1>1. last' = <<"new">>
  BY DEF S!scf_new, S!Calls
<1>2. \A given_ \in GivenFilters \cup {<<Null>>} : given_ \in Arrays /\ given_ # <<>>
  <2>1. <<Null>> \in Seq(S!Filter \cup {Null}) /\ <<Null>> # <<>>
    OBVIOUS
  <2>2. \A s \in Seq(S!Filter) : s \in Seq(S!Filter \cup {Null})
    OBVIOUS
  <2> QED
    BY <2>1, <2>2, ScalableAssumption DEF Arrays
<1>3. <<>> \in Arrays
  BY DEF Arrays
<1>4. /\ filters' = Null \/ filters' \in Arrays
      /\ exhausted => exhausted'
      /\ filters' = <<>> => filters = <<>> \/ exhausted'
  <2>1. CASE \E given_ \in GivenFilters \cup {<<Null>>}, kept \in BOOLEAN :
               S!Return(IF kept THEN given_ ELSE filters, 0)
    BY <1>2, <2>1 DEF S!Return, ScalableInv
  <2>2. CASE filters' \in {filters, <<>>} /\ exhausted' = TRUE
    BY <1>3, <2>2 DEF ScalableInv
  <2>3. CASE exhausted' = TRUE /\ UNCHANGED <<filters, ret>>
    BY <2>3 DEF ScalableInv
  <2>4. CASE S!Undefined
    BY <2>4 DEF S!Undefined, ScalableInv
  <2> QED
    BY <2>1, <2>2, <2>3, <2>4 DEF S!scf_new
<1> QED
  BY <1>1, <1>4, OthersKeepInv

LEMMA TurnedFilters ==
  ASSUME filters \in Arrays, NEW results, NEW Stops, NEW o \in S!InTurn(results, Stops)
  PROVE  o.fs \in Arrays /\ (o.fs = <<>> => filters = <<>>)
<1>1. o.fs \in [DOMAIN filters -> S!Filter \cup {Null}]
  BY DEF S!InTurn
<1>2. filters \in Seq(S!Filter \cup {Null}) /\ DOMAIN filters = 1 .. Len(filters)
      /\ Len(filters) \in Nat
  BY DEF Arrays
<1>3. o.fs \in Arrays
  <2>1. \A T, s, n \in Nat : s \in [1 .. n -> T] => s \in Seq(T)
    OBVIOUS
  <2>2. PICK T : T = S!Filter \cup {Null}
    OBVIOUS
  <2>3. PICK n \in Nat : n = Len(filters)
    BY <1>2
  <2>4. o.fs \in [1 .. n -> T]
    BY <1>1, <1>2, <2>2, <2>3
  <2>5. o.fs \in Seq(T)
    BY <2>1, <2>4
  <2> QED
    BY <2>2, <2>5 DEF Arrays
<1>4. o.fs = <<>> => DOMAIN filters = DOMAIN <<>>
  BY <1>1
<1>5. DOMAIN filters = DOMAIN <<>> => filters = <<>>
  BY <1>2
<1> QED
  BY <1>3, <1>4, <1>5

LEMMA DeleteStep ==
  ASSUME ScalableInv, NEW key \in Keys, S!scf_delete(key)
  PROVE  ScalableInv' /\ ~S!Inserts
<1>1. last' = <<"delete", key>>
  BY DEF S!scf_delete, S!Calls
<1>2. /\ filters' = Null \/ filters' \in Arrays
      /\ filters' = <<>> => filters = <<>>
      /\ exhausted' = exhausted
  <2>1. CASE ~S!IsInit(filters)
    BY <2>1 DEF S!scf_delete, S!Return, ScalableInv
  <2>2. CASE S!IsInit(filters)
    <3>1. filters \in Arrays
      BY <2>2 DEF S!IsInit, ScalableInv
    <3>2. PICK o \in S!InTurn(S!Deletes, {-1, 1}) :
                 S!Return(o.fs, IF o.end = 0 THEN 0 ELSE -1)
      BY <2>2 DEF S!scf_delete
    <3>3. o.fs \in Arrays /\ (o.fs = <<>> => filters = <<>>)
      BY <3>1, TurnedFilters
    <3> QED
      BY <3>2, <3>3 DEF S!Return
  <2> QED
    BY <2>1, <2>2
<1> QED
  BY <1>1, <1>2, OthersKeepInv

LEMMA ResetStep ==
  ASSUME ScalableInv, S!scf_reset
  PROVE  ScalableInv' /\ ~S!Inserts
<1>1. last' = <<"reset">>
  BY DEF S!scf_reset, S!Calls
<1>2. /\ filters' = Null \/ filters' \in Arrays
      /\ filters' = <<>> => filters = <<>>
      /\ exhausted' = exhausted
  <2>1. CASE ~S!IsInit(filters)
    BY <2>1 DEF S!scf_reset, S!Return, ScalableInv
  <2>2. CASE S!IsInit(filters)
    <3>1. filters \in Arrays
      BY <2>2 DEF S!IsInit, ScalableInv
    <3>2. PICK o \in S!InTurn(S!Resets, {-1}) : S!Return(o.fs, IF o.end = 0 THEN 0 ELSE -1)
      BY <2>2 DEF S!scf_reset
    <3>3. o.fs \in Arrays /\ (o.fs = <<>> => filters = <<>>)
      BY <3>1, TurnedFilters
    <3> QED
      BY <3>2, <3>3 DEF S!Return
  <2> QED
    BY <2>1, <2>2
<1> QED
  BY <1>1, <1>2, OthersKeepInv

LEMMA FreeStep ==
  ASSUME ScalableInv, S!scf_free
  PROVE  ScalableInv' /\ ~S!Inserts
<1>1. last' = <<"free">>
  BY DEF S!scf_free, S!Calls
<1>2. UNCHANGED <<filters, exhausted>>
  BY DEF S!scf_free, S!Return, S!Undefined
<1> QED
  BY <1>1, <1>2, OthersKeepInv DEF ScalableInv

LEMMA LookupStep ==
  ASSUME ScalableInv, NEW key \in Keys, S!scf_lookup(key)
  PROVE  ScalableInv' /\ ~S!Inserts
<1>1. last' = <<"lookup", key>> /\ UNCHANGED <<filters, exhausted>>
  BY DEF S!scf_lookup, S!Calls, S!Return
<1> QED
  BY <1>1, OthersKeepInv DEF ScalableInv

(* What an insert keeps. *)
InsertKept ==
  filters # Null => /\ DOMAIN filters' = DOMAIN filters
                    /\ \A i \in DOMAIN filters : i < Len(filters) => filters'[i] = filters[i]

LEMMA InsertStep ==
  ASSUME ScalableInv, NEW key \in Keys, S!scf_insert(key)
  PROVE  ScalableInv' /\ InsertKept
<1>1. last' = <<"insert", key>> /\ scalablePc = "idle"
  BY DEF S!scf_insert, S!Calls
<1>2. \A k \in Keys : /\ last' = <<"insert", k>> => k = key
                      /\ last' # <<"insert_unique", k>>
  BY <1>1, CallsDiffer
<1>3. CASE filters \in Arrays /\ filters # <<>> /\ StoredLast(key)
  <2>1. filters' # <<>>
    BY <1>3 DEF StoredLast, Arrays
  <2>2. InsertedIsFound'
    BY <1>2, <1>3 DEF StoredLast, InsertedIsFound, S!InsertedIsFound, S!LookupIn, S!IsInit,
       S!CodeOf, S!LookupCode
  <2> QED
    BY <1>3, <2>1, <2>2 DEF StoredLast, ScalableInv, InsertKept
<1>4. CASE Stopped(key)
  BY <1>2, <1>4 DEF Stopped, ScalableInv, InsertedIsFound, S!InsertedIsFound, InsertKept
<1> QED
  BY <1>3, <1>4, InsertDoes DEF S!scf_insert

(* A key that is not found has kept each filter from being none. *)
LEMMA UniqueStep ==
  ASSUME ScalableInv, NEW key \in Keys, S!scf_insert_unique(key)
  PROVE  ScalableInv' /\ InsertKept
<1>1. last' = <<"insert_unique", key>> /\ scalablePc = "idle"
  BY DEF S!scf_insert_unique, S!Calls
<1>2. \A k \in Keys : /\ last' = <<"insert_unique", k>> => k = key
                      /\ last' # <<"insert", k>>
  BY <1>1, CallsDiffer
<1>3. CASE S!LookupIn(filters, key) # 0
  <2>1. filters' = filters /\ ret' = 0 /\ UNCHANGED <<scalablePc, exhausted>>
    BY <1>3 DEF S!scf_insert_unique, S!Return
  <2>2. InsertedIsFound'
    BY <1>1, <2>1 DEF InsertedIsFound, S!InsertedIsFound
  <2> QED
    BY <2>1, <2>2 DEF ScalableInv, InsertKept
<1>4. CASE S!LookupIn(filters, key) = 0
  <2>1. S!Insert(key)
    BY <1>4 DEF S!scf_insert_unique
  <2>2. filters \in Arrays /\ \A i \in DOMAIN filters : filters[i] # Null
    BY <1>4 DEF S!LookupIn, S!IsInit, S!CodeOf, ScalableInv
  <2>3. CASE filters \in Arrays /\ filters # <<>> /\ StoredLast(key)
    <3>1. filters' # <<>>
      BY <2>3 DEF StoredLast, Arrays
    <3>2. InsertedIsFound'
      BY <1>1, <1>2, <2>3 DEF StoredLast, InsertedIsFound, S!InsertedIsFound, S!LookupIn,
         S!IsInit, S!CodeOf, S!LookupCode
    <3> QED
      BY <2>3, <3>1, <3>2 DEF StoredLast, ScalableInv, InsertKept
  <2>4. CASE Stopped(key)
    <3>1. filters = Null \/ filters = <<>> \/ filters[Len(filters)] = Null => filters = <<>>
      <4>1. filters # <<>> => Len(filters) \in DOMAIN filters
        BY <2>2 DEF Arrays
      <4> QED
        BY <2>2, <4>1, NoArrayIsNull
    <3>2. exhausted'
      BY <2>4, <3>1 DEF Stopped, ScalableInv
    <3> QED
      BY <1>1, <2>4, <3>2 DEF Stopped, ScalableInv, InsertedIsFound, S!InsertedIsFound, InsertKept
  <2> QED
    BY <2>1, <2>3, <2>4, InsertDoes
<1> QED
  BY <1>3, <1>4, InsertDoes
-----------------------------------------------------------------------------
LEMMA ScalableStep ==
  ASSUME ScalableInv, S!Next
  PROVE  ScalableInv' /\ (S!Inserts => InsertKept)
BY NewStep, ResetStep, FreeStep, LookupStep, DeleteStep, InsertStep, UniqueStep DEF S!Next

THEOREM ScalableInvariant == HelpersSpec => []ScalableInv
<1>1. S!Init => ScalableInv
  <2> SUFFICES ASSUME S!Init PROVE ScalableInv
    OBVIOUS
  <2>1. filters = Null /\ scalablePc = "idle" /\ ret = 0
    BY DEF S!Init
  <2>2. Null # <<>>
    <3>1. <<>> \in Arrays
      BY DEF Arrays
    <3> QED
      BY <3>1, NoArrayIsNull
  <2> QED
    BY <2>1, <2>2 DEF ScalableInv, InsertedIsFound, S!InsertedIsFound
<1>2. ScalableInv /\ [S!Next]_S!vars => ScalableInv'
  <2>1. CASE S!Next
    BY <2>1, ScalableStep
  <2>2. CASE UNCHANGED S!vars
    BY <2>2 DEF S!vars, ScalableInv, InsertedIsFound, S!InsertedIsFound, S!LookupIn, S!IsInit,
       S!CodeOf, S!LookupCode
  <2> QED
    BY <2>1, <2>2
<1> QED
  BY <1>1, <1>2, HelpersApart, PTL DEF S!Spec

(* InsertedIsFound for any keys, any filters given by an Option and any failing
   allocation: a key whose insert returned 1 is looked up with success, and
   scf_insert_unique goes wrong only after a failed allocation. *)
THEOREM ScalableInsertedIsFound == HelpersSpec => []InsertedIsFound
<1>1. ScalableInv => InsertedIsFound
  BY DEF ScalableInv
<1> QED
  BY <1>1, ScalableInvariant, PTL

(* OthersKept: no insert touches a filter before the last. *)
THEOREM ScalableOthersKept == HelpersSpec => OthersKept
<1> DEFINE A == filters # Null /\ S!Inserts =>
                  \A i \in DOMAIN filters : i < Len(filters) => filters'[i] = filters[i]
<1>1. ScalableInv /\ [S!Next]_S!vars => [A]_S!vars
  BY ScalableStep DEF InsertKept
<1> QED
  BY <1>1, ScalableInvariant, HelpersApart, PTL DEF S!Spec, OthersKept, S!OthersKept

(* NeverGrows: no insert adds a filter, whatever the load. *)
THEOREM ScalableNeverGrows == HelpersSpec => NeverGrows
<1> DEFINE A == filters # Null /\ S!Inserts => DOMAIN filters' = DOMAIN filters
<1>1. ScalableInv /\ [S!Next]_S!vars => [A]_S!vars
  BY ScalableStep DEF InsertKept
<1> QED
  BY <1>1, ScalableInvariant, HelpersApart, PTL DEF S!Spec, NeverGrows, S!NeverGrows
-----------------------------------------------------------------------------
(* ClContext. *)

(* What has been found, opened and built when build_program is at a place. *)
Places ==
  {"platform", "gpu", "cpu", "open", "measure", "malloc", "read", "create", "build", "log",
   "returned", "exited", "undefined"}

BuildInv ==
  /\ clPc \in Places
  /\ clPc = "cpu" => gpu = "absent"
  /\ clPc \notin {"platform", "gpu", "cpu", "exited", "undefined"} =>
       device = "GPU" \/ (device = "CPU" /\ gpu = "absent")
  /\ clPc \in {"create", "build", "log", "returned"} => handle = "closed"
  /\ clPc \in {"build", "log", "returned"} => buffer = "freed"
  /\ clPc = "returned" => program = "built"

LEMMA BuildInit == C!Init => BuildInv
  BY DEF C!Init, BuildInv, Places

LEMMA BuildNext ==
  ASSUME BuildInv, C!Next
  PROVE  BuildInv'
<1>1. CASE C!clGetPlatformIDs
  BY <1>1 DEF C!clGetPlatformIDs, C!At, C!Exit, C!Goto, C!local, BuildInv, Places
<1>2. CASE C!clGetDeviceIDs
  BY <1>2 DEF C!clGetDeviceIDs, C!Use, C!At, C!Exit, C!Goto, C!local, BuildInv, Places
<1>3. CASE C!fopen
  BY <1>3 DEF C!fopen, C!At, C!Exit, C!Goto, C!local, BuildInv, Places
<1>4. CASE C!Measure
  BY <1>4 DEF C!Measure, C!At, C!Goto, C!local, BuildInv, Places
<1>5. CASE C!malloc
  BY <1>5 DEF C!malloc, C!At, C!Goto, C!Undefined, C!local, BuildInv, Places
<1>6. CASE C!fread
  BY <1>6 DEF C!fread, C!At, C!Goto, BuildInv, Places
<1>7. CASE C!CreateProgram
  BY <1>7 DEF C!CreateProgram, C!At, C!Exit, C!Goto, C!local, BuildInv, Places
<1>8. CASE C!clBuildProgram
  BY <1>8 DEF C!clBuildProgram, C!At, C!Goto, C!local, BuildInv, Places
<1>9. CASE C!PrintLog
  BY <1>9 DEF C!PrintLog, C!At, C!Exit, C!Undefined, C!Goto, C!local, BuildInv, Places
<1> QED
  BY <1>1, <1>2, <1>3, <1>4, <1>5, <1>6, <1>7, <1>8, <1>9 DEF C!Next

ClBuild == part = "cl" => BuildInv

(* ReturnsBuilt for a file of any length, whatever fails: a build_program that returns
   has built its program for a GPU, or for a CPU where there is none, and has closed
   the file and freed the buffer. *)
THEOREM ClReturnsBuilt == HelpersSpec => []ReturnsBuilt
<1>1. HelpersInit => ClBuild
  BY BuildInit DEF HelpersInit, ClBuild
<1>2. ClBuild /\ [HelpersNext]_<<part, vars, scalableVars, hashVars, randVars, clVars>>
        => ClBuild'
  <2> SUFFICES ASSUME ClBuild, part' = "cl",
                      [HelpersNext]_<<part, vars, scalableVars, hashVars, randVars, clVars>>
               PROVE  BuildInv'
    BY DEF ClBuild
  <2>1. BuildInv
    BY DEF ClBuild, HelpersNext
  <2>2. C!Next \/ UNCHANGED clVars
    BY DEF HelpersNext
  <2>3. CASE UNCHANGED clVars
    BY <2>1, <2>3 DEF clVars, BuildInv
  <2> QED
    BY <2>1, <2>2, <2>3, BuildNext
<1>3. ClBuild => ReturnsBuilt
  BY DEF ClBuild, BuildInv, ReturnsBuilt, C!ReturnsBuilt
<1> QED
  BY <1>1, <1>2, <1>3, PTL DEF HelpersSpec
-----------------------------------------------------------------------------
(* Words: the sets of their one-bits. *)

LEMMA XorIs ==
  ASSUME NEW X, NEW Y
  PROVE  \A b : b \in Xor(X, Y) <=> (b \in X) # (b \in Y)
  BY DEF Xor

LEMMA ShlIs ==
  ASSUME NEW w \in Nat, NEW X \in SUBSET Int, NEW k \in Nat
  PROVE  \A b \in Int : b \in Shl(w, X, k) <=> b - k \in X /\ b < w
<1> SUFFICES ASSUME NEW b \in Int PROVE b \in Shl(w, X, k) <=> b - k \in X /\ b < w
  OBVIOUS
<1>1. ASSUME b - k \in X, b < w PROVE b \in Shl(w, X, k)
  <2>1. (b - k) + k = b
    OBVIOUS
  <2> QED
    BY <1>1, <2>1 DEF Shl
<1>2. ASSUME b \in Shl(w, X, k) PROVE b - k \in X /\ b < w
  <2>1. PICK c \in X : c + k < w /\ b = c + k
    BY <1>2 DEF Shl
  <2> QED
    BY <2>1
<1> QED
  BY <1>1, <1>2

LEMMA ShrIs ==
  ASSUME NEW X \in SUBSET Int, NEW k \in Nat
  PROVE  \A b \in Int : b \in Shr(X, k) <=> b + k \in X /\ b >= 0
<1> SUFFICES ASSUME NEW b \in Int PROVE b \in Shr(X, k) <=> b + k \in X /\ b >= 0
  OBVIOUS
<1>1. ASSUME b + k \in X, b >= 0 PROVE b \in Shr(X, k)
  <2>1. (b + k) - k = b /\ b + k >= k
    BY <1>1
  <2> QED
    BY <1>1, <2>1 DEF Shr
<1>2. ASSUME b \in Shr(X, k) PROVE b + k \in X /\ b >= 0
  <2>1. PICK c \in X : c >= k /\ b = c - k
    BY <1>2 DEF Shr
  <2> QED
    BY <2>1
<1> QED
  BY <1>1, <1>2

(* They are words again. *)
LEMMA WordsClosed ==
  ASSUME NEW w \in Nat, NEW X \in SUBSET Nat, NEW Y \in SUBSET Nat, NEW k \in Nat
  PROVE  /\ Xor(X, Y) \in SUBSET Nat /\ Shl(w, X, k) \in SUBSET Nat /\ Shr(X, k) \in SUBSET Nat
         /\ Shl(w, X, k) \subseteq Bits(w)
<1>1. Xor(X, Y) \in SUBSET Nat
  BY DEF Xor
<1>2. Shl(w, X, k) \in SUBSET Nat /\ Shl(w, X, k) \subseteq Bits(w)
  BY DEF Shl, Bits
<1>3. Shr(X, k) \in SUBSET Nat
  BY DEF Shr
<1> QED
  BY <1>1, <1>2, <1>3
(* The least of some numbers. *)
LEMMA LeastNat ==
  ASSUME NEW B \in SUBSET Nat, B # {}
  PROVE  \E j \in B : \A k \in B : j <= k
<1> DEFINE Rel == StrictSubsetOrdering(Nat)
           T == {0 .. n : n \in B}
<1>1. T # {} /\ T \subseteq FiniteSubsetsOf(Nat)
  <2>1. \A n \in B : IsFiniteSet(0 .. n) /\ 0 .. n \in SUBSET Nat
    BY FS_Interval
  <2> QED
    BY <2>1 DEF FiniteSubsetsOf
<1>2. PICK t \in T : \A y \in T : ~ (<<y, t>> \in Rel)
  <2> HIDE DEF Rel, T
  <2> QED
    BY <1>1, FS_StrictSubsetOrderingWellFounded, WFMin DEF Rel
<1>3. PICK j \in B : t = 0 .. j
  OBVIOUS
<1>4. ASSUME NEW k \in B, k < j PROVE FALSE
  <2>1. 0 .. k \in SUBSET Nat /\ 0 .. j \in SUBSET Nat /\ 0 .. k \subseteq 0 .. j
    BY <1>4
  <2>2. j \in 0 .. j /\ j \notin 0 .. k
    BY <1>4
  <2>3. 0 .. k # 0 .. j
    BY <2>2
  <2>4. <<0 .. k, t>> \in Rel
    BY <1>3, <2>1, <2>3 DEF StrictSubsetOrdering
  <2> QED
    BY <1>2, <2>4
<1>5. \A k \in B : j <= k
  <2> SUFFICES ASSUME NEW k \in B PROVE j <= k
    OBVIOUS
  <2>1. ~(k < j)
    BY <1>4
  <2> QED
    BY <2>1
<1> QED
  BY <1>5

(* The function by which MapThenFoldSet is defined exists: on a finite set Dom, for values
   in V, ch choosing the element to be taken, op taking it. *)
FoldOf(it, Dom, ch, op, base) ==
  it = [s \in SUBSET Dom |-> IF s = {} THEN base ELSE op[<<ch[s], it[s \ {ch[s]}]>>]]

LEMMA FoldExists ==
  ASSUME NEW Dom, IsFiniteSet(Dom), NEW V, NEW base \in V, NEW op \in [Dom \X V -> V],
         NEW ch, \A s \in SUBSET Dom : s # {} => ch[s] \in s
  PROVE  \E it \in [SUBSET Dom -> V] : FoldOf(it, Dom, ch, op, base)
<1> DEFINE Small(n) == {s \in SUBSET Dom : Cardinality(s) <= n}
           Solves(it, n) == /\ it \in [Small(n) -> V]
                            /\ \A s \in Small(n) :
                                 it[s] = IF s = {} THEN base ELSE op[<<ch[s], it[s \ {ch[s]}]>>]
           Bad == {n \in Nat : ~\E it : Solves(it, n)}
<1>1. \A s \in SUBSET Dom : IsFiniteSet(s) /\ Cardinality(s) \in Nat /\ (Cardinality(s) = 0 <=> s = {})
  BY FS_Subset, FS_CardinalityType, FS_EmptySet
<1>2. \A s \in SUBSET Dom : s # {} => /\ s \ {ch[s]} \in SUBSET Dom /\ ch[s] \in Dom
                                      /\ Cardinality(s \ {ch[s]}) = Cardinality(s) - 1
  BY <1>1, FS_RemoveElement
<1>3. \E it : Solves(it, 0)
  <2> DEFINE it == [s \in Small(0) |-> base]
  <2>1. \A s \in Small(0) : s = {}
    BY <1>1
  <2>2. Solves(it, 0)
    BY <2>1
  <2> HIDE DEF it, Solves
  <2> QED
    BY <2>2
<1>4. ASSUME NEW n \in Nat, NEW old, Solves(old, n)
      PROVE  \E it : Solves(it, n + 1)
  <2> DEFINE it == [s \in Small(n + 1) |-> IF s = {} THEN base
                                           ELSE op[<<ch[s], old[s \ {ch[s]}]>>]]
  <2>1. \A s \in Small(n + 1) : s # {} => s \ {ch[s]} \in Small(n) /\ ch[s] \in Dom
    BY <1>1, <1>2
  <2>2. \A s \in Small(n) : s \in Small(n + 1)
    BY <1>1
  <2>3. \A s \in Small(n) : it[s] = old[s]
    BY <2>2, <1>4
  <2>4. \A s \in Small(n + 1) :
           it[s] = IF s = {} THEN base ELSE op[<<ch[s], it[s \ {ch[s]}]>>]
    BY <2>1, <2>3
  <2>5. \A s \in Small(n + 1) : it[s] \in V
    <3> HIDE DEF Small
    <3> QED
      BY <1>4, <2>1
  <2>6. Solves(it, n + 1)
    <3> HIDE DEF Small
    <3> QED
      BY <2>4, <2>5
  <2> HIDE DEF it, Solves
  <2> QED
    BY <2>6
<1> HIDE DEF Solves
<1>5. Bad = {}
  <2> SUFFICES ASSUME Bad # {} PROVE FALSE
    OBVIOUS
  <2>1. PICK n \in Bad : \A m \in Bad : n <= m
    BY LeastNat
  <2>2. n # 0
    BY <1>3
  <2>3. n - 1 \in Nat /\ n - 1 \notin Bad /\ (n - 1) + 1 = n
    BY <2>1, <2>2
  <2> QED
    BY <1>4, <2>3
<1>6. PICK it : Solves(it, Cardinality(Dom))
  BY <1>1, <1>5
<1>7. Small(Cardinality(Dom)) = SUBSET Dom
  <2>1. \A s \in SUBSET Dom : Cardinality(s) <= Cardinality(Dom)
    BY FS_Subset
  <2> QED
    BY <2>1
<1>8. it \in [SUBSET Dom -> V] /\ \A s \in SUBSET Dom :
        it[s] = IF s = {} THEN base ELSE op[<<ch[s], it[s \ {ch[s]}]>>]
  BY <1>6, <1>7 DEF Solves
<1> QED
  BY SMTT(30), <1>8 DEF FoldOf

-----------------------------------------------------------------------------
(* The lowest bit in which two words differ. *)

Below(X, Y, d) == \A b \in 0 .. d - 1 : b \in X <=> b \in Y
Flip(X, Y, d) == (d \in X) # (d \in Y)

LEMMA LowestFlip ==
  ASSUME NEW X \in SUBSET Nat, NEW Y \in SUBSET Nat, X # Y
  PROVE  \E d \in Nat : Below(X, Y, d) /\ Flip(X, Y, d)
<1> DEFINE B == {b \in Nat : Flip(X, Y, b)}
<1>1. B # {}
  BY DEF Flip
<1>2. PICK d \in B : \A b \in B : d <= b
  <2>1. B \in SUBSET Nat
    OBVIOUS
  <2> HIDE DEF B
  <2> QED
    BY <1>1, <2>1, LeastNat
<1>3. Below(X, Y, d)
  <2> SUFFICES ASSUME NEW b \in 0 .. d - 1 PROVE b \in X <=> b \in Y
    BY DEF Below
  <2>1. b \in Nat /\ ~(d <= b)
    BY <1>2
  <2> QED
    BY <1>2, <2>1 DEF Flip
<1> QED
  BY <1>2, <1>3

(* A bit of a sum depends on no higher bit, and on its own by an exclusive or. *)
LEMMA PlusLow ==
  ASSUME NEW w \in Nat, NEW d \in Nat, d < w,
         NEW A \in SUBSET Nat, NEW A2 \in SUBSET Nat, Below(A, A2, d),
         NEW B \in SUBSET Nat, NEW B2 \in SUBSET Nat, Below(B, B2, d)
  PROVE  /\ Below(Plus(w, A, B), Plus(w, A2, B2), d)
         /\ Flip(Plus(w, A, B), Plus(w, A2, B2), d) <=> (Flip(A, A2, d) # Flip(B, B2, d))
<1> DEFINE carry(b) == CarryInto(A \cap B, Xor(A, B), b)
           carry2(b) == CarryInto(A2 \cap B2, Xor(A2, B2), b)
<1>1. ASSUME NEW b \in 0 .. d PROVE carry(b) <=> carry2(b)
  <2>1. \A c \in Nat : c < b => (c \in A <=> c \in A2) /\ (c \in B <=> c \in B2)
    BY DEF Below
  <2>2. \A c \in Nat : c < b => /\ c \in A \cap B <=> c \in A2 \cap B2
                                /\ c \in Xor(A, B) <=> c \in Xor(A2, B2)
    BY <2>1 DEF Xor
  <2>3. \A c \in Nat : \A e \in c + 1 .. b - 1 : e \in Nat /\ e < b
    OBVIOUS
  <2>4. A \cap B \in SUBSET Nat /\ A2 \cap B2 \in SUBSET Nat
    OBVIOUS
  <2> QED
    BY <2>2, <2>3, <2>4 DEF CarryInto
<1>2. \A b \in 0 .. d : /\ b \in Plus(w, A, B) <=> ~(b \in Xor(A, B) <=> carry(b))
                        /\ b \in Plus(w, A2, B2) <=> ~(b \in Xor(A2, B2) <=> carry2(b))
  <2> HIDE DEF carry, carry2
  <2>1. \A b \in 0 .. d : b \in Bits(w)
    BY DEF Bits
  <2>2. /\ Plus(w, A, B) = {b \in Bits(w) : (b \in Xor(A, B)) # carry(b)}
        /\ Plus(w, A2, B2) = {b \in Bits(w) : (b \in Xor(A2, B2)) # carry2(b)}
    BY DEF Plus, carry, carry2
  <2>3. \A b : carry(b) \in BOOLEAN /\ carry2(b) \in BOOLEAN
    BY DEF CarryInto, carry, carry2
  <2> QED
    BY <2>1, <2>2, <2>3
<1> HIDE DEF carry, carry2
<1>3. Below(Plus(w, A, B), Plus(w, A2, B2), d)
  <2> SUFFICES ASSUME NEW b \in 0 .. d - 1
               PROVE  b \in Plus(w, A, B) <=> b \in Plus(w, A2, B2)
    BY DEF Below
  <2>1. b \in 0 .. d
    OBVIOUS
  <2>2. (b \in A <=> b \in A2) /\ (b \in B <=> b \in B2)
    BY DEF Below
  <2>3. b \in Xor(A, B) <=> b \in Xor(A2, B2)
    BY <2>2 DEF Xor
  <2>4. carry(b) <=> carry2(b)
    BY <1>1, <2>1
  <2>5. /\ b \in Plus(w, A, B) <=> ~(b \in Xor(A, B) <=> carry(b))
        /\ b \in Plus(w, A2, B2) <=> ~(b \in Xor(A2, B2) <=> carry2(b))
    BY <1>2, <2>1
  <2> QED
    BY <2>3, <2>4, <2>5
<1>4. Flip(Plus(w, A, B), Plus(w, A2, B2), d) <=> (Flip(A, A2, d) # Flip(B, B2, d))
  <2>1. d \in 0 .. d
    OBVIOUS
  <2>2. carry(d) <=> carry2(d)
    BY <1>1, <2>1
  <2>3. /\ d \in Plus(w, A, B) <=> ~(d \in Xor(A, B) <=> carry(d))
        /\ d \in Plus(w, A2, B2) <=> ~(d \in Xor(A2, B2) <=> carry2(d))
    BY <1>2, <2>1
  <2>4. /\ d \in Xor(A, B) <=> ((d \in A) # (d \in B))
        /\ d \in Xor(A2, B2) <=> ((d \in A2) # (d \in B2))
    BY XorIs
  <2>5. CASE carry(d)
    BY <2>2, <2>3, <2>4, <2>5 DEF Flip
  <2>6. CASE ~carry(d)
    BY <2>2, <2>3, <2>4, <2>6 DEF Flip
  <2> QED
    BY <2>5, <2>6
<1> QED
  BY <1>3, <1>4

LEMMA ShlLow ==
  ASSUME NEW w \in Nat, NEW d \in Nat, d < w, NEW k \in Nat,
         NEW A \in SUBSET Nat, NEW A2 \in SUBSET Nat, Below(A, A2, d)
  PROVE  /\ Below(Shl(w, A, k), Shl(w, A2, k), d)
         /\ Flip(Shl(w, A, k), Shl(w, A2, k), d) <=> k = 0 /\ Flip(A, A2, d)
<1>1. \A b \in Int : /\ b \in Shl(w, A, k) <=> b - k \in A /\ b < w
                     /\ b \in Shl(w, A2, k) <=> b - k \in A2 /\ b < w
  BY ShlIs
<1>2. \A b \in Int : b < d => (b \in A <=> b \in A2)
  BY DEF Below
<1>3. Below(Shl(w, A, k), Shl(w, A2, k), d)
  <2> SUFFICES ASSUME NEW b \in 0 .. d - 1
               PROVE  b \in Shl(w, A, k) <=> b \in Shl(w, A2, k)
    BY DEF Below
  <2>1. b - k \in Int /\ b - k < d
    OBVIOUS
  <2> QED
    BY <1>1, <1>2, <2>1
<1>4. CASE k = 0
  <2>1. d - k = d
    BY <1>4
  <2> QED
    BY <1>1, <1>3, <1>4, <2>1 DEF Flip
<1>5. CASE k # 0
  <2>1. d - k \in Int /\ d - k < d
    BY <1>5
  <2> QED
    BY <1>1, <1>2, <1>3, <1>5, <2>1 DEF Flip
<1> QED
  BY <1>4, <1>5

LEMMA PlusIsWord ==
  ASSUME NEW w \in Nat, NEW A, NEW B
  PROVE  Plus(w, A, B) \subseteq Bits(w) /\ Bits(w) \subseteq Nat
  BY DEF Plus, Bits
-----------------------------------------------------------------------------
(* Sums over a set, which the folds take in an order of their own. *)

Chosen(s) == CHOOSE x \in s : TRUE

SumsUp(it, Dom, w, base, term) ==
  /\ it \in [SUBSET Dom -> SUBSET Nat] /\ it[{}] = base
  /\ \A s \in SUBSET Dom :
       s # {} => Chosen(s) \in s /\ it[s] = Plus(w, it[s \ {Chosen(s)}], term[Chosen(s)])

SumOf(it, Dom, w, base, term) ==
  it = [s \in SUBSET Dom |->
          IF s = {} THEN base ELSE Plus(w, it[s \ {Chosen(s)}], term[Chosen(s)])]

LEMMA SumExists ==
  ASSUME NEW Dom, IsFiniteSet(Dom), NEW w \in Nat, NEW base \in SUBSET Nat,
         NEW term \in [Dom -> SUBSET Nat]
  PROVE  \E it \in [SUBSET Dom -> SUBSET Nat] : SumOf(it, Dom, w, base, term)
<1> DEFINE V == SUBSET Nat
           op == [p \in Dom \X V |-> Plus(w, p[2], term[p[1]])]
           ch == [s \in SUBSET Dom |-> Chosen(s)]
<1>1. op \in [Dom \X V -> V]
  BY PlusIsWord
<1>2. \A s \in SUBSET Dom : s # {} => ch[s] \in s /\ ch[s] = Chosen(s) /\ ch[s] \in Dom
  BY DEF Chosen
<1>3. \A x \in Dom, v \in V : op[<<x, v>>] = Plus(w, v, term[x])
  OBVIOUS
<1> HIDE DEF op, ch
<1>4. PICK it \in [SUBSET Dom -> V] : FoldOf(it, Dom, ch, op, base)
  <2> HIDE DEF V
  <2>1. base \in V
    BY DEF V
  <2> QED
    BY <1>1, <1>2, <2>1, FoldExists
<1>5. ASSUME NEW s \in SUBSET Dom, s # {}
      PROVE  op[<<ch[s], it[s \ {ch[s]}]>>] = Plus(w, it[s \ {Chosen(s)}], term[Chosen(s)])
  <2>1. s \ {ch[s]} \in SUBSET Dom
    OBVIOUS
  <2>2. it[s \ {ch[s]}] \in V
    BY <2>1
  <2> QED
    BY <1>2, <1>3, <1>5, <2>2
<1>6. SumOf(it, Dom, w, base, term)
  BY <1>4, <1>5 DEF FoldOf, SumOf
<1> QED
  BY <1>6

(* What solves the equation sums up. *)
LEMMA SolvedSumsUp ==
  ASSUME NEW Dom, NEW w \in Nat, NEW base \in SUBSET Nat, NEW term, NEW it,
         SumOf(it, Dom, w, base, term)
  PROVE  SumsUp(it, Dom, w, base, term)
<1>1. \A s \in SUBSET Dom :
        it[s] = IF s = {} THEN base ELSE Plus(w, it[s \ {Chosen(s)}], term[Chosen(s)])
  BY DEF SumOf
<1>2. DOMAIN it = SUBSET Dom
  BY DEF SumOf
<1>3. \A s \in SUBSET Dom : it[s] \in SUBSET Nat
  <2> SUFFICES ASSUME NEW s \in SUBSET Dom PROVE it[s] \in SUBSET Nat
    OBVIOUS
  <2>1. \A A, B : Plus(w, A, B) \in SUBSET Nat
    BY PlusIsWord
  <2>2. CASE s = {}
    BY <1>1, <2>2
  <2>3. CASE s # {}
    <3>1. it[s] = Plus(w, it[s \ {Chosen(s)}], term[Chosen(s)])
      BY <1>1, <2>3
    <3> QED
      BY <2>1, <3>1
  <2> QED
    BY <2>2, <2>3
<1>4. it \in [SUBSET Dom -> SUBSET Nat]
  <2>1. it = [s \in SUBSET Dom |-> it[s]]
    BY DEF SumOf
  <2> QED
    BY <1>3, <2>1
<1>5. \A s \in SUBSET Dom : s # {} => Chosen(s) \in s
  BY DEF Chosen
<1> QED
  BY <1>1, <1>4, <1>5 DEF SumsUp

(* Two sums whose terms agree below bit d, and of which at most the term z differs in
   it. *)
LEMMA SumLow ==
  ASSUME NEW Dom, IsFiniteSet(Dom), NEW w \in Nat, NEW d \in Nat, d < w,
         NEW base1 \in SUBSET Nat, NEW base2 \in SUBSET Nat, Below(base1, base2, d),
         NEW t1 \in [Dom -> SUBSET Nat], NEW t2 \in [Dom -> SUBSET Nat],
         \A x \in Dom : Below(t1[x], t2[x], d),
         NEW z, \A x \in Dom : Flip(t1[x], t2[x], d) <=> x = z,
         NEW it1, SumsUp(it1, Dom, w, base1, t1), NEW it2, SumsUp(it2, Dom, w, base2, t2)
  PROVE  /\ Below(it1[Dom], it2[Dom], d)
         /\ Flip(it1[Dom], it2[Dom], d) <=> ~(Flip(base1, base2, d) <=> z \in Dom)
<1> DEFINE Good(s) == /\ Below(it1[s], it2[s], d)
                      /\ Flip(it1[s], it2[s], d) <=> ~(Flip(base1, base2, d) <=> z \in s)
           Bad == {n \in Nat : \E s \in SUBSET Dom : Cardinality(s) = n /\ ~Good(s)}
<1>1. \A s \in SUBSET Dom : IsFiniteSet(s) /\ Cardinality(s) \in Nat
  BY FS_Subset, FS_CardinalityType
<1>2. Good({})
  BY DEF SumsUp
<1>3. ASSUME NEW s \in SUBSET Dom, s # {}, Good(s \ {Chosen(s)})
      PROVE  Good(s)
  <2> DEFINE x == Chosen(s)
             r == s \ {x}
  <2>1. /\ it1[s] = Plus(w, it1[r], t1[x]) /\ it2[s] = Plus(w, it2[r], t2[x])
        /\ x \in s /\ x \in Dom /\ r \in SUBSET Dom
        /\ it1[r] \in SUBSET Nat /\ it2[r] \in SUBSET Nat
        /\ t1[x] \in SUBSET Nat /\ t2[x] \in SUBSET Nat
    BY <1>3 DEF SumsUp
  <2>2. Below(it1[r], it2[r], d) /\ Below(t1[x], t2[x], d)
    BY <1>3, <2>1
  <2>3. /\ Below(it1[s], it2[s], d)
        /\ Flip(it1[s], it2[s], d) <=> (Flip(it1[r], it2[r], d) # Flip(t1[x], t2[x], d))
    <3>1. PICK A, A2, B, B2 : A = it1[r] /\ A2 = it2[r] /\ B = t1[x] /\ B2 = t2[x]
      OBVIOUS
    <3>2. /\ A \in SUBSET Nat /\ A2 \in SUBSET Nat /\ Below(A, A2, d)
          /\ B \in SUBSET Nat /\ B2 \in SUBSET Nat /\ Below(B, B2, d)
      BY <2>1, <2>2, <3>1
    <3>3. /\ Below(Plus(w, A, B), Plus(w, A2, B2), d)
          /\ Flip(Plus(w, A, B), Plus(w, A2, B2), d) <=> (Flip(A, A2, d) # Flip(B, B2, d))
      BY <3>2, PlusLow
    <3> QED
      BY <2>1, <3>1, <3>3
  <2>4. Flip(t1[x], t2[x], d) <=> x = z
    BY <2>1
  <2>5. /\ Flip(it1[r], it2[r], d) <=> ~(Flip(base1, base2, d) <=> z \in r)
        /\ z \in s <=> z \in r \/ x = z
        /\ ~(z \in r /\ x = z)
    BY <1>3, <2>1
  <2>6. /\ Flip(it1[s], it2[s], d) \in BOOLEAN /\ Flip(it1[r], it2[r], d) \in BOOLEAN
        /\ Flip(t1[x], t2[x], d) \in BOOLEAN /\ Flip(base1, base2, d) \in BOOLEAN
    BY DEF Flip
  <2> HIDE DEF x, r
  <2>7. Flip(it1[s], it2[s], d) <=> ~(Flip(base1, base2, d) <=> z \in s)
    <3>1. CASE x = z
      BY <2>3, <2>4, <2>5, <2>6, <3>1
    <3>2. CASE x # z
      BY <2>3, <2>4, <2>5, <2>6, <3>2
    <3> QED
      BY <3>1, <3>2
  <2> QED
    BY <2>3, <2>7
<1> HIDE DEF Good
<1>4. Bad = {}
  <2> SUFFICES ASSUME Bad # {} PROVE FALSE
    OBVIOUS
  <2>0. Bad \in SUBSET Nat
    OBVIOUS
  <2>1. PICK n \in Bad : \A m \in Bad : n <= m
    <3> HIDE DEF Bad
    <3> QED
      BY <2>0, LeastNat
  <2>2. PICK s \in SUBSET Dom : Cardinality(s) = n /\ ~Good(s)
    BY <2>1
  <2>3. s # {}
    BY <1>2, <2>2
  <2>4. Chosen(s) \in s
    BY <2>3 DEF Chosen
  <2>5. /\ s \ {Chosen(s)} \in SUBSET Dom
        /\ Cardinality(s \ {Chosen(s)}) = n - 1
    BY <1>1, <2>2, <2>4, FS_RemoveElement
  <2>6. n - 1 \in Nat
    BY <1>1, <2>5
  <2>7. n - 1 \notin Bad
    BY <2>1, <2>6
  <2>8. Good(s \ {Chosen(s)})
    BY <2>5, <2>6, <2>7
  <2> QED
    BY <1>3, <2>2, <2>3, <2>8
<1>5. Good(Dom)
  BY <1>1, <1>4
<1> QED
  BY <1>5 DEF Good
-----------------------------------------------------------------------------
(* The multiplications. *)

Term(w, A, Dom) == [k \in Dom |-> Shl(w, A, k)]

ShiftSum(Dom, w, base, A) ==
  CHOOSE it : it = [s \in SUBSET Dom |->
    IF s = {} THEN base ELSE Plus(w, it[s \ {Chosen(s)}], Shl(w, A, Chosen(s)))]

LEMMA ShiftsAre ==
  ASSUME NEW kind
  PROVE  /\ IsFiniteSet(Shifts(kind)) /\ \A k \in Shifts(kind) : k \in Nat /\ k > 0
         /\ Width(kind) \in {32, 64}
<1>1. Shifts(kind) \in SUBSET Nat /\ \A k \in Shifts(kind) : k > 0 /\ k <= 40
  BY DEF Shifts
<1>2. IsFiniteSet(Shifts(kind))
  <2>1. 40 \in Nat
    OBVIOUS
  <2> QED
    BY <1>1, <2>1, FS_BoundedSetOfNaturals
<1> QED
  BY <1>1, <1>2 DEF Width

LEMMA ShiftSumIs ==
  ASSUME NEW Dom \in SUBSET Nat, IsFiniteSet(Dom), NEW w \in Nat, NEW base \in SUBSET Nat,
         NEW A \in SUBSET Nat
  PROVE  SumsUp(ShiftSum(Dom, w, base, A), Dom, w, base, Term(w, A, Dom))
<1> DEFINE term == Term(w, A, Dom)
           I == ShiftSum(Dom, w, base, A)
<1>1. term \in [Dom -> SUBSET Nat]
  BY WordsClosed DEF Term
<1>2. \A s \in SUBSET Dom : s # {} => term[Chosen(s)] = Shl(w, A, Chosen(s))
  BY DEF Term, Chosen
<1> HIDE DEF term
<1>3. PICK it0 \in [SUBSET Dom -> SUBSET Nat] : SumOf(it0, Dom, w, base, term)
  BY <1>1, SumExists
<1>4. it0 = [s \in SUBSET Dom |->
        IF s = {} THEN base ELSE Plus(w, it0[s \ {Chosen(s)}], Shl(w, A, Chosen(s)))]
  BY <1>2, <1>3 DEF SumOf
<1>5. I = [s \in SUBSET Dom |->
        IF s = {} THEN base ELSE Plus(w, I[s \ {Chosen(s)}], Shl(w, A, Chosen(s)))]
  BY <1>4 DEF ShiftSum
<1> HIDE DEF I
<1>6. SumOf(I, Dom, w, base, term)
  BY <1>2, <1>5 DEF SumOf
<1>7. SumsUp(I, Dom, w, base, term)
  BY <1>6, SolvedSumsUp
<1> QED
  BY <1>7 DEF I, term

LEMMA MultipliedIs ==
  ASSUME NEW kind, NEW h
  PROVE  Multiplied(kind, h) = ShiftSum(Shifts(kind), Width(kind), h, h)[Shifts(kind)]
  BY DEF Multiplied, FoldSet, MapThenFoldSet, Chosen, ShiftSum

LEMMA TimesOctetIs ==
  ASSUME NEW w, NEW A, NEW B, NEW n
  PROVE  TimesOctet(w, A, B, n) = ShiftSum(Octet(B, n), w, {}, A)[Octet(B, n)]
  BY DEF TimesOctet, FoldSet, MapThenFoldSet, Chosen, ShiftSum

OctetsOf(B) == {b \div 8 : b \in B}
OctetSum(w, A, B) ==
  CHOOSE it : it = [s \in SUBSET OctetsOf(B) |->
    IF s = {} THEN {} ELSE Plus(w, it[s \ {Chosen(s)}], TimesOctet(w, A, B, Chosen(s)))]
OctetTerm(w, A, B) == [n \in OctetsOf(B) |-> TimesOctet(w, A, B, n)]

LEMMA TimesIs ==
  ASSUME NEW w, NEW A, NEW B
  PROVE  Times(w, A, B) = OctetSum(w, A, B)[OctetsOf(B)]
  BY DEF Times, FoldSet, MapThenFoldSet, Chosen, OctetSum, OctetsOf

(* A sum is a word. *)
LEMMA SumIsWord ==
  ASSUME NEW Dom, NEW w \in Nat, NEW base \in SUBSET Bits(w), NEW term,
         NEW it, SumsUp(it, Dom, w, base, term)
  PROVE  it[Dom] \in SUBSET Bits(w) /\ it[Dom] \in SUBSET Nat
<1>1. Bits(w) \subseteq Nat
  BY PlusIsWord
<1>2. CASE Dom = {}
  BY <1>1, <1>2 DEF SumsUp
<1>3. CASE Dom # {}
  <2>1. it[Dom] = Plus(w, it[Dom \ {Chosen(Dom)}], term[Chosen(Dom)])
    BY <1>3 DEF SumsUp
  <2> QED
    BY <1>1, <2>1, PlusIsWord
<1> QED
  BY <1>2, <1>3

LEMMA OctetsFinite ==
  ASSUME NEW B \in SUBSET Nat, IsFiniteSet(B)
  PROVE  /\ IsFiniteSet(OctetsOf(B)) /\ OctetsOf(B) \in SUBSET Nat
         /\ \A n : IsFiniteSet(Octet(B, n)) /\ Octet(B, n) \in SUBSET Nat
<1>1. IsFiniteSet(OctetsOf(B))
  <2>1. OctetsOf(B) = {[x \in B |-> x \div 8][b] : b \in B}
    BY DEF OctetsOf
  <2>2. [x \in B |-> x \div 8] \in Surjection(B, OctetsOf(B))
    BY DEF OctetsOf, Surjection
  <2> QED
    BY <2>2, FS_Surjection DEF ExistsSurjection
<1>2. OctetsOf(B) \in SUBSET Nat
  BY DEF OctetsOf
<1>3. \A n : IsFiniteSet(Octet(B, n)) /\ Octet(B, n) \in SUBSET Nat
  BY FS_Subset DEF Octet
<1> QED
  BY <1>1, <1>2, <1>3

LEMMA TimesOctetIsWord ==
  ASSUME NEW w \in Nat, NEW A \in SUBSET Nat, NEW B \in SUBSET Nat, IsFiniteSet(B), NEW n
  PROVE  TimesOctet(w, A, B, n) \in SUBSET Bits(w) /\ TimesOctet(w, A, B, n) \in SUBSET Nat
<1>1. Octet(B, n) \in SUBSET Nat /\ IsFiniteSet(Octet(B, n))
  BY OctetsFinite
<1>2. {} \in SUBSET Nat /\ {} \in SUBSET Bits(w)
  OBVIOUS
<1>3. SumsUp(ShiftSum(Octet(B, n), w, {}, A), Octet(B, n), w, {}, Term(w, A, Octet(B, n)))
  BY <1>1, <1>2, ShiftSumIs
<1> QED
  BY <1>2, <1>3, SumIsWord, TimesOctetIs

LEMMA OctetSumIs ==
  ASSUME NEW w \in Nat, NEW A \in SUBSET Nat, NEW B \in SUBSET Nat, IsFiniteSet(B)
  PROVE  /\ SumsUp(OctetSum(w, A, B), OctetsOf(B), w, {}, OctetTerm(w, A, B))
         /\ OctetTerm(w, A, B) \in [OctetsOf(B) -> SUBSET Nat]
<1> DEFINE Dom == OctetsOf(B)
           term == OctetTerm(w, A, B)
           I == OctetSum(w, A, B)
<1>1. term \in [Dom -> SUBSET Nat]
  BY TimesOctetIsWord DEF OctetTerm
<1>2. \A s \in SUBSET Dom : s # {} => term[Chosen(s)] = TimesOctet(w, A, B, Chosen(s))
  BY DEF OctetTerm, Chosen
<1>0. IsFiniteSet(Dom) /\ {} \in SUBSET Nat
  BY OctetsFinite
<1> HIDE DEF term
<1>3. PICK it0 \in [SUBSET Dom -> SUBSET Nat] : SumOf(it0, Dom, w, {}, term)
  <2> HIDE DEF Dom
  <2> QED
    BY <1>0, <1>1, SumExists
<1>4. it0 = [s \in SUBSET Dom |->
        IF s = {} THEN {} ELSE Plus(w, it0[s \ {Chosen(s)}], TimesOctet(w, A, B, Chosen(s)))]
  BY <1>2, <1>3 DEF SumOf
<1>5. I = [s \in SUBSET Dom |->
        IF s = {} THEN {} ELSE Plus(w, I[s \ {Chosen(s)}], TimesOctet(w, A, B, Chosen(s)))]
  BY <1>4 DEF OctetSum
<1> HIDE DEF I
<1>6. SumOf(I, Dom, w, {}, term)
  BY <1>2, <1>5 DEF SumOf
<1> HIDE DEF Dom
<1>7. SumsUp(I, Dom, w, {}, term)
  BY <1>0, <1>6, SolvedSumsUp
<1> QED
  BY <1>1, <1>7 DEF I, term, Dom
-----------------------------------------------------------------------------
(* Multiplying by an odd number loses nothing: two words that first differ in bit d are
   multiplied to two that first differ in bit d. *)

LEMMA MultipliedLow ==
  ASSUME NEW kind, NEW h \in SUBSET Bits(Width(kind)), NEW h2 \in SUBSET Bits(Width(kind)),
         NEW d \in Nat, d < Width(kind), Below(h, h2, d), Flip(h, h2, d)
  PROVE  Flip(Multiplied(kind, h), Multiplied(kind, h2), d)
<1> DEFINE Dom == Shifts(kind)
           w == Width(kind)
<1>1. w \in Nat /\ Dom \in SUBSET Nat /\ IsFiniteSet(Dom) /\ (\A k \in Dom : k > 0) /\ 0 \notin Dom
  BY ShiftsAre
<1>2. h \in SUBSET Nat /\ h2 \in SUBSET Nat
  BY <1>1, PlusIsWord
<1> HIDE DEF Dom, w
<1>3. /\ SumsUp(ShiftSum(Dom, w, h, h), Dom, w, h, Term(w, h, Dom))
      /\ SumsUp(ShiftSum(Dom, w, h2, h2), Dom, w, h2, Term(w, h2, Dom))
  BY <1>1, <1>2, ShiftSumIs
<1>4. d < w
  BY DEF w
<1>5. \A k \in Dom : Below(Shl(w, h, k), Shl(w, h2, k), d) /\ ~Flip(Shl(w, h, k), Shl(w, h2, k), d)
  BY <1>1, <1>2, <1>4, ShlLow
<1>6. /\ Term(w, h, Dom) \in [Dom -> SUBSET Nat] /\ Term(w, h2, Dom) \in [Dom -> SUBSET Nat]
      /\ \A k \in Dom : Term(w, h, Dom)[k] = Shl(w, h, k) /\ Term(w, h2, Dom)[k] = Shl(w, h2, k)
  BY <1>1, <1>2, WordsClosed DEF Term
<1>7. \A k \in Dom : /\ Below(Term(w, h, Dom)[k], Term(w, h2, Dom)[k], d)
                     /\ Flip(Term(w, h, Dom)[k], Term(w, h2, Dom)[k], d) <=> k = 0
  BY <1>1, <1>5, <1>6
<1>8. PICK t1, t2, it1, it2 : /\ t1 = Term(w, h, Dom) /\ t2 = Term(w, h2, Dom)
                              /\ it1 = ShiftSum(Dom, w, h, h) /\ it2 = ShiftSum(Dom, w, h2, h2)
  OBVIOUS
<1>9. Flip(it1[Dom], it2[Dom], d) <=> ~(Flip(h, h2, d) <=> 0 \in Dom)
  <2>1. /\ t1 \in [Dom -> SUBSET Nat] /\ t2 \in [Dom -> SUBSET Nat]
        /\ \A x \in Dom : Below(t1[x], t2[x], d)
        /\ \A x \in Dom : Flip(t1[x], t2[x], d) <=> x = 0
        /\ SumsUp(it1, Dom, w, h, t1) /\ SumsUp(it2, Dom, w, h2, t2)
    BY <1>3, <1>6, <1>7, <1>8
  <2> QED
    BY <1>1, <1>2, <1>4, <2>1, SumLow
<1>10. Flip(it1[Dom], it2[Dom], d)
  BY <1>1, <1>9
<1> QED
  BY <1>8, <1>10, MultipliedIs DEF Dom, w

LEMMA TimesOctetLow ==
  ASSUME NEW w \in Nat, NEW A \in SUBSET Nat, NEW A2 \in SUBSET Nat,
         NEW B \in SUBSET Nat, IsFiniteSet(B), NEW n,
         NEW d \in Nat, d < w, Below(A, A2, d), Flip(A, A2, d)
  PROVE  /\ Below(TimesOctet(w, A, B, n), TimesOctet(w, A2, B, n), d)
         /\ Flip(TimesOctet(w, A, B, n), TimesOctet(w, A2, B, n), d) <=> 0 \in Octet(B, n)
<1> DEFINE Dom == Octet(B, n)
<1>1. Dom \in SUBSET Nat /\ IsFiniteSet(Dom) /\ {} \in SUBSET Nat
  BY OctetsFinite
<1> HIDE DEF Dom
<1>3. /\ SumsUp(ShiftSum(Dom, w, {}, A), Dom, w, {}, Term(w, A, Dom))
      /\ SumsUp(ShiftSum(Dom, w, {}, A2), Dom, w, {}, Term(w, A2, Dom))
  BY <1>1, ShiftSumIs
<1>5. \A k \in Dom : /\ Below(Shl(w, A, k), Shl(w, A2, k), d)
                     /\ Flip(Shl(w, A, k), Shl(w, A2, k), d) <=> k = 0
  BY <1>1, ShlLow
<1>6. /\ Term(w, A, Dom) \in [Dom -> SUBSET Nat] /\ Term(w, A2, Dom) \in [Dom -> SUBSET Nat]
      /\ \A k \in Dom : Term(w, A, Dom)[k] = Shl(w, A, k) /\ Term(w, A2, Dom)[k] = Shl(w, A2, k)
  BY <1>1, WordsClosed DEF Term
<1>7. \A k \in Dom : /\ Below(Term(w, A, Dom)[k], Term(w, A2, Dom)[k], d)
                     /\ Flip(Term(w, A, Dom)[k], Term(w, A2, Dom)[k], d) <=> k = 0
  BY <1>5, <1>6
<1>8. PICK t1, t2, it1, it2 : /\ t1 = Term(w, A, Dom) /\ t2 = Term(w, A2, Dom)
                              /\ it1 = ShiftSum(Dom, w, {}, A) /\ it2 = ShiftSum(Dom, w, {}, A2)
  OBVIOUS
<1>9. /\ Below(it1[Dom], it2[Dom], d)
      /\ Flip(it1[Dom], it2[Dom], d) <=> ~(Flip({}, {}, d) <=> 0 \in Dom)
  <2>1. /\ t1 \in [Dom -> SUBSET Nat] /\ t2 \in [Dom -> SUBSET Nat]
        /\ \A x \in Dom : Below(t1[x], t2[x], d)
        /\ \A x \in Dom : Flip(t1[x], t2[x], d) <=> x = 0
        /\ SumsUp(it1, Dom, w, {}, t1) /\ SumsUp(it2, Dom, w, {}, t2)
    BY <1>3, <1>6, <1>7, <1>8
  <2>2. Below({}, {}, d)
    BY DEF Below
  <2> QED
    BY <1>1, <2>1, <2>2, SumLow
<1>10. Below(it1[Dom], it2[Dom], d) /\ (Flip(it1[Dom], it2[Dom], d) <=> 0 \in Dom)
  BY <1>9 DEF Flip
<1> QED
  BY <1>8, <1>10, TimesOctetIs DEF Dom

LEMMA TimesLow ==
  ASSUME NEW w \in Nat, NEW A \in SUBSET Nat, NEW A2 \in SUBSET Nat,
         NEW B \in SUBSET Nat, IsFiniteSet(B), 0 \in B,
         NEW d \in Nat, d < w, Below(A, A2, d), Flip(A, A2, d)
  PROVE  Flip(Times(w, A, B), Times(w, A2, B), d)
<1> DEFINE Dom == OctetsOf(B)
<1>1. IsFiniteSet(Dom) /\ 0 \in Dom /\ {} \in SUBSET Nat
  <2>1. 0 \div 8 = 0
    OBVIOUS
  <2> QED
    BY <2>1, OctetsFinite DEF OctetsOf
<1>2. \A n \in Dom : 0 \in Octet(B, n) <=> n = 0
  <2>1. 0 \div 8 = 0
    OBVIOUS
  <2> QED
    BY <2>1 DEF Octet
<1>3. PICK t1, t2, it1, it2 : /\ t1 = OctetTerm(w, A, B) /\ t2 = OctetTerm(w, A2, B)
                              /\ it1 = OctetSum(w, A, B) /\ it2 = OctetSum(w, A2, B)
  OBVIOUS
<1>4. /\ t1 \in [Dom -> SUBSET Nat] /\ t2 \in [Dom -> SUBSET Nat]
      /\ SumsUp(it1, Dom, w, {}, t1) /\ SumsUp(it2, Dom, w, {}, t2)
  BY <1>3, OctetSumIs
<1>5. \A n \in Dom : t1[n] = TimesOctet(w, A, B, n) /\ t2[n] = TimesOctet(w, A2, B, n)
  BY <1>3 DEF OctetTerm
<1>6. \A n \in Dom : Below(t1[n], t2[n], d) /\ (Flip(t1[n], t2[n], d) <=> n = 0)
  BY <1>2, <1>5, TimesOctetLow
<1> HIDE DEF Dom
<1>7. Flip(it1[Dom], it2[Dom], d) <=> ~(Flip({}, {}, d) <=> 0 \in Dom)
  <2>1. Below({}, {}, d)
    BY DEF Below
  <2> QED
    BY <1>1, <1>4, <1>6, <2>1, SumLow
<1>8. Flip(it1[Dom], it2[Dom], d)
  BY <1>1, <1>7 DEF Flip
<1> QED
  BY <1>3, <1>8, TimesIs DEF Dom

(* So that none of the multiplications loses anything. *)
LEMMA WordsDiffer ==
  ASSUME NEW w \in Nat, NEW A \in SUBSET Bits(w), NEW A2 \in SUBSET Bits(w), A # A2
  PROVE  \E d \in Nat : d < w /\ Below(A, A2, d) /\ Flip(A, A2, d)
<1>1. A \in SUBSET Nat /\ A2 \in SUBSET Nat
  BY PlusIsWord
<1>2. PICK d \in Nat : Below(A, A2, d) /\ Flip(A, A2, d)
  BY <1>1, LowestFlip
<1>3. d < w
  BY <1>2 DEF Flip, Bits
<1> QED
  BY <1>2, <1>3

LEMMA MultipliedDiffers ==
  ASSUME NEW kind, NEW h \in SUBSET Bits(Width(kind))
  PROVE  /\ Multiplied(kind, h) \in SUBSET Bits(Width(kind))
         /\ \A h2 \in SUBSET Bits(Width(kind)) :
              h # h2 => Multiplied(kind, h) # Multiplied(kind, h2)
<1>1. Width(kind) \in Nat /\ Shifts(kind) \in SUBSET Nat /\ IsFiniteSet(Shifts(kind))
  BY ShiftsAre
<1>2. h \in SUBSET Nat
  BY <1>1, PlusIsWord
<1>3. SumsUp(ShiftSum(Shifts(kind), Width(kind), h, h), Shifts(kind), Width(kind), h,
             Term(Width(kind), h, Shifts(kind)))
  BY <1>1, <1>2, ShiftSumIs
<1>4. Multiplied(kind, h) \in SUBSET Bits(Width(kind))
  BY <1>1, <1>3, SumIsWord, MultipliedIs
<1>5. ASSUME NEW h2 \in SUBSET Bits(Width(kind)), h # h2
      PROVE  Multiplied(kind, h) # Multiplied(kind, h2)
  <2>1. PICK d \in Nat : d < Width(kind) /\ Below(h, h2, d) /\ Flip(h, h2, d)
    BY <1>1, <1>5, WordsDiffer
  <2>2. Flip(Multiplied(kind, h), Multiplied(kind, h2), d)
    BY <2>1, MultipliedLow
  <2> QED
    BY <2>2 DEF Flip
<1> QED
  BY <1>4, <1>5

LEMMA TimesDiffers ==
  ASSUME NEW w \in Nat, NEW B \in SUBSET Nat, IsFiniteSet(B), 0 \in B,
         NEW A \in SUBSET Bits(w)
  PROVE  /\ Times(w, A, B) \in SUBSET Bits(w)
         /\ \A A2 \in SUBSET Bits(w) : A # A2 => Times(w, A, B) # Times(w, A2, B)
<1>1. A \in SUBSET Nat /\ {} \in SUBSET Bits(w)
  BY PlusIsWord
<1>2. SumsUp(OctetSum(w, A, B), OctetsOf(B), w, {}, OctetTerm(w, A, B))
  BY <1>1, OctetSumIs
<1>3. Times(w, A, B) \in SUBSET Bits(w)
  BY <1>1, <1>2, SumIsWord, TimesIs
<1>4. ASSUME NEW A2 \in SUBSET Bits(w), A # A2 PROVE Times(w, A, B) # Times(w, A2, B)
  <2>1. PICK d \in Nat : d < w /\ Below(A, A2, d) /\ Flip(A, A2, d)
    BY <1>4, WordsDiffer
  <2>2. A2 \in SUBSET Nat
    BY PlusIsWord
  <2>3. Flip(Times(w, A, B), Times(w, A2, B), d)
    BY <1>1, <2>1, <2>2, TimesLow
  <2> QED
    BY <2>3 DEF Flip
<1> QED
  BY <1>3, <1>4
-----------------------------------------------------------------------------
(* Nor does any other step of the hash functions. *)

LEMMA HighestFlip ==
  ASSUME NEW w \in Nat, NEW X \in SUBSET Bits(w), NEW Y \in SUBSET Bits(w), X # Y
  PROVE  \E d \in Bits(w) : Flip(X, Y, d) /\ \A b \in Int : b > d => ~Flip(X, Y, b)
<1> DEFINE B == {n \in Nat : \E b \in Bits(w) : n = w - 1 - b /\ Flip(X, Y, b)}
<1>1. B # {} /\ B \in SUBSET Nat
  <2>1. PICK b \in Bits(w) : Flip(X, Y, b)
    BY DEF Flip
  <2>2. w - 1 - b \in Nat
    BY DEF Bits
  <2> QED
    BY <2>1, <2>2
<1>2. PICK n \in B : \A m \in B : n <= m
  <2> HIDE DEF B
  <2> QED
    BY <1>1, LeastNat
<1>3. PICK d \in Bits(w) : n = w - 1 - d /\ Flip(X, Y, d)
  BY <1>2
<1>4. ASSUME NEW b \in Int, b > d, Flip(X, Y, b) PROVE FALSE
  <2>1. b \in Bits(w)
    BY <1>4 DEF Flip
  <2>2. w - 1 - b \in Nat /\ w - 1 - b < n
    BY <1>3, <1>4, <2>1 DEF Bits
  <2>3. w - 1 - b \in B
    BY <1>4, <2>1, <2>2
  <2> QED
    BY <1>1, <1>2, <2>2, <2>3
<1> QED
  BY <1>3, <1>4

(* x ^ x>>k *)
LEMMA ShiftedDiffers ==
  ASSUME NEW w \in Nat, NEW k \in Nat, k > 0, NEW X \in SUBSET Bits(w)
  PROVE  /\ Xor(X, Shr(X, k)) \in SUBSET Bits(w)
         /\ \A Y \in SUBSET Bits(w) : X # Y => Xor(X, Shr(X, k)) # Xor(Y, Shr(Y, k))
<1>1. \A Y \in SUBSET Bits(w) : Y \in SUBSET Int /\ \A b \in Int : b \in Shr(Y, k) <=> b + k \in Y /\ b >= 0
  <2> SUFFICES ASSUME NEW Y \in SUBSET Bits(w)
               PROVE  Y \in SUBSET Int /\ \A b \in Int : b \in Shr(Y, k) <=> b + k \in Y /\ b >= 0
    OBVIOUS
  <2>1. Y \in SUBSET Int
    BY DEF Bits
  <2> QED
    BY <2>1, ShrIs
<1>2. Xor(X, Shr(X, k)) \in SUBSET Bits(w)
  <2>1. Shr(X, k) \in SUBSET Bits(w)
    BY DEF Shr, Bits
  <2> QED
    BY <2>1 DEF Xor
<1>3. ASSUME NEW Y \in SUBSET Bits(w), X # Y PROVE Xor(X, Shr(X, k)) # Xor(Y, Shr(Y, k))
  <2>1. PICK d \in Bits(w) : Flip(X, Y, d) /\ \A b \in Int : b > d => ~Flip(X, Y, b)
    BY <1>3, HighestFlip
  <2>2. d \in Int /\ d >= 0 /\ d + k \in Int /\ d + k > d
    BY DEF Bits
  <2>3. ~Flip(X, Y, d + k)
    BY <2>1, <2>2
  <2>4. d \in Shr(X, k) <=> d \in Shr(Y, k)
    BY <1>1, <2>2, <2>3 DEF Flip
  <2>5. ~(d \in Xor(X, Shr(X, k)) <=> d \in Xor(Y, Shr(Y, k)))
    BY <2>1, <2>4, XorIs DEF Flip
  <2> QED
    BY <2>5
<1> QED
  BY <1>2, <1>3

LEMMA XorDiffers ==
  ASSUME NEW w \in Nat, NEW Cst \in SUBSET Bits(w), NEW X \in SUBSET Bits(w)
  PROVE  /\ Xor(X, Cst) \in SUBSET Bits(w) /\ Xor(Cst, X) = Xor(X, Cst)
         /\ \A Y \in SUBSET Bits(w) : X # Y => Xor(X, Cst) # Xor(Y, Cst)
<1>1. Xor(X, Cst) \in SUBSET Bits(w) /\ Xor(Cst, X) = Xor(X, Cst)
  BY DEF Xor
<1>2. ASSUME NEW Y \in SUBSET Bits(w), X # Y PROVE Xor(X, Cst) # Xor(Y, Cst)
  <2>1. PICK b : ~(b \in X <=> b \in Y)
    BY <1>2
  <2>2. ~(b \in Xor(X, Cst) <=> b \in Xor(Y, Cst))
    BY <2>1, XorIs
  <2> QED
    BY <2>2
<1> QED
  BY <1>1, <1>2

LEMMA PlusDiffers ==
  ASSUME NEW w \in Nat, NEW Cst \in SUBSET Nat, NEW X \in SUBSET Bits(w)
  PROVE  /\ Plus(w, X, Cst) \in SUBSET Bits(w)
         /\ \A Y \in SUBSET Bits(w) : X # Y => Plus(w, X, Cst) # Plus(w, Y, Cst)
<1>1. Plus(w, X, Cst) \in SUBSET Bits(w)
  BY PlusIsWord
<1>2. ASSUME NEW Y \in SUBSET Bits(w), X # Y PROVE Plus(w, X, Cst) # Plus(w, Y, Cst)
  <2>1. PICK d \in Nat : d < w /\ Below(X, Y, d) /\ Flip(X, Y, d)
    BY <1>2, WordsDiffer
  <2>2. X \in SUBSET Nat /\ Y \in SUBSET Nat
    BY PlusIsWord
  <2>3. Below(Cst, Cst, d) /\ ~Flip(Cst, Cst, d)
    BY DEF Below, Flip
  <2>4. Flip(Plus(w, X, Cst), Plus(w, Y, Cst), d) <=> (Flip(X, Y, d) # Flip(Cst, Cst, d))
    BY <2>1, <2>2, <2>3, PlusLow
  <2>5. Flip(Plus(w, X, Cst), Plus(w, Y, Cst), d)
    BY <2>1, <2>3, <2>4 DEF Flip
  <2> QED
    BY <2>5 DEF Flip
<1> QED
  BY <1>1, <1>2

LEMMA RotlDiffers ==
  ASSUME NEW w \in Nat, NEW k \in Nat, k < w, NEW X \in SUBSET Bits(w)
  PROVE  /\ Rotl(w, X, k) \in SUBSET Bits(w)
         /\ \A Y \in SUBSET Bits(w) : X # Y => Rotl(w, X, k) # Rotl(w, Y, k)
<1>1. Rotl(w, X, k) \in SUBSET Bits(w)
  <2>1. X \in SUBSET Int
    BY DEF Bits
  <2>2. Shl(w, X, k) \subseteq Bits(w)
    BY DEF Shl, Bits
  <2>3. Shr(X, w - k) \subseteq Bits(w)
    BY DEF Shr, Bits
  <2> QED
    BY <2>2, <2>3 DEF Rotl
<1>2. ASSUME NEW Y \in SUBSET Bits(w), NEW b \in Bits(w)
      PROVE  b \in Y <=> IF b + k < w THEN b + k \in Rotl(w, Y, k)
                                      ELSE b + k - w \in Rotl(w, Y, k)
  <2>1. Y \in SUBSET Int /\ b \in Int /\ w - k \in Nat
    BY DEF Bits
  <2>2. \A c \in Int : c \in Rotl(w, Y, k) <=> (c - k \in Y /\ c < w) \/ (c + (w - k) \in Y /\ c >= 0)
    BY <2>1, ShlIs, ShrIs DEF Rotl
  <2>3. \A c \in Y : c >= 0 /\ c < w
    BY DEF Bits
  <2>4. CASE b + k < w
    <3>1. (b + k) - k = b /\ (b + k) + (w - k) = b + w /\ b + w \notin Y /\ b + k \in Int
      BY <2>1, <2>3 DEF Bits
    <3> QED
      BY <2>2, <2>4, <3>1
  <2>5. CASE ~(b + k < w)
    <3>1. /\ (b + k - w) - k = b - w /\ (b + k - w) + (w - k) = b /\ b - w \notin Y
          /\ b + k - w \in Int /\ b + k - w >= 0
      BY <2>1, <2>3, <2>5 DEF Bits
    <3> QED
      BY <2>2, <2>5, <3>1
  <2> QED
    BY <2>4, <2>5
<1>3. ASSUME NEW Y \in SUBSET Bits(w), X # Y PROVE Rotl(w, X, k) # Rotl(w, Y, k)
  <2>1. PICK b \in Bits(w) : ~(b \in X <=> b \in Y)
    BY <1>3
  <2>2. CASE b + k < w
    BY <1>2, <2>1, <2>2
  <2>3. CASE ~(b + k < w)
    BY <1>2, <2>1, <2>3
  <2> QED
    BY <2>2, <2>3
<1> QED
  BY <1>1, <1>3

(* An octet, and a literal of halfwords. *)
LEMMA OctetWord ==
  ASSUME NEW n \in 0 .. 255
  PROVE  Word(n) \subseteq 0 .. 7 /\ \A m \in 0 .. 255 : n # m => Word(n) # Word(m)
<1>1. /\ 2^0 = 1 /\ 2^1 = 2 /\ 2^2 = 4 /\ 2^3 = 8 /\ 2^4 = 16 /\ 2^5 = 32 /\ 2^6 = 64 /\ 2^7 = 128
  OBVIOUS
<1>2. \A b \in 8 .. 29 : (n \div 2^b) % 2 # 1
  <2>1. \A m \in Nat : m > 255 => (n \div m) % 2 = 0
    <3> SUFFICES ASSUME NEW m \in Nat, m > 255 PROVE (n \div m) % 2 = 0
      OBVIOUS
    <3>1. n \div m = 0 /\ 0 % 2 = 0
      OBVIOUS
    <3> QED
      BY ONLY <3>1
  <2>3. \A b \in 8 .. 29 : 2^b \in Nat /\ 2^b > 255
    <3> SUFFICES ASSUME NEW b \in 8 .. 29 PROVE 2^b \in Nat /\ 2^b > 255
      OBVIOUS
    <3>1. \/ b = 8 \/ b = 9 \/ b = 10 \/ b = 11 \/ b = 12 \/ b = 13
           \/ b = 14 \/ b = 15 \/ b = 16 \/ b = 17 \/ b = 18
          \/ b = 19 \/ b = 20 \/ b = 21 \/ b = 22 \/ b = 23 \/ b = 24
           \/ b = 25 \/ b = 26 \/ b = 27 \/ b = 28 \/ b = 29
      OBVIOUS
    <3>2. /\ 2^8 \in Nat /\ 2^8 > 255 /\ 2^9 \in Nat /\ 2^9 > 255
        /\ 2^10 \in Nat /\ 2^10 > 255 /\ 2^11 \in Nat /\ 2^11 > 255
        /\ 2^12 \in Nat /\ 2^12 > 255 /\ 2^13 \in Nat /\ 2^13 > 255
        /\ 2^14 \in Nat /\ 2^14 > 255 /\ 2^15 \in Nat /\ 2^15 > 255
        /\ 2^16 \in Nat /\ 2^16 > 255 /\ 2^17 \in Nat /\ 2^17 > 255
        /\ 2^18 \in Nat /\ 2^18 > 255
      OBVIOUS
    <3>3. /\ 2^19 \in Nat /\ 2^19 > 255 /\ 2^20 \in Nat /\ 2^20 > 255
        /\ 2^21 \in Nat /\ 2^21 > 255 /\ 2^22 \in Nat /\ 2^22 > 255
        /\ 2^23 \in Nat /\ 2^23 > 255 /\ 2^24 \in Nat /\ 2^24 > 255
        /\ 2^25 \in Nat /\ 2^25 > 255 /\ 2^26 \in Nat /\ 2^26 > 255
        /\ 2^27 \in Nat /\ 2^27 > 255 /\ 2^28 \in Nat /\ 2^28 > 255
        /\ 2^29 \in Nat /\ 2^29 > 255
      OBVIOUS
    <3>4. CASE b = 8 \/ b = 9 \/ b = 10 \/ b = 11 \/ b = 12 \/ b = 13
           \/ b = 14 \/ b = 15 \/ b = 16 \/ b = 17 \/ b = 18
      BY <3>2, <3>4, Zenon
    <3>5. CASE b = 19 \/ b = 20 \/ b = 21 \/ b = 22 \/ b = 23 \/ b = 24
           \/ b = 25 \/ b = 26 \/ b = 27 \/ b = 28 \/ b = 29
      BY <3>3, <3>5, Zenon
    <3> QED
      BY <3>1, <3>4, <3>5
  <2> SUFFICES ASSUME NEW b \in 8 .. 29 PROVE (n \div 2^b) % 2 # 1
    OBVIOUS
  <2>4. PICK m : m = 2^b
    OBVIOUS
  <2>5. m \in Nat /\ m > 255
    BY <2>3, <2>4
  <2>6. (n \div m) % 2 = 0
    BY <2>1, <2>5
  <2>7. (n \div 2^b) % 2 = 0
    BY <2>4, <2>6
  <2> QED
    BY <2>7
<1>3. ASSUME NEW m \in 0 .. 255, Word(n) = Word(m) PROVE n = m
  <2>1. \A b \in 0 .. 7 : (n \div 2^b) % 2 = (m \div 2^b) % 2
    <3> SUFFICES ASSUME NEW b \in 0 .. 7 PROVE (n \div 2^b) % 2 = (m \div 2^b) % 2
      OBVIOUS
    <3>0. 2^b \in Nat /\ 2^b > 0
      <4>1. b = 0 \/ b = 1 \/ b = 2 \/ b = 3 \/ b = 4 \/ b = 5 \/ b = 6 \/ b = 7
        OBVIOUS
      <4>2. /\ 2^0 \in Nat /\ 2^0 > 0 /\ 2^1 \in Nat /\ 2^1 > 0 /\ 2^2 \in Nat /\ 2^2 > 0
            /\ 2^3 \in Nat /\ 2^3 > 0 /\ 2^4 \in Nat /\ 2^4 > 0 /\ 2^5 \in Nat /\ 2^5 > 0
            /\ 2^6 \in Nat /\ 2^6 > 0 /\ 2^7 \in Nat /\ 2^7 > 0
        OBVIOUS
      <4> QED
        BY <4>1, <4>2, Zenon
    <3>1. (n \div 2^b) % 2 = 1 <=> (m \div 2^b) % 2 = 1
      <4>1. b \in 0 .. 29
        OBVIOUS
      <4>2. \A q : b \in Word(q) <=> (q \div 2^b) % 2 = 1
        BY <4>1 DEF Word
      <4> QED
        BY <1>3, <4>2
    <3>2. \A q \in Nat : q % 2 \in {0, 1}
      OBVIOUS
    <3>3. n \div 2^b \in Nat /\ m \div 2^b \in Nat
      BY <3>0
    <3> QED
      BY <3>1, <3>2, <3>3
  <2>2. /\ n % 2 = m % 2 /\ (n \div 2) % 2 = (m \div 2) % 2
        /\ (n \div 4) % 2 = (m \div 4) % 2 /\ (n \div 8) % 2 = (m \div 8) % 2
        /\ (n \div 16) % 2 = (m \div 16) % 2 /\ (n \div 32) % 2 = (m \div 32) % 2
        /\ (n \div 64) % 2 = (m \div 64) % 2 /\ (n \div 128) % 2 = (m \div 128) % 2
    <3>1. n \div 1 = n /\ m \div 1 = m
      OBVIOUS
    <3> QED
      BY <1>1, <2>1, <3>1
  <2>3. \A k \in 0 .. 255 :
          k = (k % 2) + 2 * ((k \div 2) % 2) + 4 * ((k \div 4) % 2) + 8 * ((k \div 8) % 2)
                + 16 * ((k \div 16) % 2) + 32 * ((k \div 32) % 2) + 64 * ((k \div 64) % 2)
                + 128 * ((k \div 128) % 2)
    OBVIOUS
  <2>4. n = (n % 2) + 2 * ((n \div 2) % 2) + 4 * ((n \div 4) % 2) + 8 * ((n \div 8) % 2)
              + 16 * ((n \div 16) % 2) + 32 * ((n \div 32) % 2) + 64 * ((n \div 64) % 2)
              + 128 * ((n \div 128) % 2)
    BY <2>3
  <2>5. m = (m % 2) + 2 * ((m \div 2) % 2) + 4 * ((m \div 4) % 2) + 8 * ((m \div 8) % 2)
              + 16 * ((m \div 16) % 2) + 32 * ((m \div 32) % 2) + 64 * ((m \div 64) % 2)
              + 128 * ((m \div 128) % 2)
    BY <2>3
  <2> QED
    BY <2>2, <2>4, <2>5
<1>4. Word(n) \subseteq 0 .. 7
  <2> SUFFICES ASSUME NEW b \in Word(n), b \notin 0 .. 7 PROVE FALSE
    OBVIOUS
  <2>1. b \in 0 .. 29 /\ (n \div 2^b) % 2 = 1
    BY DEF Word
  <2>2. b \in 8 .. 29
    BY <2>1
  <2> QED
    BY <1>2, <2>1, <2>2
<1> QED
  BY <1>3, <1>4

LEMMA HalfwordBound ==
  ASSUME NEW b \in 0 .. 29, NEW l \in Nat, NEW i \in 1 .. l
  PROVE  b + 16 * (i - 1) \in Nat /\ b + 16 * (i - 1) <= 29 + 16 * l
  OBVIOUS

LEMMA HalfwordsAre ==
  ASSUME NEW s \in Seq(Nat)
  PROVE  /\ Halfwords(s) \in SUBSET Nat /\ IsFiniteSet(Halfwords(s))
         /\ s # <<>> /\ s[1] % 2 = 1 => 0 \in Halfwords(s)
<1>1. ASSUME NEW c \in Halfwords(s) PROVE c \in Nat /\ c <= 29 + 16 * Len(s)
  <2>1. PICK i \in DOMAIN s : c \in {b + 16 * (i - 1) : b \in Word(s[i])}
    BY DEF Halfwords
  <2>2. PICK b \in Word(s[i]) : c = b + 16 * (i - 1)
    BY <2>1
  <2>3. b \in 0 .. 29
    BY DEF Word
  <2>4. PICK l \in Nat : l = Len(s)
    OBVIOUS
  <2>5. i \in 1 .. l
    BY <2>4
  <2>6. c \in Nat /\ c <= 29 + 16 * l
    BY <2>2, <2>3, <2>5, HalfwordBound
  <2> QED
    BY <2>4, <2>6
<1>2. IsFiniteSet(Halfwords(s))
  <2>1. 29 + 16 * Len(s) \in Nat
    OBVIOUS
  <2> QED
    BY <1>1, <2>1, FS_BoundedSetOfNaturals
<1>3. ASSUME s # <<>>, s[1] % 2 = 1 PROVE 0 \in Halfwords(s)
  <2>1. 1 \in DOMAIN s /\ s[1] \in Nat
    BY <1>3
  <2>2. 0 \in Word(s[1])
    <3>1. 2^0 = 1 /\ s[1] \div 1 = s[1]
      BY <2>1
    <3> QED
      BY <1>3, <3>1 DEF Word
  <2>3. 0 = 0 + 16 * (1 - 1)
    OBVIOUS
  <2>4. 0 \in {b + 16 * (1 - 1) : b \in Word(s[1])}
    BY <2>2, <2>3
  <2> QED
    BY <2>1, <2>4 DEF Halfwords
<1> QED
  BY <1>1, <1>2, <1>3
(* A halfword has the bits below 16. *)
Halfword == 0 .. 65535
AboveHalfwords(m) == m \in Nat /\ m > 65535

LEMMA HalfwordWord ==
  ASSUME NEW n \in Halfword
  PROVE  Word(n) \subseteq 0 .. 15
<1> SUFFICES ASSUME NEW b \in Word(n), b \notin 0 .. 15 PROVE FALSE
  OBVIOUS
<1>1. b \in 0 .. 29 /\ (n \div 2^b) % 2 = 1
  BY DEF Word
<1>2. \/ b = 16 \/ b = 17 \/ b = 18 \/ b = 19 \/ b = 20 \/ b = 21 \/ b = 22
      \/ b = 23 \/ b = 24 \/ b = 25 \/ b = 26 \/ b = 27 \/ b = 28 \/ b = 29
  BY <1>1
<1>4. AboveHalfwords(2^b)
  <2>1. CASE b = 16 \/ b = 17 \/ b = 18 \/ b = 19 \/ b = 20 \/ b = 21 \/ b = 22
    <3>1. /\ AboveHalfwords(2^16) /\ AboveHalfwords(2^17)
          /\ AboveHalfwords(2^18) /\ AboveHalfwords(2^19)
          /\ AboveHalfwords(2^20) /\ AboveHalfwords(2^21)
          /\ AboveHalfwords(2^22)
      BY DEF AboveHalfwords
    <3> QED
      BY <2>1, <3>1, Zenon
  <2>2. CASE b = 23 \/ b = 24 \/ b = 25 \/ b = 26 \/ b = 27 \/ b = 28 \/ b = 29
    <3>1. /\ AboveHalfwords(2^23) /\ AboveHalfwords(2^24)
          /\ AboveHalfwords(2^25) /\ AboveHalfwords(2^26)
          /\ AboveHalfwords(2^27) /\ AboveHalfwords(2^28)
          /\ AboveHalfwords(2^29)
      BY DEF AboveHalfwords
    <3> QED
      BY <2>2, <3>1, Zenon
  <2> QED
    BY <1>2, <2>1, <2>2
<1>5. PICK m : m = 2^b
  OBVIOUS
<1>6. m \in Nat /\ m > n /\ n \in Nat
  BY SMTT(30), <1>4, <1>5 DEF AboveHalfwords, Halfword
<1>7. n \div m = 0 /\ 0 % 2 = 0
  BY <1>6
<1>8. (n \div m) % 2 = 0
  BY ONLY <1>7
<1> QED
  BY <1>1, <1>5, <1>8

LEMMA PlaceBound ==
  ASSUME NEW b \in 0 .. 15, NEW l \in Nat, NEW i \in 1 .. l
  PROVE  b + 16 * (i - 1) \in 0 .. 16 * l - 1
  OBVIOUS

LEMMA HalfwordsBits ==
  ASSUME NEW s \in Seq(Halfword)
  PROVE  Halfwords(s) \in SUBSET Bits(16 * Len(s))
<1> SUFFICES ASSUME NEW c \in Halfwords(s) PROVE c \in Bits(16 * Len(s))
  OBVIOUS
<1>1. PICK i \in DOMAIN s : c \in {b + 16 * (i - 1) : b \in Word(s[i])}
  BY DEF Halfwords
<1>2. PICK b \in Word(s[i]) : c = b + 16 * (i - 1)
  BY <1>1
<1>3. b \in 0 .. 15
  <2>1. s[i] \in Halfword
    OBVIOUS
  <2> QED
    BY <2>1, HalfwordWord
<1>4. PICK l \in Nat : l = Len(s)
  OBVIOUS
<1>5. i \in 1 .. l
  BY <1>4
<1>6. \A b_ \in 0 .. 15, j \in 1 .. l : b_ + 16 * (j - 1) \in 0 .. 16 * l - 1
  BY PlaceBound
<1>7. c \in 0 .. 16 * l - 1
  BY <1>2, <1>3, <1>5, <1>6
<1> QED
  BY <1>4, <1>7 DEF Bits

Init32 == <<\h9dc5, \h811c>>
Init64 == <<\h2325, \h8422, \h9ce4, \hcbf2>>

LEMMA InitIsWord ==
  ASSUME NEW kind
  PROVE  FNV1_INIT(kind) \in SUBSET Bits(Width(kind))
<1>1. /\ \h9dc5 \in Halfword /\ \h811c \in Halfword /\ \h2325 \in Halfword
      /\ \h8422 \in Halfword /\ \h9ce4 \in Halfword /\ \hcbf2 \in Halfword
  BY DEF Halfword
<1>2. /\ Init32 \in Seq(Halfword) /\ Len(Init32) = 2
      /\ Init64 \in Seq(Halfword) /\ Len(Init64) = 4
  BY <1>1 DEF Init32, Init64
<1>3. 16 * 2 = 32 /\ 16 * 4 = 64
  OBVIOUS
<1>4. Halfwords(Init32) \in SUBSET Bits(32) /\ Halfwords(Init64) \in SUBSET Bits(64)
  <2>1. /\ Halfwords(Init32) \in SUBSET Bits(16 * Len(Init32))
        /\ Halfwords(Init64) \in SUBSET Bits(16 * Len(Init64))
    BY <1>2, HalfwordsBits
  <2>2. 16 * Len(Init32) = 32 /\ 16 * Len(Init64) = 64
    BY <1>2, <1>3
  <2> QED
    BY <2>1, <2>2
<1>5. FNV1_INIT(kind) = IF Width(kind) = 32 THEN Halfwords(Init32) ELSE Halfwords(Init64)
  BY DEF FNV1_INIT, Init32, Init64
<1> QED
  BY <1>4, <1>5 DEF Width
-----------------------------------------------------------------------------
(* FNV: a difference in the hash so far or in one octet stays. *)

W(kind) == SUBSET Bits(Width(kind))
Byte == 0 .. 255

LEMMA TurnDiffers ==
  ASSUME NEW kind, NEW h \in W(kind), NEW o \in Byte
  PROVE  /\ Turn(kind, h, o) \in W(kind)
         /\ \A h2 \in W(kind) : h # h2 => Turn(kind, h, o) # Turn(kind, h2, o)
         /\ \A o2 \in Byte : o # o2 => Turn(kind, h, o) # Turn(kind, h, o2)
<1>1. Width(kind) \in Nat /\ Width(kind) >= 32
  BY DEF Width
<1>2. \A x \in Byte : Word(x) \in W(kind)
  <2>1. 0 .. 7 \subseteq Bits(Width(kind))
    BY <1>1 DEF Bits
  <2> QED
    BY <2>1, OctetWord DEF W, Byte
<1>3. \A X, Y \in W(kind) : /\ Xor(X, Y) \in W(kind)
                            /\ \A Z \in W(kind) : X # Z => Xor(X, Y) # Xor(Z, Y)
                            /\ \A Z \in W(kind) : Y # Z => Xor(X, Y) # Xor(X, Z)
  <2> SUFFICES ASSUME NEW X \in W(kind), NEW Y \in W(kind)
               PROVE  /\ Xor(X, Y) \in W(kind)
                      /\ \A Z \in W(kind) : X # Z => Xor(X, Y) # Xor(Z, Y)
                      /\ \A Z \in W(kind) : Y # Z => Xor(X, Y) # Xor(X, Z)
    OBVIOUS
  <2>1. Xor(X, Y) \in W(kind) /\ \A Z \in W(kind) : X # Z => Xor(X, Y) # Xor(Z, Y)
    BY <1>1, XorDiffers DEF W
  <2>2. \A Z \in W(kind) : Y # Z => Xor(Y, X) # Xor(Z, X)
    BY <1>1, XorDiffers DEF W
  <2>3. \A P, Q : Xor(P, Q) = Xor(Q, P)
    BY DEF Xor
  <2> QED
    BY <2>1, <2>2, <2>3
<1>4. \A X \in W(kind) : /\ Multiplied(kind, X) \in W(kind)
                         /\ \A Z \in W(kind) : X # Z => Multiplied(kind, X) # Multiplied(kind, Z)
  BY MultipliedDiffers DEF W
<1>5. CASE kind \in {"32", "64"}
  <2>1. \A x, v : Turn(kind, v, x) = Xor(Multiplied(kind, v), Word(x))
    BY <1>5 DEF Turn, WithOctet
  <2>2. ASSUME NEW o2 \in Byte, o # o2 PROVE Word(o) # Word(o2)
    BY <2>2, OctetWord DEF Byte
  <2> QED
    BY <1>2, <1>3, <1>4, <2>1, <2>2
<1>6. CASE kind \notin {"32", "64"}
  <2>1. \A x, v : Turn(kind, v, x) = Multiplied(kind, Xor(v, Word(x)))
    BY <1>6 DEF Turn, WithOctet
  <2>2. ASSUME NEW o2 \in Byte, o # o2 PROVE Word(o) # Word(o2)
    BY <2>2, OctetWord DEF Byte
  <2> QED
    BY <1>2, <1>3, <1>4, <2>1, <2>2
<1> QED
  BY <1>5, <1>6

(* The loop of a hash function, turn by turn. *)
LEMMA MaxOfInterval ==
  ASSUME NEW k \in Nat, k > 0
  PROVE  Max(1 .. k) = k /\ (1 .. k) \ {k} = 1 .. k - 1
<1>1. k \in 1 .. k /\ \A y \in 1 .. k : k >= y
  OBVIOUS
<1>2. \A x \in 1 .. k : (\A y \in 1 .. k : x >= y) => x = k
  BY <1>1
<1>3. Max(1 .. k) = k
  BY <1>1, <1>2 DEF Max
<1> QED
  BY <1>3

LEMMA HasMax ==
  ASSUME NEW n \in Nat, NEW s \in SUBSET (1 .. n), s # {}
  PROVE  Max(s) \in s
<1> DEFINE B == {m \in Nat : \E x \in s : m = n - x}
<1>1. B # {} /\ B \in SUBSET Nat
  <2>1. PICK x : x \in s
    OBVIOUS
  <2>2. n - x \in Nat
    BY <2>1
  <2> QED
    BY <2>1, <2>2
<1>2. PICK m \in B : \A y \in B : m <= y
  <2> HIDE DEF B
  <2> QED
    BY <1>1, LeastNat
<1>3. PICK x \in s : m = n - x
  OBVIOUS
<1>4. \A y \in s : x >= y
  <2> SUFFICES ASSUME NEW y \in s PROVE x >= y
    OBVIOUS
  <2>1. n - y \in B
    OBVIOUS
  <2> QED
    BY <1>2, <1>3, <2>1
<1> QED
  BY <1>4 DEF Max

Turns(g, kind, octets, h) ==
  /\ g[0] = h
  /\ \A k \in 1 .. Len(octets) : g[k] = Turn(kind, g[k - 1], octets[k])

LEMMA HashedIs ==
  ASSUME NEW kind, NEW octets \in Seq(Byte), NEW h \in W(kind)
  PROVE  \E g : Turns(g, kind, octets, h) /\ Hashed(kind, octets, h) = g[Len(octets)]
<1> DEFINE Dom == DOMAIN octets
           n == Len(octets)
           I == CHOOSE it : it = [s \in SUBSET Dom |->
                  IF s = {} THEN h ELSE Turn(kind, it[s \ {Max(s)}], octets[Max(s)])]
           V == W(kind)
           op == [p \in Dom \X V |-> Turn(kind, p[2], octets[p[1]])]
           ch == [s \in SUBSET Dom |-> Max(s)]
<1>1. Hashed(kind, octets, h) = I[Dom]
  BY DEF Hashed, FoldLeft, MapThenFoldSet
<1>2. n \in Nat /\ Dom = 1 .. n /\ IsFiniteSet(Dom)
  BY FS_Interval
<1>3. \A i \in Dom : octets[i] \in Byte
  OBVIOUS
<1>4. \A s \in SUBSET Dom : s # {} => ch[s] \in s /\ ch[s] = Max(s) /\ ch[s] \in Dom
  <2> HIDE DEF Dom, n
  <2> SUFFICES ASSUME NEW s \in SUBSET Dom, s # {} PROVE Max(s) \in s
    OBVIOUS
  <2> QED
    BY <1>2, HasMax
<1>5. \A x \in Dom, v \in V : Turn(kind, v, octets[x]) \in V
  BY <1>3, TurnDiffers
<1>6. op \in [Dom \X V -> V] /\ \A x \in Dom, v \in V : op[<<x, v>>] = Turn(kind, v, octets[x])
  <2> HIDE DEF Dom, V
  <2> QED
    BY <1>5
<1> HIDE DEF op, ch
<1>7. PICK it \in [SUBSET Dom -> V] : FoldOf(it, Dom, ch, op, h)
  <2> HIDE DEF V, Dom
  <2>1. h \in V
    BY DEF V
  <2> QED
    BY <1>2, <1>4, <1>6, <2>1, FoldExists
<1>8. ASSUME NEW s \in SUBSET Dom, s # {}
      PROVE  op[<<ch[s], it[s \ {ch[s]}]>>] = Turn(kind, it[s \ {Max(s)}], octets[Max(s)])
  <2> HIDE DEF V, Dom
  <2>1. s \ {ch[s]} \in SUBSET Dom
    OBVIOUS
  <2>2. it[s \ {ch[s]}] \in V
    BY <2>1
  <2> QED
    BY <1>4, <1>6, <1>8, <2>2
<1>9. it = [s \in SUBSET Dom |->
              IF s = {} THEN h ELSE Turn(kind, it[s \ {Max(s)}], octets[Max(s)])]
  BY <1>7, <1>8 DEF FoldOf
<1>10. I = [s \in SUBSET Dom |->
              IF s = {} THEN h ELSE Turn(kind, I[s \ {Max(s)}], octets[Max(s)])]
  BY <1>9
<1> HIDE DEF I, Dom, n
<1> DEFINE g == [k \in 0 .. n |-> I[1 .. k]]
<1>11. g[0] = h
  <2>1. 1 .. 0 = {} /\ 0 \in 0 .. n
    BY <1>2
  <2>2. g[0] = I[{}]
    BY <2>1
  <2> QED
    BY <1>10, <2>2
<1>12. ASSUME NEW k \in 1 .. n
       PROVE  g[k] = Turn(kind, g[k - 1], octets[k])
  <2>1. k \in Nat /\ k > 0 /\ k \in 0 .. n /\ k - 1 \in 0 .. n
    BY <1>2
  <2>2. 1 .. k \in SUBSET Dom /\ 1 .. k # {}
    <3>1. k \in 1 .. k
      BY <2>1
    <3>2. \A x \in 1 .. k : x \in 1 .. n
      BY <1>2
    <3> QED
      BY <1>2, <3>1, <3>2
  <2>3. I[1 .. k] = Turn(kind, I[(1 .. k) \ {Max(1 .. k)}], octets[Max(1 .. k)])
    BY <1>10, <2>2
  <2>4. Max(1 .. k) = k /\ (1 .. k) \ {k} = 1 .. k - 1
    BY <2>1, MaxOfInterval
  <2>5. I[1 .. k] = Turn(kind, I[1 .. k - 1], octets[k])
    BY <2>3, <2>4
  <2> QED
    BY <2>1, <2>5
<1>13. g[n] = I[Dom]
  BY <1>2
<1> HIDE DEF g
<1> QED
  BY <1>1, <1>11, <1>12, <1>13 DEF Turns, n

(* Two hashes that differ in exactly one of the values that they start from, p = 0, and
   their octets. *)
LEMMA HashedDiffers ==
  ASSUME NEW kind, NEW s1 \in Seq(Byte), NEW s2 \in Seq(Byte), Len(s1) = Len(s2),
         NEW h1 \in W(kind), NEW h2 \in W(kind), NEW p \in 0 .. Len(s1),
         h1 # h2 <=> p = 0, \A i \in 1 .. Len(s1) : s1[i] # s2[i] <=> i = p
  PROVE  Hashed(kind, s1, h1) # Hashed(kind, s2, h2)
<1> DEFINE n == Len(s1)
<1>0. n \in Nat /\ n = Len(s2)
  OBVIOUS
<1>1. PICK g1 : Turns(g1, kind, s1, h1) /\ Hashed(kind, s1, h1) = g1[n]
  BY HashedIs
<1>2. PICK g2 : Turns(g2, kind, s2, h2) /\ Hashed(kind, s2, h2) = g2[n]
  BY <1>0, HashedIs
<1> DEFINE Good(k) == g1[k] \in W(kind) /\ g2[k] \in W(kind) /\ (g1[k] = g2[k] <=> k < p)
           Bad == {k \in 0 .. n : ~Good(k)}
<1>3. Good(0)
  BY <1>1, <1>2 DEF Turns
<1>4. ASSUME NEW k \in 1 .. n, Good(k - 1)
      PROVE  Good(k)
  <2>1. /\ g1[k] = Turn(kind, g1[k - 1], s1[k]) /\ g2[k] = Turn(kind, g2[k - 1], s2[k])
        /\ s1[k] \in Byte /\ s2[k] \in Byte
    BY <1>0, <1>1, <1>2 DEF Turns
  <2>2. g1[k] \in W(kind) /\ g2[k] \in W(kind)
    BY <1>4, <2>1, TurnDiffers
  <2>3. s1[k] # s2[k] <=> k = p
    OBVIOUS
  <2>4. CASE k < p
    <3>1. g1[k - 1] = g2[k - 1] /\ s1[k] = s2[k]
      BY <1>0, <1>4, <2>3, <2>4
    <3> QED
      BY <2>1, <2>2, <2>4, <3>1
  <2>5. CASE k = p
    <3>1. g1[k - 1] = g2[k - 1] /\ s1[k] # s2[k]
      BY <1>0, <1>4, <2>3, <2>5
    <3>2. g1[k] # g2[k]
      BY <1>4, <2>1, <3>1, TurnDiffers
    <3> QED
      BY <2>2, <2>5, <3>2
  <2>6. CASE k > p
    <3>1. g1[k - 1] # g2[k - 1] /\ s1[k] = s2[k]
      BY <1>0, <1>4, <2>3, <2>6
    <3>2. g1[k] # g2[k]
      BY <1>4, <2>1, <3>1, TurnDiffers
    <3> QED
      BY <2>2, <2>6, <3>2
  <2> QED
    BY <1>0, <2>4, <2>5, <2>6
<1> HIDE DEF Good
<1>5. Bad = {}
  <2> SUFFICES ASSUME Bad # {} PROVE FALSE
    OBVIOUS
  <2>0. Bad \in SUBSET Nat
    OBVIOUS
  <2>1. PICK k \in Bad : \A m \in Bad : k <= m
    <3> HIDE DEF Bad
    <3> QED
      BY <2>0, LeastNat
  <2>2. k \in 1 .. n /\ ~Good(k)
    BY <1>3, <2>1
  <2>3. k - 1 \in 0 .. n /\ k - 1 \notin Bad
    BY <1>0, <2>1, <2>2
  <2>4. Good(k - 1)
    BY <2>3
  <2> QED
    BY <1>4, <2>2, <2>4
<1>6. Good(n)
  BY <1>0, <1>5
<1> QED
  BY <1>0, <1>1, <1>2, <1>6 DEF Good

LEMMA HashedIsWord ==
  ASSUME NEW kind, NEW s1 \in Seq(Byte), NEW h1 \in W(kind)
  PROVE  Hashed(kind, s1, h1) \in W(kind)
<1> DEFINE n == Len(s1)
<1>0. n \in Nat
  OBVIOUS
<1>1. PICK g1 : Turns(g1, kind, s1, h1) /\ Hashed(kind, s1, h1) = g1[n]
  BY HashedIs
<1> DEFINE Bad == {k \in 0 .. n : g1[k] \notin W(kind)}
<1>2. Bad = {}
  <2> SUFFICES ASSUME Bad # {} PROVE FALSE
    OBVIOUS
  <2>0. Bad \in SUBSET Nat
    OBVIOUS
  <2>1. PICK k \in Bad : \A m \in Bad : k <= m
    <3> HIDE DEF Bad
    <3> QED
      BY <2>0, LeastNat
  <2>2. k \in 1 .. n /\ g1[k] \notin W(kind)
    BY <1>1, <2>1 DEF Turns
  <2>3. g1[k - 1] \in W(kind)
    BY <1>0, <2>1, <2>2
  <2>4. g1[k] = Turn(kind, g1[k - 1], s1[k]) /\ s1[k] \in Byte
    BY <1>1, <2>2 DEF Turns
  <2> QED
    BY <2>2, <2>3, <2>4, TurnDiffers
<1> QED
  BY <1>0, <1>1, <1>2
-----------------------------------------------------------------------------
(* hash_fp and murmur: what their steps do with a difference. *)

W64 == SUBSET Bits(64)
Word32 == SUBSET Bits(32)

(* An odd factor of halfwords. *)
Odd(F) == F \in SUBSET Nat /\ IsFiniteSet(F) /\ 0 \in F

LEMMA OddFactor ==
  ASSUME NEW s \in Seq(Nat), s # <<>>, s[1] % 2 = 1
  PROVE  Odd(Halfwords(s))
  BY HalfwordsAre DEF Odd

LEMMA OddFactors ==
  /\ Odd(Halfwords(<<\he5b9, \h1ce4, \h476d, \hbf58>>))
  /\ Odd(Halfwords(<<\h11eb, \h1331, \h49bb, \h94d0>>))
  /\ Odd(Halfwords(<<\h2d51, \hcc9e>>)) /\ Odd(Halfwords(<<\h3593, \h1b87>>))
  /\ Odd(Halfwords(<<\hca6b, \h85eb>>)) /\ Odd(Halfwords(<<\hae35, \hc2b2>>))
  /\ Odd({0}) /\ Odd(Word(5)) /\ Halfwords(<<\h6b64, \he654>>) \in SUBSET Nat
<1>1. ASSUME NEW a \in Nat, NEW b \in Nat, a % 2 = 1 PROVE Odd(Halfwords(<<a, b>>))
  <2>1. PICK s : s = <<a, b>>
    OBVIOUS
  <2>2. s \in Seq(Nat) /\ s # <<>> /\ s[1] % 2 = 1
    BY <1>1, <2>1
  <2> QED
    BY <2>1, <2>2, OddFactor
<1>2. ASSUME NEW a \in Nat, NEW b \in Nat, NEW c \in Nat, NEW d \in Nat, a % 2 = 1
      PROVE  Odd(Halfwords(<<a, b, c, d>>))
  <2>1. PICK s : s = <<a, b, c, d>>
    OBVIOUS
  <2>2. s \in Seq(Nat) /\ s # <<>> /\ s[1] % 2 = 1
    BY <1>2, <2>1
  <2> QED
    BY <2>1, <2>2, OddFactor
<1>3. Odd(Halfwords(<<\he5b9, \h1ce4, \h476d, \hbf58>>))
  BY <1>2
<1>4. Odd(Halfwords(<<\h11eb, \h1331, \h49bb, \h94d0>>))
  BY <1>2
<1>5. Odd(Halfwords(<<\h2d51, \hcc9e>>)) /\ Odd(Halfwords(<<\h3593, \h1b87>>))
  BY <1>1
<1>6. Odd(Halfwords(<<\hca6b, \h85eb>>)) /\ Odd(Halfwords(<<\hae35, \hc2b2>>))
  BY <1>1
<1>7. Odd({0})
  BY FS_Singleton DEF Odd
<1>8. Odd(Word(5))
  <2>1. Word(5) \in SUBSET Nat /\ IsFiniteSet(Word(5))
    <3>1. Word(5) \in SUBSET (0 .. 29) /\ IsFiniteSet(0 .. 29)
      <4>1. 0 \in Int /\ 29 \in Int
        OBVIOUS
      <4>2. IsFiniteSet(0 .. 29)
        BY <4>1, FS_Interval
      <4> QED
        BY <4>2 DEF Word
    <3> QED
      BY <3>1, FS_Subset
  <2>2. 2^0 = 1 /\ (5 \div 1) % 2 = 1
    OBVIOUS
  <2>3. 0 \in Word(5)
    BY <2>2 DEF Word
  <2> QED
    BY <2>1, <2>3 DEF Odd
<1>9. Halfwords(<<\h6b64, \he654>>) \in SUBSET Nat
  <2>1. \A a, b \in Nat : Halfwords(<<a, b>>) \in SUBSET Nat
    <3> SUFFICES ASSUME NEW a \in Nat, NEW b \in Nat PROVE Halfwords(<<a, b>>) \in SUBSET Nat
      OBVIOUS
    <3>1. PICK s : s = <<a, b>>
      OBVIOUS
    <3>2. s \in Seq(Nat)
      BY <3>1
    <3> QED
      BY <3>1, <3>2, HalfwordsAre
  <2> QED
    BY <2>1
<1> QED
  BY <1>3, <1>4, <1>5, <1>6, <1>7, <1>8, <1>9

LEMMA OddTimes ==
  ASSUME NEW w \in Nat, NEW F, Odd(F), NEW X \in SUBSET Bits(w)
  PROVE  /\ Times(w, X, F) \in SUBSET Bits(w)
         /\ \A Y \in SUBSET Bits(w) : X # Y => Times(w, X, F) # Times(w, Y, F)
  BY TimesDiffers DEF Odd

LEMMA HashFpDiffers ==
  ASSUME NEW X \in W64
  PROVE  hash_fp(X) \in W64 /\ \A Y \in W64 : X # Y => hash_fp(X) # hash_fp(Y)
<1> DEFINE F == Halfwords(<<\he5b9, \h1ce4, \h476d, \hbf58>>)
           G == Halfwords(<<\h11eb, \h1331, \h49bb, \h94d0>>)
           a(x) == Xor(x, Shr(x, 30))
           b(x) == Times(64, a(x), F)
           c(x) == Xor(b(x), Shr(b(x), 27))
           d(x) == Times(64, c(x), G)
           e(x) == Xor(d(x), Shr(d(x), 31))
<1>1. \A x : hash_fp(x) = e(x)
  BY DEF hash_fp
<1>2. Odd(F) /\ Odd(G) /\ 64 \in Nat /\ 27 \in Nat /\ 30 \in Nat /\ 31 \in Nat
  BY OddFactors
<1> HIDE DEF F, G
<1>3. \A x \in W64 : a(x) \in W64 /\ \A y \in W64 : x # y => a(x) # a(y)
  BY <1>2, ShiftedDiffers DEF W64
<1> HIDE DEF a
<1>4. \A x \in W64 : b(x) \in W64 /\ \A y \in W64 : x # y => b(x) # b(y)
  <2>1. \A x \in W64 : /\ Times(64, x, F) \in W64
                       /\ \A y \in W64 : x # y => Times(64, x, F) # Times(64, y, F)
    BY <1>2, OddTimes DEF W64
  <2> QED
    BY <1>3, <2>1
<1> HIDE DEF b
<1>5. \A x \in W64 : c(x) \in W64 /\ \A y \in W64 : x # y => c(x) # c(y)
  <2>1. \A x \in W64 : /\ Xor(x, Shr(x, 27)) \in W64
                       /\ \A y \in W64 : x # y => Xor(x, Shr(x, 27)) # Xor(y, Shr(y, 27))
    BY <1>2, ShiftedDiffers DEF W64
  <2> QED
    BY <1>4, <2>1
<1> HIDE DEF c
<1>6. \A x \in W64 : d(x) \in W64 /\ \A y \in W64 : x # y => d(x) # d(y)
  <2>1. \A x \in W64 : /\ Times(64, x, G) \in W64
                       /\ \A y \in W64 : x # y => Times(64, x, G) # Times(64, y, G)
    BY <1>2, OddTimes DEF W64
  <2> QED
    BY <1>5, <2>1
<1> HIDE DEF d
<1>7. \A x \in W64 : e(x) \in W64 /\ \A y \in W64 : x # y => e(x) # e(y)
  <2>1. \A x \in W64 : /\ Xor(x, Shr(x, 31)) \in W64
                       /\ \A y \in W64 : x # y => Xor(x, Shr(x, 31)) # Xor(y, Shr(y, 31))
    BY <1>2, ShiftedDiffers DEF W64
  <2> QED
    BY <1>6, <2>1
<1> HIDE DEF e
<1> QED
  BY <1>1, <1>7

LEMMA ScrambleDiffers ==
  ASSUME NEW X \in Word32
  PROVE  /\ murmur_32_scramble(X) \in Word32
         /\ \A Y \in Word32 : X # Y => murmur_32_scramble(X) # murmur_32_scramble(Y)
<1> DEFINE F == Halfwords(<<\h2d51, \hcc9e>>)
           G == Halfwords(<<\h3593, \h1b87>>)
           a(x) == Times(32, x, F)
           b(x) == Rotl(32, a(x), 15)
           c(x) == Times(32, b(x), G)
<1>1. \A x : murmur_32_scramble(x) = c(x)
  BY DEF murmur_32_scramble
<1>2. Odd(F) /\ Odd(G) /\ 32 \in Nat /\ 15 \in Nat /\ 15 < 32
  BY OddFactors
<1> HIDE DEF F, G
<1>3. \A x \in Word32 : a(x) \in Word32 /\ \A y \in Word32 : x # y => a(x) # a(y)
  BY <1>2, OddTimes DEF Word32
<1> HIDE DEF a
<1>4. \A x \in Word32 : b(x) \in Word32 /\ \A y \in Word32 : x # y => b(x) # b(y)
  <2>1. \A x \in Word32 : /\ Rotl(32, x, 15) \in Word32
                          /\ \A y \in Word32 : x # y => Rotl(32, x, 15) # Rotl(32, y, 15)
    BY <1>2, RotlDiffers DEF Word32
  <2> QED
    BY <1>3, <2>1
<1> HIDE DEF b
<1>5. \A x \in Word32 : c(x) \in Word32 /\ \A y \in Word32 : x # y => c(x) # c(y)
  <2>1. \A x \in Word32 : /\ Times(32, x, G) \in Word32
                          /\ \A y \in Word32 : x # y => Times(32, x, G) # Times(32, y, G)
    BY <1>2, OddTimes DEF Word32
  <2> QED
    BY <1>4, <2>1
<1> HIDE DEF c
<1> QED
  BY <1>1, <1>5

LEMMA FinalizedDiffers ==
  ASSUME NEW X \in Word32, NEW k \in Nat, k > 0, NEW F, Odd(F)
  PROVE  /\ Finalized(X, k, F) \in Word32
         /\ \A Y \in Word32 : X # Y => Finalized(X, k, F) # Finalized(Y, k, F)
<1> DEFINE a(x) == Xor(x, Shr(x, k))
<1>1. \A x : Finalized(x, k, F) = Times(32, a(x), F)
  BY DEF Finalized
<1>2. 32 \in Nat
  OBVIOUS
<1>3. \A x \in Word32 : a(x) \in Word32 /\ \A y \in Word32 : x # y => a(x) # a(y)
  BY <1>2, ShiftedDiffers DEF Word32
<1> HIDE DEF a
<1>4. \A x \in Word32 : /\ Times(32, x, F) \in Word32
                        /\ \A y \in Word32 : x # y => Times(32, x, F) # Times(32, y, F)
  BY <1>2, OddTimes DEF Word32
<1> QED
  BY <1>1, <1>3, <1>4

LEMMA Xor32 ==
  ASSUME NEW X \in Word32, NEW Cst \in Word32
  PROVE  /\ Xor(X, Cst) \in Word32 /\ Xor(Cst, X) = Xor(X, Cst)
         /\ \A Y \in Word32 : X # Y => Xor(X, Cst) # Xor(Y, Cst)
<1>1. 32 \in Nat
  OBVIOUS
<1> QED
  BY <1>1, XorDiffers DEF Word32

LEMMA GroupTurnDiffers ==
  ASSUME NEW h \in Word32, NEW k \in Word32
  PROVE  /\ GroupTurn(h, k) \in Word32
         /\ \A h2 \in Word32 : h # h2 => GroupTurn(h, k) # GroupTurn(h2, k)
         /\ \A k2 \in Word32 : k # k2 => GroupTurn(h, k) # GroupTurn(h, k2)
<1> DEFINE C_ == Halfwords(<<\h6b64, \he654>>)
           b(x) == Rotl(32, x, 13)
           c(x) == Times(32, b(x), Word(5))
           d(x) == Plus(32, c(x), C_)
<1>1. \A x, y : GroupTurn(x, y) = d(Xor(x, murmur_32_scramble(y)))
  BY DEF GroupTurn
<1>2. Odd(Word(5)) /\ C_ \in SUBSET Nat /\ 32 \in Nat /\ 13 \in Nat /\ 13 < 32
  BY OddFactors
<1> HIDE DEF C_
<1>3. \A x \in Word32 : b(x) \in Word32 /\ \A y \in Word32 : x # y => b(x) # b(y)
  BY <1>2, RotlDiffers DEF Word32
<1> HIDE DEF b
<1>4. \A x \in Word32 : c(x) \in Word32 /\ \A y \in Word32 : x # y => c(x) # c(y)
  <2>1. \A x \in Word32 : /\ Times(32, x, Word(5)) \in Word32
                          /\ \A y \in Word32 : x # y => Times(32, x, Word(5)) # Times(32, y, Word(5))
    BY <1>2, OddTimes DEF Word32
  <2> QED
    BY <1>3, <2>1
<1> HIDE DEF c
<1>5. \A x \in Word32 : d(x) \in Word32 /\ \A y \in Word32 : x # y => d(x) # d(y)
  <2>1. \A x \in Word32 : /\ Plus(32, x, C_) \in Word32
                          /\ \A y \in Word32 : x # y => Plus(32, x, C_) # Plus(32, y, C_)
    BY <1>2, PlusDiffers DEF Word32
  <2> QED
    BY <1>4, <2>1
<1> HIDE DEF d
<1>6. \A y \in Word32 : /\ murmur_32_scramble(y) \in Word32
                        /\ \A z \in Word32 : y # z => murmur_32_scramble(y) # murmur_32_scramble(z)
  BY ScrambleDiffers
<1>7. \A x, y \in Word32 : Xor(x, murmur_32_scramble(y)) \in Word32
  BY <1>6, Xor32
<1>8. ASSUME NEW h2 \in Word32, h # h2 PROVE GroupTurn(h, k) # GroupTurn(h2, k)
  <2>1. Xor(h, murmur_32_scramble(k)) # Xor(h2, murmur_32_scramble(k))
    BY <1>6, <1>8, Xor32
  <2> QED
    BY <1>1, <1>5, <1>7, <2>1
<1>9. ASSUME NEW k2 \in Word32, k # k2 PROVE GroupTurn(h, k) # GroupTurn(h, k2)
  <2>1. Xor(murmur_32_scramble(k), h) # Xor(murmur_32_scramble(k2), h)
    BY <1>6, <1>9, Xor32
  <2>2. Xor(h, murmur_32_scramble(k)) # Xor(h, murmur_32_scramble(k2))
    BY <1>6, <2>1, Xor32
  <2> QED
    BY <1>1, <1>5, <1>7, <2>2
<1> QED
  BY <1>1, <1>5, <1>7, <1>8, <1>9
-----------------------------------------------------------------------------
(* Hashing brings in definitions of its own of the hash functions: they are these. *)
LEMMA WordSame ==
  ASSUME NEW A, NEW k, NEW s, NEW w
  PROVE  /\ H!Xor(A, k) = Xor(A, k) /\ H!Shr(A, k) = Shr(A, k) /\ H!Rotl(w, A, k) = Rotl(w, A, k)
         /\ H!Plus(w, A, k) = Plus(w, A, k) /\ H!Times(w, A, k) = Times(w, A, k)
         /\ H!Word(k) = Word(k) /\ H!Halfwords(s) = Halfwords(s) /\ H!Group(s) = Group(s)
         /\ H!Mod255(A) = Mod255(A) /\ H!Max(A) = Max(A)
<1>1. /\ H!Xor(A, k) = Xor(A, k) /\ H!Shr(A, k) = Shr(A, k) /\ H!Rotl(w, A, k) = Rotl(w, A, k)
      /\ H!Plus(w, A, k) = Plus(w, A, k)
  BY Zenon DEF Xor, Shr, Rotl, Shl, Plus, CarryInto, Bits,
        H!Xor, H!Shr, H!Rotl, H!Shl, H!Plus, H!CarryInto, H!Bits
<1>2. H!Times(w, A, k) = Times(w, A, k)
  BY ZenonT(40) DEF Times, TimesOctet, Octet, Xor, Shl, Plus, CarryInto, Bits, FoldSet, MapThenFoldSet,
        H!Times, H!TimesOctet, H!Octet, H!Xor, H!Shl, H!Plus, H!CarryInto, H!Bits,
        H!FoldSet, H!MapThenFoldSet
<1>3. H!Word(k) = Word(k) /\ H!Halfwords(s) = Halfwords(s) /\ H!Group(s) = Group(s)
  BY Zenon DEF Word, Halfwords, Group, Shl, H!Word, H!Halfwords, H!Group, H!Shl
<1>4. H!Mod255(A) = Mod255(A) /\ H!Max(A) = Max(A)
  BY Zenon DEF Mod255, Value, MapThenSumSet, MapThenFoldSet, Shr, Octet, Max,
        H!Mod255, H!Value, H!MapThenSumSet, H!MapThenFoldSet, H!Shr, H!Octet, H!Max
<1> QED
  BY <1>1, <1>2, <1>3, <1>4

LEMMA HashedSame ==
  ASSUME NEW kind, NEW octets, NEW h
  PROVE  /\ H!Hashed(kind, octets, h) = Hashed(kind, octets, h)
         /\ H!FNV1_INIT(kind) = FNV1_INIT(kind)
<1>1. H!Hashed(kind, octets, h) = Hashed(kind, octets, h)
  BY Zenon DEF Hashed, Turn, WithOctet, Multiplied, Shifts, Width, Word, Xor, Shl, Plus,
        CarryInto, Bits, FoldLeft, FoldSet, MapThenFoldSet, Max,
        H!Hashed, H!Turn, H!WithOctet, H!Multiplied, H!Shifts, H!Width, H!Word, H!Xor,
        H!Shl, H!Plus, H!CarryInto, H!Bits, H!FoldLeft, H!FoldSet, H!MapThenFoldSet, H!Max
<1>2. H!FNV1_INIT(kind) = FNV1_INIT(kind)
  BY WordSame DEF FNV1_INIT, Width, H!FNV1_INIT, H!Width
<1> QED
  BY <1>1, <1>2

LEMMA PassSame ==
  ASSUME NEW h, NEW k, NEW f
  PROVE  /\ H!murmur_32_scramble(k) = murmur_32_scramble(k)
         /\ H!GroupTurn(h, k) = GroupTurn(h, k) /\ H!Finalized(h, k, f) = Finalized(h, k, f)
         /\ H!hash_fp(h) = hash_fp(h) /\ H!Fingerprint(h) = Fingerprint(h)
<1>1. H!murmur_32_scramble(k) = murmur_32_scramble(k)
  BY WordSame DEF murmur_32_scramble, H!murmur_32_scramble
<1>2. H!GroupTurn(h, k) = GroupTurn(h, k)
  BY <1>1, WordSame DEF GroupTurn, H!GroupTurn
<1>3. H!Finalized(h, k, f) = Finalized(h, k, f)
  BY WordSame DEF Finalized, H!Finalized
<1>4. H!hash_fp(h) = hash_fp(h)
  BY WordSame DEF hash_fp, H!hash_fp
<1>5. H!Fingerprint(h) = Fingerprint(h)
  BY <1>4, WordSame DEF Fingerprint, H!Fingerprint
<1> QED
  BY <1>1, <1>2, <1>3, <1>4, <1>5
-----------------------------------------------------------------------------
(* murmur, as Hashing has it: its loop over the groups, like the one above. *)

GroupTurns(g, n, all, h) ==
  /\ g[0] = h
  /\ \A k \in 1 .. n : g[k] = GroupTurn(g[k - 1], all[k])

LEMMA GroupsIs ==
  ASSUME NEW n \in Nat, NEW all \in [1 .. n -> Word32], NEW h \in Word32
  PROVE  \E g : GroupTurns(g, n, all, h) /\ H!FoldLeft(H!GroupTurn, h, all) = g[n]
<1> DEFINE Dom == DOMAIN all
           I == CHOOSE it : it = [s \in SUBSET Dom |->
                  IF s = {} THEN h ELSE H!GroupTurn(it[s \ {H!Max(s)}], all[H!Max(s)])]
           V == Word32
           op == [p \in Dom \X V |-> GroupTurn(p[2], all[p[1]])]
           ch == [s \in SUBSET Dom |-> Max(s)]
<1>0. (\A v, k : H!GroupTurn(v, k) = GroupTurn(v, k)) /\ \A s : H!Max(s) = Max(s)
  BY WordSame, PassSame
<1>1. H!FoldLeft(H!GroupTurn, h, all) = I[Dom]
  BY DEF H!FoldLeft, H!MapThenFoldSet
<1>2. n \in Nat /\ Dom = 1 .. n /\ IsFiniteSet(Dom)
  BY FS_Interval
<1>3. \A i \in Dom : all[i] \in Word32
  OBVIOUS
<1>4. \A s \in SUBSET Dom : s # {} => ch[s] \in s /\ ch[s] = Max(s) /\ ch[s] \in Dom
  <2> HIDE DEF Dom
  <2> SUFFICES ASSUME NEW s \in SUBSET Dom, s # {} PROVE Max(s) \in s
    OBVIOUS
  <2> QED
    BY <1>2, HasMax
<1>5. \A x \in Dom, v \in V : GroupTurn(v, all[x]) \in V
  BY <1>3, GroupTurnDiffers
<1>6. op \in [Dom \X V -> V] /\ \A x \in Dom, v \in V : op[<<x, v>>] = GroupTurn(v, all[x])
  <2> HIDE DEF Dom, V
  <2> QED
    BY <1>5
<1> HIDE DEF op, ch
<1>7. PICK it \in [SUBSET Dom -> V] : FoldOf(it, Dom, ch, op, h)
  <2> HIDE DEF V, Dom
  <2>1. h \in V
    BY DEF V
  <2> QED
    BY <1>2, <1>4, <1>6, <2>1, FoldExists
<1>8. ASSUME NEW s \in SUBSET Dom, s # {}
      PROVE  op[<<ch[s], it[s \ {ch[s]}]>>] = GroupTurn(it[s \ {Max(s)}], all[Max(s)])
  <2> HIDE DEF V, Dom
  <2>1. s \ {ch[s]} \in SUBSET Dom
    OBVIOUS
  <2>2. it[s \ {ch[s]}] \in V
    BY <2>1
  <2> QED
    BY <1>4, <1>6, <1>8, <2>2
<1>9. it = [s \in SUBSET Dom |->
              IF s = {} THEN h ELSE H!GroupTurn(it[s \ {H!Max(s)}], all[H!Max(s)])]
  <2>1. ASSUME NEW s \in SUBSET Dom, s # {}
        PROVE  op[<<ch[s], it[s \ {ch[s]}]>>] = H!GroupTurn(it[s \ {H!Max(s)}], all[H!Max(s)])
    BY <1>8, <2>1, <1>0
  <2> QED
    BY <1>7, <2>1 DEF FoldOf
<1>10. I = [s \in SUBSET Dom |->
              IF s = {} THEN h ELSE GroupTurn(I[s \ {Max(s)}], all[Max(s)])]
  <2>1. I = [s \in SUBSET Dom |->
               IF s = {} THEN h ELSE H!GroupTurn(I[s \ {H!Max(s)}], all[H!Max(s)])]
    BY <1>9
  <2> HIDE DEF I, Dom
  <2>2. ASSUME NEW s \in SUBSET Dom
        PROVE  H!GroupTurn(I[s \ {H!Max(s)}], all[H!Max(s)]) = GroupTurn(I[s \ {Max(s)}], all[Max(s)])
    BY <1>0
  <2> QED
    BY <2>1, <2>2
<1> HIDE DEF I, Dom
<1> DEFINE g == [k \in 0 .. n |-> I[1 .. k]]
<1>11. g[0] = h
  <2>1. 1 .. 0 = {} /\ 0 \in 0 .. n
    BY <1>2
  <2>2. g[0] = I[{}]
    BY <2>1
  <2> QED
    BY <1>10, <2>2
<1>12. ASSUME NEW k \in 1 .. n
       PROVE  g[k] = GroupTurn(g[k - 1], all[k])
  <2>1. k \in Nat /\ k > 0 /\ k \in 0 .. n /\ k - 1 \in 0 .. n
    BY <1>2
  <2>2. 1 .. k \in SUBSET Dom /\ 1 .. k # {}
    <3>1. k \in 1 .. k
      BY <2>1
    <3>2. \A x \in 1 .. k : x \in 1 .. n
      BY <1>2
    <3> QED
      BY <1>2, <3>1, <3>2
  <2>3. I[1 .. k] = GroupTurn(I[(1 .. k) \ {Max(1 .. k)}], all[Max(1 .. k)])
    BY <1>10, <2>2
  <2>4. Max(1 .. k) = k /\ (1 .. k) \ {k} = 1 .. k - 1
    BY <2>1, MaxOfInterval
  <2>5. I[1 .. k] = GroupTurn(I[1 .. k - 1], all[k])
    BY <2>3, <2>4
  <2> QED
    BY <2>1, <2>5
<1>13. g[n] = I[Dom]
  BY <1>2
<1> HIDE DEF g
<1> QED
  BY <1>1, <1>11, <1>12, <1>13 DEF GroupTurns

(* Groups of which exactly one differs. *)
LEMMA GroupsDiffer ==
  ASSUME NEW n \in Nat, NEW s1 \in [1 .. n -> Word32], NEW s2 \in [1 .. n -> Word32],
         NEW h \in Word32, NEW p \in 1 .. n, \A i \in 1 .. n : s1[i] # s2[i] <=> i = p
  PROVE  H!FoldLeft(H!GroupTurn, h, s1) # H!FoldLeft(H!GroupTurn, h, s2)
<1>0. n \in Nat
  OBVIOUS
<1>1. PICK g1 : GroupTurns(g1, n, s1, h) /\ H!FoldLeft(H!GroupTurn, h, s1) = g1[n]
  BY GroupsIs
<1>2. PICK g2 : GroupTurns(g2, n, s2, h) /\ H!FoldLeft(H!GroupTurn, h, s2) = g2[n]
  BY GroupsIs
<1> DEFINE Good(k) == g1[k] \in Word32 /\ g2[k] \in Word32 /\ (g1[k] = g2[k] <=> k < p)
           Bad == {k \in 0 .. n : ~Good(k)}
<1>3. Good(0)
  BY <1>1, <1>2 DEF GroupTurns
<1>4. ASSUME NEW k \in 1 .. n, Good(k - 1)
      PROVE  Good(k)
  <2>1. /\ g1[k] = GroupTurn(g1[k - 1], s1[k]) /\ g2[k] = GroupTurn(g2[k - 1], s2[k])
        /\ s1[k] \in Word32 /\ s2[k] \in Word32
    BY <1>0, <1>1, <1>2 DEF GroupTurns
  <2>2. g1[k] \in Word32 /\ g2[k] \in Word32
    BY <1>4, <2>1, GroupTurnDiffers
  <2>3. s1[k] # s2[k] <=> k = p
    OBVIOUS
  <2>4. CASE k < p
    <3>1. g1[k - 1] = g2[k - 1] /\ s1[k] = s2[k]
      BY <1>0, <1>4, <2>3, <2>4
    <3> QED
      BY <2>1, <2>2, <2>4, <3>1
  <2>5. CASE k = p
    <3>1. g1[k - 1] = g2[k - 1] /\ s1[k] # s2[k]
      BY <1>0, <1>4, <2>3, <2>5
    <3>2. g1[k] # g2[k]
      BY <1>4, <2>1, <3>1, GroupTurnDiffers
    <3> QED
      BY <2>2, <2>5, <3>2
  <2>6. CASE k > p
    <3>1. g1[k - 1] # g2[k - 1] /\ s1[k] = s2[k]
      BY <1>0, <1>4, <2>3, <2>6
    <3>2. g1[k] # g2[k]
      BY <1>4, <2>1, <3>1, GroupTurnDiffers
    <3> QED
      BY <2>2, <2>6, <3>2
  <2> QED
    BY <1>0, <2>4, <2>5, <2>6
<1> HIDE DEF Good
<1>5. Bad = {}
  <2> SUFFICES ASSUME Bad # {} PROVE FALSE
    OBVIOUS
  <2>0. Bad \in SUBSET Nat
    OBVIOUS
  <2>1. PICK k \in Bad : \A m \in Bad : k <= m
    <3> HIDE DEF Bad
    <3> QED
      BY <2>0, LeastNat
  <2>2. k \in 1 .. n /\ ~Good(k)
    BY <1>3, <2>1
  <2>3. k - 1 \in 0 .. n /\ k - 1 \notin Bad
    BY <1>0, <2>1, <2>2
  <2>4. Good(k - 1)
    BY <2>3
  <2> QED
    BY <1>4, <2>2, <2>4
<1>6. Good(n)
  BY <1>0, <1>5
<1> QED
  BY <1>0, <1>1, <1>2, <1>6 DEF Good

LEMMA GroupsAreWord ==
  ASSUME NEW n \in Nat, NEW s1 \in [1 .. n -> Word32], NEW h \in Word32
  PROVE  H!FoldLeft(H!GroupTurn, h, s1) \in Word32
<1>0. n \in Nat
  OBVIOUS
<1>1. PICK g1 : GroupTurns(g1, n, s1, h) /\ H!FoldLeft(H!GroupTurn, h, s1) = g1[n]
  BY GroupsIs
<1> DEFINE Bad == {k \in 0 .. n : g1[k] \notin Word32}
<1>2. Bad = {}
  <2> SUFFICES ASSUME Bad # {} PROVE FALSE
    OBVIOUS
  <2>0. Bad \in SUBSET Nat
    OBVIOUS
  <2>1. PICK k \in Bad : \A m \in Bad : k <= m
    <3> HIDE DEF Bad
    <3> QED
      BY <2>0, LeastNat
  <2>2. k \in 1 .. n /\ g1[k] \notin Word32
    BY <1>1, <2>1 DEF GroupTurns
  <2>3. g1[k - 1] \in Word32
    BY <1>0, <2>1, <2>2
  <2>4. g1[k] = GroupTurn(g1[k - 1], s1[k]) /\ s1[k] \in Word32
    BY <1>1, <2>2 DEF GroupTurns
  <2> QED
    BY <2>2, <2>3, <2>4, GroupTurnDiffers
<1> QED
  BY <1>0, <1>1, <1>2

LEMMA OctetPlace ==
  ASSUME NEW c \in 0 .. 7, NEW i \in 1 .. 4
  PROVE  c + 8 * (i - 1) \in 0 .. 31 /\ c + 8 * (i - 1) < 32
  OBVIOUS

(* A group has the bits of its octets in places of their own. *)
LEMMA GroupBits ==
  ASSUME NEW s \in Seq(Byte), Len(s) <= 4
  PROVE  /\ Group(s) \in Word32
         /\ \A i \in 1 .. Len(s), c \in 0 .. 7 : c + 8 * (i - 1) \in Group(s) <=> c \in Word(s[i])
<1> DEFINE place(i) == Shl(32, Word(s[i]), 8 * (i - 1))
<1>0. /\ Group(s) = UNION {place(i) : i \in DOMAIN s}
      /\ DOMAIN s = 1 .. Len(s) /\ Len(s) \in Nat /\ 1 .. Len(s) \subseteq 1 .. 4
      /\ \A i \in DOMAIN s : s[i] \in Byte
  BY DEF Group
<1>1. \A i \in DOMAIN s : Word(s[i]) \subseteq 0 .. 7
  BY <1>0, OctetWord DEF Byte
<1>2. ASSUME NEW i \in DOMAIN s, NEW b
      PROVE  b \in place(i) <=> \E e \in Word(s[i]) : e + 8 * (i - 1) < 32 /\ b = e + 8 * (i - 1)
  BY DEF Shl
<1> HIDE DEF place
<1>3. Group(s) \in Word32
  <2> SUFFICES ASSUME NEW i \in DOMAIN s, NEW b \in place(i) PROVE b \in Bits(32)
    BY <1>0 DEF Word32
  <2>1. PICK e \in Word(s[i]) : e + 8 * (i - 1) < 32 /\ b = e + 8 * (i - 1)
    BY <1>2
  <2>2. e \in 0 .. 7 /\ i \in 1 .. 4
    BY <1>0, <1>1
  <2>3. e + 8 * (i - 1) \in 0 .. 31
    BY <2>2, OctetPlace
  <2>4. 0 .. 31 = Bits(32)
    BY DEF Bits
  <2> QED
    BY <2>1, <2>3, <2>4
<1>4. ASSUME NEW i \in 1 .. Len(s), NEW c \in 0 .. 7, c \in Word(s[i])
      PROVE  c + 8 * (i - 1) \in Group(s)
  <2>1. i \in DOMAIN s /\ i \in 1 .. 4
    BY <1>0
  <2>2. c + 8 * (i - 1) < 32
    BY <2>1, OctetPlace
  <2>3. c + 8 * (i - 1) \in place(i)
    BY <1>2, <1>4, <2>1, <2>2
  <2> QED
    BY <1>0, <2>1, <2>3
<1>5. ASSUME NEW i \in 1 .. Len(s), NEW c \in 0 .. 7, c + 8 * (i - 1) \in Group(s)
      PROVE  c \in Word(s[i])
  <2>1. PICK j \in DOMAIN s : c + 8 * (i - 1) \in place(j)
    BY <1>0, <1>5
  <2>2. PICK e \in Word(s[j]) : c + 8 * (i - 1) = e + 8 * (j - 1)
    BY <1>2, <2>1
  <2>3. e \in 0 .. 7 /\ j \in 1 .. 4 /\ i \in 1 .. 4
    BY <1>0, <1>1
  <2>4. i = j /\ c = e
    BY <2>2, <2>3
  <2> QED
    BY <2>2, <2>4
<1> QED
  BY <1>3, <1>4, <1>5

LEMMA GroupDiffers ==
  ASSUME NEW s \in Seq(Byte), NEW t \in Seq(Byte), Len(s) <= 4, Len(t) = Len(s),
         NEW i \in 1 .. Len(s), s[i] # t[i]
  PROVE  Group(s) # Group(t)
<1>1. s[i] \in Byte /\ t[i] \in Byte
  OBVIOUS
<1>2. Word(s[i]) # Word(t[i]) /\ Word(s[i]) \subseteq 0 .. 7 /\ Word(t[i]) \subseteq 0 .. 7
  <2>1. PICK a, b : a = s[i] /\ b = t[i]
    OBVIOUS
  <2>2. a \in 0 .. 255 /\ b \in 0 .. 255 /\ a # b
    BY <1>1, <2>1 DEF Byte
  <2>3. Word(a) # Word(b) /\ Word(a) \subseteq 0 .. 7 /\ Word(b) \subseteq 0 .. 7
    BY <2>2, OctetWord
  <2> QED
    BY <2>1, <2>3
<1>3. PICK c \in 0 .. 7 : ~(c \in Word(s[i]) <=> c \in Word(t[i]))
  BY <1>2
<1>4. c + 8 * (i - 1) \in Group(s) <=> c \in Word(s[i])
  BY GroupBits
<1>5. c + 8 * (i - 1) \in Group(t) <=> c \in Word(t[i])
  BY GroupBits
<1> QED
  BY <1>3, <1>4, <1>5

(* Two inputs of murmur that differ in one octet. *)
GroupCount(o) == Len(o) \div 4
GroupsOf(o) == [g \in 1 .. GroupCount(o) |-> Group(SubSeq(o, 4 * g - 3, 4 * g))]
RestOf(o) == Group(SubSeq(o, 4 * GroupCount(o) + 1, Len(o)))
FoldedGroups(o) == H!FoldLeft(H!GroupTurn, {}, GroupsOf(o))
Mixed(o) == Xor(Xor(FoldedGroups(o), murmur_32_scramble(RestOf(o))), Word(Len(o)))

LEMMA Pieces4 ==
  ASSUME NEW o \in Seq(Byte), NEW a \in Nat, NEW b \in Nat, a >= 1, b <= Len(o)
  PROVE  /\ SubSeq(o, a, b) \in Seq(Byte)
         /\ Len(SubSeq(o, a, b)) = IF a <= b THEN b - a + 1 ELSE 0
         /\ \A i \in 1 .. b - a + 1 : SubSeq(o, a, b)[i] = o[a + i - 1]
  OBVIOUS

LEMMA GroupsOfAre ==
  ASSUME NEW o \in Seq(Byte)
  PROVE  /\ GroupCount(o) \in Nat /\ 4 * GroupCount(o) <= Len(o) /\ Len(o) < 4 * GroupCount(o) + 4
         /\ GroupsOf(o) \in [1 .. GroupCount(o) -> Word32] /\ RestOf(o) \in Word32
<1>1. GroupCount(o) \in Nat /\ 4 * GroupCount(o) <= Len(o) /\ Len(o) < 4 * GroupCount(o) + 4
  <2>1. \A n \in Nat : n \div 4 \in Nat /\ 4 * (n \div 4) <= n /\ n < 4 * (n \div 4) + 4
    OBVIOUS
  <2>2. Len(o) \in Nat
    OBVIOUS
  <2> QED
    BY <2>1, <2>2 DEF GroupCount
<1>2. ASSUME NEW g \in 1 .. GroupCount(o) PROVE Group(SubSeq(o, 4 * g - 3, 4 * g)) \in Word32
  <2>1. PICK a, b : a = 4 * g - 3 /\ b = 4 * g
    OBVIOUS
  <2>2. a \in Nat /\ b \in Nat /\ a >= 1 /\ b <= Len(o) /\ a <= b /\ b - a + 1 = 4
    BY <1>1, <2>1
  <2>3. SubSeq(o, a, b) \in Seq(Byte) /\ Len(SubSeq(o, a, b)) <= 4
    BY <2>2, Pieces4
  <2>4. Group(SubSeq(o, a, b)) \in Word32
    BY <2>3, GroupBits
  <2> QED
    BY <2>1, <2>4
<1>3. RestOf(o) \in Word32
  <2>1. PICK a, b : a = 4 * GroupCount(o) + 1 /\ b = Len(o)
    OBVIOUS
  <2>2. a \in Nat /\ b \in Nat /\ a >= 1 /\ b <= Len(o) /\ b - a + 1 <= 4
    BY <1>1, <2>1
  <2>3. SubSeq(o, a, b) \in Seq(Byte) /\ Len(SubSeq(o, a, b)) <= 4
    BY <2>2, Pieces4
  <2>4. Group(SubSeq(o, a, b)) \in Word32
    BY <2>3, GroupBits
  <2> QED
    BY <2>1, <2>4 DEF RestOf
<1> QED
  BY <1>1, <1>2, <1>3 DEF GroupsOf

LEMMA MixedDiffers ==
  ASSUME NEW o \in Seq(Byte), NEW p \in Seq(Byte), Len(o) = Len(p), NEW q \in 1 .. Len(o),
         \A i \in 1 .. Len(o) : o[i] # p[i] <=> i = q
  PROVE  Mixed(o) \in Word32 /\ Mixed(o) # Mixed(p)
<1> DEFINE n == GroupCount(o)
<1>1. /\ n \in Nat /\ GroupCount(p) = n /\ 4 * n <= Len(o) /\ Len(o) < 4 * n + 4
      /\ GroupsOf(o) \in [1 .. n -> Word32] /\ GroupsOf(p) \in [1 .. n -> Word32]
      /\ RestOf(o) \in Word32 /\ RestOf(p) \in Word32 /\ Len(o) \in Nat
  <2>1. GroupCount(p) = n
    BY DEF GroupCount
  <2> QED
    BY <2>1, GroupsOfAre
<1> HIDE DEF n
<1>2. {} \in Word32 /\ Word(Len(o)) \in Word32
  BY DEF Word32, Word, Bits
<1>3. /\ FoldedGroups(o) \in Word32 /\ FoldedGroups(p) \in Word32
      /\ murmur_32_scramble(RestOf(o)) \in Word32 /\ murmur_32_scramble(RestOf(p)) \in Word32
  BY <1>1, <1>2, GroupsAreWord, ScrambleDiffers DEF FoldedGroups
<1>4. /\ Xor(FoldedGroups(o), murmur_32_scramble(RestOf(o))) \in Word32
      /\ Xor(FoldedGroups(p), murmur_32_scramble(RestOf(p))) \in Word32
  BY <1>3, Xor32
<1>5. Mixed(o) \in Word32
  BY <1>2, <1>4, Xor32 DEF Mixed
<1>6. Xor(FoldedGroups(o), murmur_32_scramble(RestOf(o)))
        # Xor(FoldedGroups(p), murmur_32_scramble(RestOf(p)))
  <2>1. ASSUME NEW a \in Nat, NEW b \in Nat, a >= 1, b <= Len(o), q < a \/ q > b
        PROVE  SubSeq(o, a, b) = SubSeq(p, a, b)
    <3>1. /\ Len(SubSeq(o, a, b)) = Len(SubSeq(p, a, b))
          /\ SubSeq(o, a, b) \in Seq(Byte) /\ SubSeq(p, a, b) \in Seq(Byte)
      BY <2>1, Pieces4
    <3>2. \A i \in 1 .. Len(SubSeq(o, a, b)) :
            i \in 1 .. b - a + 1 /\ a + i - 1 \in 1 .. Len(o) /\ a + i - 1 # q
      BY <2>1, Pieces4
    <3>3. \A i \in 1 .. Len(SubSeq(o, a, b)) : SubSeq(o, a, b)[i] = SubSeq(p, a, b)[i]
      BY <2>1, <3>2, Pieces4
    <3>4. PICK s, t : s = SubSeq(o, a, b) /\ t = SubSeq(p, a, b)
      OBVIOUS
    <3>5. /\ s \in Seq(Byte) /\ t \in Seq(Byte) /\ Len(s) = Len(t)
          /\ \A i \in 1 .. Len(s) : s[i] = t[i]
      BY <3>1, <3>3, <3>4
    <3>6. s = t
      BY <3>5
    <3> QED
      BY <3>4, <3>6
  <2>2. ASSUME NEW a \in Nat, NEW b \in Nat, a >= 1, b <= Len(o), a <= q, q <= b, b - a + 1 <= 4
        PROVE  Group(SubSeq(o, a, b)) # Group(SubSeq(p, a, b))
    <3>1. PICK s, t : s = SubSeq(o, a, b) /\ t = SubSeq(p, a, b)
      OBVIOUS
    <3>2. s \in Seq(Byte) /\ t \in Seq(Byte) /\ Len(s) = b - a + 1 /\ Len(t) = b - a + 1
      BY <2>2, <3>1, Pieces4
    <3>3. q - a + 1 \in 1 .. b - a + 1 /\ a + (q - a + 1) - 1 = q
      BY <2>2
    <3>4. s[q - a + 1] = o[q] /\ t[q - a + 1] = p[q]
      BY <2>2, <3>1, <3>3, Pieces4
    <3>5. o[q] # p[q]
      OBVIOUS
    <3> QED
      BY <2>2, <3>1, <3>2, <3>3, <3>4, <3>5, GroupDiffers
  <2>3. CASE q <= 4 * n
    <3>1. PICK g0 \in 1 .. n : 4 * g0 - 3 <= q /\ q <= 4 * g0
      <4>1. PICK g0 \in Nat : g0 = ((q - 1) \div 4) + 1
        BY <1>1
      <4>2. 4 * g0 - 3 <= q /\ q <= 4 * g0
        BY <1>1, <4>1
      <4>3. g0 \in 1 .. n
        BY <1>1, <2>3, <4>1, <4>2
      <4> QED
        BY <4>2, <4>3
    <3>2. RestOf(o) = RestOf(p)
      <4>1. PICK a, b : a = 4 * n + 1 /\ b = Len(o)
        OBVIOUS
      <4>2. a \in Nat /\ b \in Nat /\ a >= 1 /\ b <= Len(o) /\ q < a
        BY <1>1, <2>3, <4>1
      <4>3. SubSeq(o, a, b) = SubSeq(p, a, b)
        BY <2>1, <4>2
      <4> QED
        BY <1>1, <4>1, <4>3 DEF RestOf, n
    <3>3. ASSUME NEW g \in 1 .. n PROVE GroupsOf(o)[g] # GroupsOf(p)[g] <=> g = g0
      <4>1. PICK a, b : a = 4 * g - 3 /\ b = 4 * g
        OBVIOUS
      <4>2. a \in Nat /\ b \in Nat /\ a >= 1 /\ b <= Len(o) /\ b - a + 1 <= 4
        BY <1>1, <4>1
      <4>3. GroupsOf(o)[g] = Group(SubSeq(o, a, b)) /\ GroupsOf(p)[g] = Group(SubSeq(p, a, b))
        BY <1>1, <4>1 DEF GroupsOf, n
      <4>4. CASE g = g0
        <5>1. a <= q /\ q <= b
          BY <3>1, <4>1, <4>4
        <5> QED
          BY <2>2, <4>2, <4>3, <4>4, <5>1
      <4>5. CASE g # g0
        <5>1. q < a \/ q > b
          BY <1>1, <3>1, <4>1, <4>5
        <5>2. SubSeq(o, a, b) = SubSeq(p, a, b)
          BY <2>1, <4>2, <5>1
        <5> QED
          BY <4>3, <4>5, <5>2
      <4> QED
        BY <4>4, <4>5
    <3>4. FoldedGroups(o) # FoldedGroups(p)
      <4>1. PICK s1, s2 : s1 = GroupsOf(o) /\ s2 = GroupsOf(p)
        OBVIOUS
      <4>2. /\ s1 \in [1 .. n -> Word32] /\ s2 \in [1 .. n -> Word32]
            /\ \A i \in 1 .. n : s1[i] # s2[i] <=> i = g0
        BY <1>1, <3>3, <4>1
      <4>3. H!FoldLeft(H!GroupTurn, {}, s1) # H!FoldLeft(H!GroupTurn, {}, s2)
        BY <1>1, <1>2, <4>2, GroupsDiffer
      <4> QED
        BY <4>1, <4>3 DEF FoldedGroups
    <3> QED
      BY <1>3, <3>2, <3>4, Xor32
  <2>4. CASE q > 4 * n
    <3>1. \A g \in 1 .. n : GroupsOf(o)[g] = GroupsOf(p)[g]
      <4> SUFFICES ASSUME NEW g \in 1 .. n PROVE GroupsOf(o)[g] = GroupsOf(p)[g]
        OBVIOUS
      <4>1. PICK a, b : a = 4 * g - 3 /\ b = 4 * g
        OBVIOUS
      <4>2. a \in Nat /\ b \in Nat /\ a >= 1 /\ b <= Len(o) /\ q > b
        BY <1>1, <2>4, <4>1
      <4>3. SubSeq(o, a, b) = SubSeq(p, a, b)
        BY <2>1, <4>2
      <4> QED
        BY <1>1, <4>1, <4>3 DEF GroupsOf, n
    <3>2. FoldedGroups(o) = FoldedGroups(p)
      <4>1. GroupsOf(o) = GroupsOf(p)
        BY <1>1, <3>1
      <4> QED
        BY <4>1 DEF FoldedGroups
    <3>3. RestOf(o) # RestOf(p)
      <4>1. PICK a, b : a = 4 * n + 1 /\ b = Len(o)
        OBVIOUS
      <4>2. /\ a \in Nat /\ b \in Nat /\ a >= 1 /\ b <= Len(o) /\ a <= q /\ q <= b
            /\ b - a + 1 <= 4
        BY <1>1, <2>4, <4>1
      <4>3. Group(SubSeq(o, a, b)) # Group(SubSeq(p, a, b))
        BY <2>2, <4>2
      <4> QED
        BY <1>1, <4>1, <4>3 DEF RestOf, n
    <3>4. murmur_32_scramble(RestOf(o)) # murmur_32_scramble(RestOf(p))
      BY <1>1, <3>3, ScrambleDiffers
    <3> QED
      BY <1>3, <3>2, <3>4, Xor32
  <2> QED
    BY <1>1, <2>3, <2>4
<1>7. Mixed(o) # Mixed(p)
  <2>1. Word(Len(o)) = Word(Len(p))
    OBVIOUS
  <2> QED
    BY <1>2, <1>4, <1>6, <2>1, Xor32 DEF Mixed
<1> QED
  BY <1>5, <1>7

LEMMA MurmurDiffers ==
  ASSUME NEW o \in Seq(Byte), NEW p \in Seq(Byte), Len(o) = Len(p), NEW q \in 1 .. Len(o),
         \A i \in 1 .. Len(o) : o[i] # p[i] <=> i = q
  PROVE  H!murmur_hash_internal(o, {}) # H!murmur_hash_internal(p, {})
<1> DEFINE F == Halfwords(<<\hca6b, \h85eb>>)
           G == Halfwords(<<\hae35, \hc2b2>>)
           a(x) == Finalized(x, 16, F)
           b(x) == Finalized(a(x), 13, G)
           c(x) == Finalized(b(x), 16, {0})
<1>1. ASSUME NEW x
      PROVE  H!murmur_hash_internal(x, {}) = c(Mixed(x))
  <2> DEFINE groups == Len(x) \div 4
             all == [g \in 1 .. groups |-> H!Group(SubSeq(x, 4 * g - 3, 4 * g))]
             rest == H!Group(SubSeq(x, 4 * groups + 1, Len(x)))
             m == H!Xor(H!Xor(H!FoldLeft(H!GroupTurn, {}, all), H!murmur_32_scramble(rest)),
                        H!Word(Len(x)))
  <2>1. m = Mixed(x)
    <3>1. all = GroupsOf(x) /\ rest = RestOf(x)
      BY WordSame DEF GroupsOf, RestOf, GroupCount
    <3> HIDE DEF all, rest
    <3>2. m = H!Xor(H!Xor(FoldedGroups(x), H!murmur_32_scramble(RestOf(x))), H!Word(Len(x)))
      BY <3>1 DEF FoldedGroups
    <3> QED
      BY <3>2, WordSame, PassSame DEF Mixed
  <2>2. H!murmur_hash_internal(x, {})
          = H!Finalized(H!Finalized(H!Finalized(m, 16, H!Halfwords(<<\hca6b, \h85eb>>)),
                                    13, H!Halfwords(<<\hae35, \hc2b2>>)), 16, {0})
    BY DEF H!murmur_hash_internal
  <2> HIDE DEF m
  <2>3. /\ H!Halfwords(<<\hca6b, \h85eb>>) = F /\ H!Halfwords(<<\hae35, \hc2b2>>) = G
        /\ \A u, k, f : H!Finalized(u, k, f) = Finalized(u, k, f)
    BY SMTT(30), WordSame, PassSame
  <2>4. H!murmur_hash_internal(x, {}) = H!Finalized(H!Finalized(H!Finalized(m, 16, F), 13, G), 16, {0})
    BY <2>2, <2>3
  <2> HIDE DEF F, G
  <2>5. H!murmur_hash_internal(x, {}) = Finalized(Finalized(Finalized(m, 16, F), 13, G), 16, {0})
    BY <2>3, <2>4
  <2> QED
    BY <2>1, <2>5
<1>2. Odd(F) /\ Odd(G) /\ Odd({0}) /\ 16 \in Nat /\ 13 \in Nat /\ 16 > 0 /\ 13 > 0
  BY OddFactors
<1> HIDE DEF F, G
<1>3. \A x \in Word32 : a(x) \in Word32 /\ \A y \in Word32 : x # y => a(x) # a(y)
  BY <1>2, FinalizedDiffers
<1> HIDE DEF a
<1>4. \A x \in Word32 : b(x) \in Word32 /\ \A y \in Word32 : x # y => b(x) # b(y)
  <2>1. \A x \in Word32 : /\ Finalized(x, 13, G) \in Word32
                          /\ \A y \in Word32 : x # y => Finalized(x, 13, G) # Finalized(y, 13, G)
    BY <1>2, FinalizedDiffers
  <2> QED
    BY <1>3, <2>1
<1> HIDE DEF b
<1>5. \A x \in Word32 : c(x) \in Word32 /\ \A y \in Word32 : x # y => c(x) # c(y)
  <2>1. \A x \in Word32 : /\ Finalized(x, 16, {0}) \in Word32
                          /\ \A y \in Word32 : x # y => Finalized(x, 16, {0}) # Finalized(y, 16, {0})
    BY <1>2, FinalizedDiffers
  <2> QED
    BY <1>4, <2>1
<1> HIDE DEF c
<1>6. Mixed(o) \in Word32 /\ Mixed(p) \in Word32 /\ Mixed(o) # Mixed(p)
  <2>1. Mixed(o) \in Word32 /\ Mixed(o) # Mixed(p)
    BY MixedDiffers
  <2>2. Mixed(p) \in Word32
    <3>1. q \in 1 .. Len(p) /\ \A i \in 1 .. Len(p) : p[i] # o[i] <=> i = q
      OBVIOUS
    <3> QED
      BY <3>1, MixedDiffers
  <2> QED
    BY <2>1, <2>2
<1> QED
  BY <1>1, <1>5, <1>6
-----------------------------------------------------------------------------
(* Hashing: the remainder by 255 is one, whatever the sum of the octets. *)

NatFold(I, Dom, f) ==
  I = [s \in SUBSET Dom |-> IF s = {} THEN 0 ELSE f[Chosen(s)] + I[s \ {Chosen(s)}]]

LEMMA NatFoldExists ==
  ASSUME NEW Dom, IsFiniteSet(Dom), NEW f \in [Dom -> Nat]
  PROVE  \E I : NatFold(I, Dom, f)
<1> DEFINE op == [p \in Dom \X Nat |-> f[p[1]] + p[2]]
           ch == [s \in SUBSET Dom |-> Chosen(s)]
<1>1. \A s \in SUBSET Dom : s # {} => ch[s] \in s /\ ch[s] = Chosen(s) /\ ch[s] \in Dom
  BY DEF Chosen
<1>2. op \in [Dom \X Nat -> Nat] /\ \A x \in Dom, v \in Nat : op[<<x, v>>] = f[x] + v
  OBVIOUS
<1> HIDE DEF op, ch
<1>3. PICK it \in [SUBSET Dom -> Nat] : FoldOf(it, Dom, ch, op, 0)
  <2>1. 0 \in Nat
    OBVIOUS
  <2> QED
    BY <1>1, <1>2, <2>1, FoldExists
<1>4. ASSUME NEW s \in SUBSET Dom, s # {}
      PROVE  op[<<ch[s], it[s \ {ch[s]}]>>] = f[Chosen(s)] + it[s \ {Chosen(s)}]
  <2>1. it[s \ {ch[s]}] \in Nat
    OBVIOUS
  <2> QED
    BY <1>1, <1>2, <1>4, <2>1
<1>5. it = [s \in SUBSET Dom |-> IF s = {} THEN 0 ELSE op[<<ch[s], it[s \ {ch[s]}]>>]]
  BY <1>3 DEF FoldOf
<1>6. NatFold(it, Dom, f)
  <2> DEFINE P == [s \in SUBSET Dom |-> IF s = {} THEN 0 ELSE op[<<ch[s], it[s \ {ch[s]}]>>]]
             Q == [s \in SUBSET Dom |-> IF s = {} THEN 0 ELSE f[Chosen(s)] + it[s \ {Chosen(s)}]]
  <2>1. ASSUME NEW s \in SUBSET Dom PROVE P[s] = Q[s]
    <3>1. CASE s = {}
      BY <3>1
    <3>2. CASE s # {}
      BY <1>4, <3>2
    <3> QED
      BY <3>1, <3>2
  <2>2. P = Q
    BY <2>1
  <2> QED
    BY <1>5, <2>2, Zenon DEF NatFold
<1> QED
  BY <1>6

LEMMA NatFoldIsNat ==
  ASSUME NEW Dom, IsFiniteSet(Dom), NEW f \in [Dom -> Nat], NEW I, NatFold(I, Dom, f)
  PROVE  I[Dom] \in Nat
<1> DEFINE Bad == {n \in Nat : \E s \in SUBSET Dom : Cardinality(s) = n /\ I[s] \notin Nat}
<1>1. \A s \in SUBSET Dom : IsFiniteSet(s) /\ Cardinality(s) \in Nat
  BY FS_Subset, FS_CardinalityType
<1>2. /\ I[{}] = 0
      /\ \A s \in SUBSET Dom : s # {} => I[s] = f[Chosen(s)] + I[s \ {Chosen(s)}]
  <2> DEFINE step(s) == f[Chosen(s)] + I[s \ {Chosen(s)}]
             Q == [s \in SUBSET Dom |-> IF s = {} THEN 0 ELSE step(s)]
  <2>1. I = Q
    BY DEF NatFold
  <2> HIDE DEF step
  <2>2. Q[{}] = 0 /\ \A s \in SUBSET Dom : s # {} => Q[s] = step(s)
    BY Zenon
  <2> HIDE DEF Q
  <2>3. I[{}] = 0 /\ \A s \in SUBSET Dom : s # {} => I[s] = step(s)
    BY <2>1, <2>2
  <2> QED
    BY <2>3 DEF step
<1>3. Bad = {}
  <2> SUFFICES ASSUME Bad # {} PROVE FALSE
    OBVIOUS
  <2>0. Bad \in SUBSET Nat
    OBVIOUS
  <2>1. PICK n \in Bad : \A m \in Bad : n <= m
    <3> HIDE DEF Bad
    <3> QED
      BY <2>0, LeastNat
  <2>2. PICK s \in SUBSET Dom : Cardinality(s) = n /\ I[s] \notin Nat
    BY <2>1
  <2>3. s # {}
    BY <1>2, <2>2
  <2>4. PICK x \in s : x = Chosen(s)
    BY <2>3 DEF Chosen
  <2>5. Cardinality(s \ {x}) = n - 1 /\ n - 1 \in Nat
    <3>1. Cardinality(s \ {x}) = Cardinality(s) - 1
      BY <1>1, FS_RemoveElement
    <3>2. Cardinality(s \ {x}) \in Nat
      BY <1>1
    <3> QED
      BY <2>2, <3>1, <3>2
  <2>6. I[s \ {x}] \in Nat
    <3>1. n - 1 \notin Bad
      BY <2>0, <2>1, <2>5
    <3> QED
      BY <2>5, <3>1
  <2>7. f[x] \in Nat
    OBVIOUS
  <2>8. PICK a \in Nat, b \in Nat : a = f[x] /\ b = I[s \ {x}]
    BY <2>6, <2>7
  <2>9. I[s] = f[x] + I[s \ {x}]
    BY <1>2, <2>3, <2>4
  <2> QED
    BY <2>2, <2>8, <2>9
<1> QED
  <2>1. Cardinality(Dom) \notin Bad /\ Cardinality(Dom) \in Nat
    BY <1>1, <1>3
  <2> QED
    BY <2>1

ValueFold(A) ==
  CHOOSE I : I = [s \in SUBSET A |-> IF s = {} THEN 0 ELSE 2^Chosen(s) + I[s \ {Chosen(s)}]]

LEMMA ValueIsNat ==
  ASSUME NEW A \in SUBSET (0 .. 7)
  PROVE  Value(A) \in Nat
<1> DEFINE f == [b \in A |-> 2^b]
<1>1. Value(A) = ValueFold(A)[A]
  BY DEF Value, MapThenSumSet, MapThenFoldSet, ValueFold, Chosen
<1>2. IsFiniteSet(A)
  <2>1. 0 \in Int /\ 7 \in Int
    OBVIOUS
  <2> QED
    BY <2>1, FS_Interval, FS_Subset
<1>3. \A b \in 0 .. 7 : 2^b \in Nat
  <2>1. \A b \in 0 .. 7 : b = 0 \/ b = 1 \/ b = 2 \/ b = 3 \/ b = 4 \/ b = 5 \/ b = 6 \/ b = 7
    OBVIOUS
  <2>2. 2^0 \in Nat /\ 2^1 \in Nat /\ 2^2 \in Nat /\ 2^3 \in Nat
    OBVIOUS
  <2>3. 2^4 \in Nat /\ 2^5 \in Nat /\ 2^6 \in Nat /\ 2^7 \in Nat
    OBVIOUS
  <2> QED
    BY <2>1, <2>2, <2>3, Zenon
<1>4. f \in [A -> Nat] /\ \A b \in A : f[b] = 2^b
  BY <1>3, Zenon
<1>5. \A s \in SUBSET A : s # {} => Chosen(s) \in A
  BY DEF Chosen
<1> HIDE DEF f
<1>6. \A I : NatFold(I, A, f) <=>
        I = [s \in SUBSET A |-> IF s = {} THEN 0 ELSE 2^Chosen(s) + I[s \ {Chosen(s)}]]
  <2> SUFFICES ASSUME NEW I
               PROVE  NatFold(I, A, f) <=>
                 I = [s \in SUBSET A |-> IF s = {} THEN 0 ELSE 2^Chosen(s) + I[s \ {Chosen(s)}]]
    OBVIOUS
  <2>1. \A s \in SUBSET A : s # {} => f[Chosen(s)] = 2^Chosen(s)
    BY <1>4, <1>5
  <2>2. [s \in SUBSET A |-> IF s = {} THEN 0 ELSE f[Chosen(s)] + I[s \ {Chosen(s)}]]
          = [s \in SUBSET A |-> IF s = {} THEN 0 ELSE 2^Chosen(s) + I[s \ {Chosen(s)}]]
    BY <2>1
  <2> QED
    BY <2>2 DEF NatFold
<1>7. NatFold(ValueFold(A), A, f)
  <2>1. \E I : I = [s \in SUBSET A |-> IF s = {} THEN 0 ELSE 2^Chosen(s) + I[s \ {Chosen(s)}]]
    BY <1>2, <1>4, <1>6, NatFoldExists
  <2>2. ValueFold(A) = [s \in SUBSET A |->
                          IF s = {} THEN 0 ELSE 2^Chosen(s) + ValueFold(A)[s \ {Chosen(s)}]]
    BY <2>1 DEF ValueFold
  <2> QED
    BY <1>6, <2>2
<1> QED
  BY <1>1, <1>2, <1>4, <1>7, NatFoldIsNat

OctetValue(X, n) == Value(Shr(Octet(X, n), 8 * n))
OctetFold(X) ==
  CHOOSE I : I = [s \in SUBSET (0 .. 7) |->
                    IF s = {} THEN 0 ELSE OctetValue(X, Chosen(s)) + I[s \ {Chosen(s)}]]

LEMMA FingerprintNotEmpty ==
  ASSUME NEW h \in W64
  PROVE  Fingerprint(h) \in 1 .. 255
<1> DEFINE X == hash_fp(h)
           E == 0 .. 7
           f == [n \in E |-> OctetValue(X, n)]
<1>0. X \in W64
  BY HashFpDiffers
<1>1. Mod255(X) = OctetFold(X)[E] % 255
  BY DEF Mod255, MapThenSumSet, MapThenFoldSet, OctetFold, OctetValue, Chosen
<1>2. ASSUME NEW n \in E PROVE OctetValue(X, n) \in Nat
  <2>1. Shr(Octet(X, n), 8 * n) \in SUBSET (0 .. 7)
    <3> SUFFICES ASSUME NEW e \in Shr(Octet(X, n), 8 * n) PROVE e \in 0 .. 7
      OBVIOUS
    <3>1. PICK b \in X : b \div 8 = n /\ b >= 8 * n /\ e = b - 8 * n
      BY DEF Shr, Octet
    <3>2. b \in Nat
      BY <1>0 DEF W64, Bits
    <3> HIDE DEF X
    <3> QED
      BY <3>1, <3>2
  <2> QED
    BY <2>1, ValueIsNat DEF OctetValue
<1>3. IsFiniteSet(E) /\ f \in [E -> Nat] /\ \A n \in E : f[n] = OctetValue(X, n)
  <2>1. 0 \in Int /\ 7 \in Int
    OBVIOUS
  <2>2. IsFiniteSet(E)
    BY <2>1, FS_Interval
  <2> HIDE DEF E
  <2> QED
    BY <1>2, <2>2
<1>4. \A s \in SUBSET E : s # {} => Chosen(s) \in E
  BY DEF Chosen
<1> HIDE DEF f
<1>5. NatFold(OctetFold(X), E, f)
  <2> HIDE DEF X
  <2>1. \A s \in SUBSET E : s # {} => f[Chosen(s)] = OctetValue(X, Chosen(s))
    BY <1>3, <1>4
  <2>2. ASSUME NEW I
        PROVE  [s \in SUBSET E |-> IF s = {} THEN 0 ELSE f[Chosen(s)] + I[s \ {Chosen(s)}]]
          = [s \in SUBSET E |-> IF s = {} THEN 0 ELSE OctetValue(X, Chosen(s)) + I[s \ {Chosen(s)}]]
    BY <2>1
  <2>3. PICK I : NatFold(I, E, f)
    <3> HIDE DEF E
    <3> QED
      BY <1>3, NatFoldExists
  <2>4. I = [s \in SUBSET E |-> IF s = {} THEN 0 ELSE OctetValue(X, Chosen(s)) + I[s \ {Chosen(s)}]]
    BY <2>2, <2>3 DEF NatFold
  <2>5. OctetFold(X) = [s \in SUBSET E |-> IF s = {} THEN 0
                          ELSE OctetValue(X, Chosen(s)) + OctetFold(X)[s \ {Chosen(s)}]]
    BY <2>4 DEF OctetFold
  <2> QED
    BY <2>2, <2>5 DEF NatFold
<1>6. OctetFold(X)[E] \in Nat
  <2> HIDE DEF E, X
  <2> QED
    BY <1>3, <1>5, NatFoldIsNat
<1>7. Mod255(X) \in 0 .. 254
  <2>1. PICK m \in Nat : m = OctetFold(X)[E]
    BY <1>6
  <2>2. m % 255 \in 0 .. 254
    OBVIOUS
  <2> QED
    BY <1>1, <2>1, <2>2
<1>8. Fingerprint(h) = (Mod255(X) + 1) % 256
  BY DEF Fingerprint
<1> HIDE DEF X
<1>9. \A m \in 0 .. 254 : (m + 1) % 256 \in 1 .. 255
  OBVIOUS
<1> QED
  BY <1>7, <1>8, <1>9

(* What both clients have hashed, piece by piece: their data has one length and differs
   in one place at most, and the results are equal exactly as long as the data is. *)
HashInv ==
  /\ zero \in BOOLEAN
  /\ data \in [H!Clients -> Seq(Byte)]
  /\ Len(data[1]) = Len(data[2])
  /\ H!DifferOnce(data)
  /\ \A kind \in H!Kinds :
       /\ hval[kind][1] \in W(kind) /\ hval[kind][2] \in W(kind)
       /\ hval[kind][1] = hval[kind][2] <=> data[1] = data[2]
HashWhole == part = "hash" => HashInv

LEMMA HashInit == H!Init => HashInv
<1> SUFFICES ASSUME H!Init PROVE HashInv
  OBVIOUS
<1>1. zero \in BOOLEAN /\ data \in [H!Clients -> Seq(Byte)] /\ data[1] = <<>> /\ data[2] = <<>>
  BY DEF H!Init, H!Clients
<1>2. ASSUME NEW kind \in H!Kinds
      PROVE  hval[kind][1] \in W(kind) /\ hval[kind][2] = hval[kind][1]
  <2>1. H!Basis(kind, zero) \in W(kind)
    BY HashedSame, InitIsWord DEF H!Basis, W
  <2>2. hval[kind][1] = H!Basis(kind, zero) /\ hval[kind][2] = H!Basis(kind, zero)
    BY DEF H!Init, H!Clients
  <2> QED
    BY <2>1, <2>2
<1>3. H!DifferOnce(data)
  BY <1>1 DEF H!DifferOnce, H!Places
<1> QED
  BY <1>1, <1>2, <1>3 DEF HashInv

(* Hashing one more piece each. *)
DifferInOne(e1, e2) ==
  \A i, j \in 1 .. Len(e1) : e1[i] # e2[i] /\ e1[j] # e2[j] => i = j

Joined(d, s) == d \o s

LEMMA JoinedIs ==
  ASSUME NEW d \in Seq(Byte), NEW s \in Seq(Byte)
  PROVE  /\ Joined(d, s) \in Seq(Byte)
         /\ Len(d) \in Nat /\ Len(s) \in Nat /\ Len(Joined(d, s)) = Len(d) + Len(s)
         /\ \A i \in 1 .. Len(d) : Joined(d, s)[i] = d[i]
         /\ \A i \in 1 .. Len(s) : Joined(d, s)[Len(d) + i] = s[i]
<1>1. d \o s \in Seq(Byte) /\ Len(d) \in Nat /\ Len(s) \in Nat /\ Len(d \o s) = Len(d) + Len(s)
  OBVIOUS
<1>2. ASSUME NEW i \in 1 .. Len(d) PROVE (d \o s)[i] = d[i]
  OBVIOUS
<1>3. ASSUME NEW i \in 1 .. Len(s) PROVE (d \o s)[Len(d) + i] = s[i]
  OBVIOUS
<1> QED
  BY <1>1, <1>2, <1>3 DEF Joined

LEMMA PieceTells ==
  ASSUME NEW d1 \in Seq(Byte), NEW d2 \in Seq(Byte), Len(d1) = Len(d2),
         NEW s1 \in Seq(Byte), NEW s2 \in Seq(Byte),
         Len(Joined(d1, s1)) = Len(Joined(d2, s2)),
         DifferInOne(Joined(d1, s1), Joined(d2, s2)),
         NEW kind, NEW h1 \in W(kind), NEW h2 \in W(kind), h1 = h2 <=> d1 = d2
  PROVE  Hashed(kind, s1, h1) = Hashed(kind, s2, h2) <=> Joined(d1, s1) = Joined(d2, s2)
<1> DEFINE e1 == Joined(d1, s1)
           e2 == Joined(d2, s2)
<1>0. /\ Len(d1) \in Nat /\ Len(s1) \in Nat /\ Len(e1) = Len(d1) + Len(s1)
      /\ \A i \in 1 .. Len(d1) : e1[i] = d1[i]
      /\ \A i \in 1 .. Len(s1) : e1[Len(d1) + i] = s1[i]
  BY JoinedIs
<1>01. /\ Len(d2) \in Nat /\ Len(s2) \in Nat /\ Len(e2) = Len(d2) + Len(s2)
       /\ \A i \in 1 .. Len(d2) : e2[i] = d2[i]
       /\ \A i \in 1 .. Len(s2) : e2[Len(d2) + i] = s2[i]
  BY JoinedIs
<1>02. Len(e1) = Len(e2) /\ DifferInOne(e1, e2)
  OBVIOUS
<1> HIDE DEF e1, e2
<1>1. PICK n \in Nat, l \in Nat : n = Len(d1) /\ n = Len(d2) /\ l = Len(s1)
  BY <1>0
<1>2. Len(s2) = l /\ Len(e1) = n + l
  <2>1. Len(s2) \in Nat /\ n + l = n + Len(s2)
    BY <1>0, <1>01, <1>02, <1>1
  <2>2. Len(e1) = n + l
    BY <1>0, <1>1
  <2>3. \A m \in Nat : n + l = n + m => l = m
    OBVIOUS
  <2> QED
    BY <2>1, <2>2, <2>3
<1>3. \A i \in 1 .. n : e1[i] = d1[i] /\ e2[i] = d2[i]
  BY <1>0, <1>01, <1>1
<1>4. \A i \in 1 .. l : e1[n + i] = s1[i] /\ e2[n + i] = s2[i]
  BY <1>0, <1>01, <1>1, <1>2
<1>5. /\ \A i \in 1 .. n : i \in 1 .. n + l
      /\ \A i \in 1 .. l : n + i \in 1 .. n + l
      /\ \A i, j \in 1 .. l : n + i = n + j => i = j
      /\ \A i \in 1 .. n, j \in 1 .. l : i # n + j
  OBVIOUS
<1>6. \A i, j \in 1 .. n + l : e1[i] # e2[i] /\ e1[j] # e2[j] => i = j
  BY <1>2, <1>02 DEF DifferInOne
<1>7. Len(s1) = Len(s2)
  BY <1>1, <1>2
<1>8. CASE d1 # d2
  <2>1. PICK q \in 1 .. n : d1[q] # d2[q]
    <3> SUFFICES ASSUME \A q \in 1 .. n : d1[q] = d2[q] PROVE d1 = d2
      BY <1>8
    <3> QED
      BY <1>1
  <2>2. \A i \in 1 .. l : s1[i] = s2[i]
    <3> SUFFICES ASSUME NEW i \in 1 .. l, s1[i] # s2[i] PROVE FALSE
      OBVIOUS
    <3>1. e1[n + i] # e2[n + i]
      BY <1>4
    <3>2. e1[q] # e2[q]
      BY <1>3, <2>1
    <3> QED
      BY <1>5, <1>6, <2>1, <3>1, <3>2
  <2>3. 0 \in 0 .. Len(s1) /\ \A i \in 1 .. Len(s1) : s1[i] # s2[i] <=> i = 0
    BY <1>1, <2>2
  <2>4. Hashed(kind, s1, h1) # Hashed(kind, s2, h2)
    <3>1. h1 # h2 <=> 0 = 0
      BY <1>8
    <3> QED
      BY <1>7, <2>3, <3>1, HashedDiffers
  <2>5. e1 # e2
    BY <1>3, <2>1
  <2> QED
    BY <2>4, <2>5 DEF e1, e2
<1>9. CASE d1 = d2 /\ s1 = s2
  BY <1>9 DEF e1, e2
<1>10. CASE d1 = d2 /\ s1 # s2
  <2>1. PICK p \in 1 .. l : s1[p] # s2[p]
    <3> SUFFICES ASSUME \A p \in 1 .. l : s1[p] = s2[p] PROVE s1 = s2
      BY <1>10
    <3> QED
      BY <1>1, <1>2
  <2>2. p \in 0 .. Len(s1) /\ \A i \in 1 .. Len(s1) : s1[i] # s2[i] <=> i = p
    <3>1. ASSUME NEW i \in 1 .. l, s1[i] # s2[i] PROVE i = p
      <4>1. n + i = n + p
        BY <1>4, <1>5, <1>6, <2>1, <3>1
      <4> QED
        BY <1>5, <4>1
    <3> QED
      BY <1>1, <2>1, <3>1
  <2>3. h1 # h2 <=> p = 0
    BY <1>10, <2>1
  <2>4. Hashed(kind, s1, h1) # Hashed(kind, s2, h2)
    BY <1>7, <2>2, <2>3, HashedDiffers
  <2>5. e1 # e2
    BY <1>4, <2>1
  <2> QED
    BY <2>4, <2>5 DEF e1, e2
<1> QED
  BY <1>8, <1>9, <1>10 DEF e1, e2

LEMMA StringIsPiece ==
  ASSUME NEW p \in Seq(Byte)
  PROVE  H!String(p) \in Seq(Byte)
<1> DEFINE Ends == {i \in 1 .. Len(p) : p[i] = 0}
<1>1. H!Nul(p) = IF Ends # {} THEN H!Min(Ends) ELSE 0
  BY DEF H!Nul, H!SelectInSeq
<1>2. CASE Ends = {}
  <2>1. H!Nul(p) = 0
    BY <1>1, <1>2
  <2> QED
    BY <2>1 DEF H!String
<1>3. CASE Ends # {}
  <2>1. Ends \in SUBSET Nat
    OBVIOUS
  <2>2. H!Min(Ends) \in Ends
    <3> HIDE DEF Ends
    <3>1. \E j \in Ends : \A k \in Ends : j <= k
      BY <1>3, <2>1, LeastNat
    <3> QED
      BY <3>1 DEF H!Min
  <2>3. H!Nul(p) \in 1 .. Len(p)
    <3>1. H!Nul(p) \in Ends
      BY <1>1, <1>3, <2>2
    <3> QED
      BY <3>1
  <2>4. SubSeq(p, 1, H!Nul(p) - 1) \in Seq(Byte)
    <3>1. PICK m \in 1 .. Len(p) : m = H!Nul(p)
      BY <2>3
    <3>2. SubSeq(p, 1, m - 1) \in Seq(Byte)
      OBVIOUS
    <3> QED
      BY <3>1, <3>2
  <2> QED
    BY <2>3, <2>4 DEF H!String
<1> QED
  BY <1>2, <1>3

LEMMA PieceIsOctets ==
  ASSUME NEW p \in H!Pieces
  PROVE  p \in Seq(Byte)
<1>1. PICK m \in 0 .. MaxPiece : p \in [1 .. m -> Octets]
  BY DEF H!Pieces, H!BoundedSeq, H!SeqOf
<1>2. m \in Nat
  BY <1>1, OctetAssumption
<1>3. \A i \in 1 .. m : p[i] \in Byte
  BY <1>1, OctetAssumption DEF Byte
<1> QED
  BY <1>1, <1>2, <1>3

(* A step hashes a piece each. *)
HashesPieces(s) ==
  /\ s \in [H!Clients -> Seq(Byte)]
  /\ H!AppendPieces(s)
  /\ \A kind \in H!Kinds, c \in H!Clients : hval'[kind][c] = Hashed(kind, s[c], hval[kind][c])

LEMMA HashStep ==
  ASSUME H!Next
  PROVE  \E s : HashesPieces(s)
<1>1. CASE H!HashBuf
  <2>1. PICK p \in [H!Clients -> H!Pieces] :
          /\ H!AppendPieces(p)
          /\ hval' = [kind \in H!Kinds |-> [c \in H!Clients |->
               CASE kind = "32"  -> H!fnv_32_buf(p[c], hval[kind][c])
                 [] kind = "32a" -> H!fnv_32a_buf(p[c], hval[kind][c])
                 [] kind = "64"  -> H!fnv_64_buf(p[c], hval[kind][c])
                 [] kind = "64a" -> H!fnv_64a_buf(p[c], hval[kind][c])]]
    BY <1>1 DEF H!HashBuf
  <2>2. p \in [H!Clients -> Seq(Byte)]
    BY PieceIsOctets
  <2>3. ASSUME NEW kind \in H!Kinds, NEW c \in H!Clients
        PROVE  hval'[kind][c] = Hashed(kind, p[c], hval[kind][c])
    <3>1. hval'[kind][c] = CASE kind = "32"  -> H!fnv_32_buf(p[c], hval[kind][c])
                 [] kind = "32a" -> H!fnv_32a_buf(p[c], hval[kind][c])
                 [] kind = "64"  -> H!fnv_64_buf(p[c], hval[kind][c])
                 [] kind = "64a" -> H!fnv_64a_buf(p[c], hval[kind][c])
      BY <2>1
    <3>2. hval'[kind][c] = H!Hashed(kind, p[c], hval[kind][c])
      BY <3>1 DEF H!Kinds, H!fnv_32_buf, H!fnv_32a_buf, H!fnv_64_buf, H!fnv_64a_buf
    <3> QED
      BY <3>2, HashedSame
  <2>4. HashesPieces(p)
    BY <2>1, <2>2, <2>3 DEF HashesPieces
  <2> QED
    BY <2>4
<1>2. CASE H!HashStr
  <2>1. PICK p \in [H!Clients -> H!Pieces] :
          /\ H!AppendPieces([c \in H!Clients |-> H!String(p[c])])
          /\ hval' = [kind \in H!Kinds |-> [c \in H!Clients |->
               CASE kind = "32"  -> H!fnv_32_str(p[c], hval[kind][c])
                 [] kind = "32a" -> H!fnv_32a_str(p[c], hval[kind][c])
                 [] kind = "64"  -> H!fnv_64_str(p[c], hval[kind][c])
                 [] kind = "64a" -> H!fnv_64a_str(p[c], hval[kind][c])]]
    BY <1>2 DEF H!HashStr
  <2>2. PICK s : s = [c \in H!Clients |-> H!String(p[c])]
    OBVIOUS
  <2>3. s \in [H!Clients -> Seq(Byte)]
    BY <2>2, PieceIsOctets, StringIsPiece
  <2>4. ASSUME NEW kind \in H!Kinds, NEW c \in H!Clients
        PROVE  hval'[kind][c] = Hashed(kind, s[c], hval[kind][c])
    <3>1. hval'[kind][c] = CASE kind = "32"  -> H!fnv_32_str(p[c], hval[kind][c])
                 [] kind = "32a" -> H!fnv_32a_str(p[c], hval[kind][c])
                 [] kind = "64"  -> H!fnv_64_str(p[c], hval[kind][c])
                 [] kind = "64a" -> H!fnv_64a_str(p[c], hval[kind][c])
      BY <2>1
    <3>2. hval'[kind][c] = H!Hashed(kind, H!String(p[c]), hval[kind][c])
      BY <3>1 DEF H!Kinds, H!fnv_32_str, H!fnv_32a_str, H!fnv_64_str, H!fnv_64a_str
    <3>3. s[c] = H!String(p[c])
      BY <2>2
    <3> QED
      BY <3>2, <3>3, HashedSame
  <2>5. HashesPieces(s)
    BY <2>1, <2>2, <2>3, <2>4 DEF HashesPieces
  <2> QED
    BY <2>5
<1> QED
  BY <1>1, <1>2 DEF H!Next

LEMMA HashNext ==
  ASSUME HashInv, H!Next
  PROVE  HashInv'
<1>0. PICK s : HashesPieces(s)
  BY HashStep
<1>1. /\ s \in [H!Clients -> Seq(Byte)] /\ H!AppendPieces(s)
      /\ \A kind \in H!Kinds, c \in H!Clients : hval'[kind][c] = Hashed(kind, s[c], hval[kind][c])
  BY <1>0 DEF HashesPieces
<1>2. PICK d1 \in Seq(Byte), d2 \in Seq(Byte), s1 \in Seq(Byte), s2 \in Seq(Byte) :
        d1 = data[1] /\ d2 = data[2] /\ s1 = s[1] /\ s2 = s[2]
  BY <1>1 DEF HashInv, H!Clients
<1>3. /\ data' = [c \in H!Clients |-> data[c] \o s[c]] /\ zero' = zero
      /\ data'[1] = d1 \o s1 /\ data'[2] = d2 \o s2
  BY <1>1, <1>2 DEF H!AppendPieces, H!Clients
<1>4. Len(d1 \o s1) = Len(d2 \o s2) /\ Len(data'[1]) = Len(data'[2])
  BY <1>1, <1>2, <1>3 DEF H!AppendPieces, H!Clients
<1>5. H!DifferOnce(data')
  BY <1>1, <1>3 DEF H!AppendPieces
<1>6. d1 \o s1 \in Seq(Byte) /\ d2 \o s2 \in Seq(Byte)
  OBVIOUS
<1>7. DifferInOne(d1 \o s1, d2 \o s2)
  <2>1. PICK e1 \in Seq(Byte), e2 \in Seq(Byte) : e1 = d1 \o s1 /\ e2 = d2 \o s2
    BY <1>6
  <2>2. \A i \in 1 .. Len(e1) : e1[i] # e2[i] => i \in H!Places(data')
    <3>1. PICK nd : nd = data'
      OBVIOUS
    <3>2. nd[1] = e1 /\ nd[2] = e2
      BY <1>3, <2>1, <3>1
    <3>3. \A i \in DOMAIN e1 : e1[i] # e2[i] => i \in H!Places(nd)
      BY <3>2 DEF H!Places
    <3>4. DOMAIN e1 = 1 .. Len(e1)
      OBVIOUS
    <3> QED
      BY <3>1, <3>3, <3>4
  <2>3. \A i, j \in H!Places(data') : i = j
    BY <1>5 DEF H!DifferOnce
  <2>4. DifferInOne(e1, e2)
    BY <2>2, <2>3 DEF DifferInOne
  <2> QED
    BY <2>1, <2>4
<1>8. data' \in [H!Clients -> Seq(Byte)]
  BY <1>2, <1>3, <1>6 DEF H!Clients
<1>9. ASSUME NEW kind \in H!Kinds
      PROVE  /\ hval'[kind][1] \in W(kind) /\ hval'[kind][2] \in W(kind)
             /\ hval'[kind][1] = hval'[kind][2] <=> data'[1] = data'[2]
  <2>1. PICK h1 \in W(kind), h2 \in W(kind) :
          h1 = hval[kind][1] /\ h2 = hval[kind][2] /\ (h1 = h2 <=> d1 = d2)
    BY <1>2 DEF HashInv
  <2>2. hval'[kind][1] = Hashed(kind, s1, h1) /\ hval'[kind][2] = Hashed(kind, s2, h2)
    BY <1>1, <1>2, <2>1 DEF H!Clients
  <2>3. Hashed(kind, s1, h1) \in W(kind) /\ Hashed(kind, s2, h2) \in W(kind)
    BY HashedIsWord
  <2>4. Len(d1) = Len(d2)
    BY <1>2 DEF HashInv
  <2>5. Len(Joined(d1, s1)) = Len(Joined(d2, s2)) /\ DifferInOne(Joined(d1, s1), Joined(d2, s2))
    BY <1>4, <1>7 DEF Joined
  <2>6. Hashed(kind, s1, h1) = Hashed(kind, s2, h2) <=> Joined(d1, s1) = Joined(d2, s2)
    BY <2>1, <2>4, <2>5, PieceTells
  <2> QED
    BY <1>3, <2>2, <2>3, <2>6 DEF Joined
<1> QED
  BY <1>3, <1>4, <1>5, <1>8, <1>9 DEF HashInv

(* Hashing for any octets and any number of pieces: inputs of one length that differ in
   one octet never collide, in none of the FNV functions, nor in hash_fp before the
   remainder, nor in murmur_hash_internal; and no fingerprint is 0. *)
THEOREM HashOneOctetTells == HelpersSpec => []OneOctetTells
<1>1. HelpersInit => HashWhole
  BY HashInit DEF HelpersInit, HashWhole
<1>2. HashWhole /\ [HelpersNext]_<<part, vars, scalableVars, hashVars, randVars, clVars>>
        => HashWhole'
  <2> SUFFICES ASSUME HashWhole, part' = "hash",
                      [HelpersNext]_<<part, vars, scalableVars, hashVars, randVars, clVars>>
               PROVE  HashInv'
    BY DEF HashWhole
  <2>1. part = "hash" /\ HashInv
    BY DEF HelpersNext, HashWhole
  <2>2. CASE UNCHANGED hashVars
    BY <2>1, <2>2 DEF HashInv, hashVars, H!DifferOnce, H!Places
  <2>3. CASE H!Next
    BY <2>1, <2>3, HashNext
  <2> QED
    BY <2>1, <2>2, <2>3 DEF HelpersNext
<1>3. HashWhole => OneOctetTells
  <2> SUFFICES ASSUME HashInv PROVE H!OneOctetTells
    BY DEF HashWhole, OneOctetTells
  <2>1. "32a" \in H!Kinds /\ "64a" \in H!Kinds
    BY DEF H!Kinds
  <2>2. ASSUME NEW c \in H!Clients PROVE H!Fingerprint(hval["32a"][c]) \in 1 .. 255
    <3>1. hval["32a"][c] \in W("32a")
      BY <2>1 DEF HashInv, H!Clients
    <3>2. W("32a") \subseteq W64
      BY DEF W, W64, Width, Bits
    <3>3. PICK h \in W64 : h = hval["32a"][c]
      BY <3>1, <3>2
    <3>4. H!Fingerprint(h) = Fingerprint(h) /\ Fingerprint(h) \in 1 .. 255
      BY FingerprintNotEmpty, PassSame
    <3> QED
      BY <3>3, <3>4
  <2>3. ASSUME data[1] # data[2]
        PROVE  /\ \A kind \in H!Kinds : hval[kind][1] # hval[kind][2]
               /\ H!hash_fp(hval["64a"][1]) # H!hash_fp(hval["64a"][2])
               /\ H!murmur_hash_internal(data[1], {}) # H!murmur_hash_internal(data[2], {})
    <3>1. \A kind \in H!Kinds : hval[kind][1] # hval[kind][2]
      BY <2>3 DEF HashInv
    <3>2. H!hash_fp(hval["64a"][1]) # H!hash_fp(hval["64a"][2])
      <4>1. PICK a \in W64, b \in W64 : a = hval["64a"][1] /\ b = hval["64a"][2]
        BY <2>1 DEF HashInv, W, W64, Width
      <4>2. a # b
        BY <2>1, <3>1, <4>1
      <4>3. H!hash_fp(a) = hash_fp(a) /\ H!hash_fp(b) = hash_fp(b)
        BY PassSame
      <4> QED
        BY <4>1, <4>2, <4>3, HashFpDiffers
    <3>3. PICK o \in Seq(Byte), p \in Seq(Byte) : o = data[1] /\ p = data[2]
      BY DEF HashInv, H!Clients
    <3>4. Len(o) = Len(p) /\ o # p
      BY <2>3, <3>3 DEF HashInv
    <3>5. PICK q \in 1 .. Len(o) : o[q] # p[q]
      BY <3>4
    <3>6. \A i \in 1 .. Len(o) : o[i] # p[i] <=> i = q
      <4>1. \A i, j \in H!Places(data) : i = j
        BY DEF HashInv, H!DifferOnce
      <4>2. \A i \in 1 .. Len(o) : i \in H!Places(data) <=> o[i] # p[i]
        BY <3>3 DEF H!Places
      <4> QED
        BY <3>5, <4>1, <4>2
    <3>7. H!murmur_hash_internal(o, {}) # H!murmur_hash_internal(p, {})
      BY <3>4, <3>6, MurmurDiffers
    <3> QED
      BY <3>1, <3>2, <3>3, <3>7
  <2> QED
    BY <2>2, <2>3 DEF H!OneOctetTells
<1> QED
  BY <1>1, <1>2, <1>3, PTL DEF HelpersSpec
-----------------------------------------------------------------------------
(* Plus is associative and commutative: the two carries into a bit, one of each addition,
   are as many whichever addition is made first. *)

Carry(A, B, b) == CarryInto(A \cap B, Xor(A, B), b)

LEMMA PlusBit ==
  ASSUME NEW w \in Nat, NEW A, NEW B, NEW b \in Bits(w)
  PROVE  /\ b \in Plus(w, A, B) <=> ~((b \in A <=> b \in B) <=> ~Carry(A, B, b))
         /\ Carry(A, B, b) \in BOOLEAN
<1> DEFINE passes == Xor(A, B)
           carry == CarryInto(A \cap B, passes, b)
<1>1. (b \in passes) \in BOOLEAN /\ carry \in BOOLEAN
  BY DEF CarryInto
<1>2. b \in Plus(w, A, B) <=> ((b \in passes) # carry)
  BY DEF Plus
<1>3. b \in passes <=> ~(b \in A <=> b \in B)
  BY DEF Xor
<1> HIDE DEF passes, carry
<1>4. b \in Plus(w, A, B) <=> ~(b \in passes <=> carry)
  BY <1>1, <1>2
<1>5. carry = Carry(A, B, b)
  BY DEF carry, passes, Carry
<1> QED
  BY <1>1, <1>3, <1>4, <1>5

LEMMA CarryNext ==
  ASSUME NEW A \in SUBSET Nat, NEW B \in SUBSET Nat, NEW b \in Nat
  PROVE  /\ ~Carry(A, B, 0)
         /\ Carry(A, B, b + 1) <=> \/ b \in A /\ b \in B
                                   \/ ~(b \in A <=> b \in B) /\ Carry(A, B, b)
<1> DEFINE makes == A \cap B
           passes == Xor(A, B)
<1>1. b \in passes <=> ~(b \in A <=> b \in B)
  BY DEF Xor
<1>2. makes \in SUBSET Nat /\ (b \in makes <=> b \in A /\ b \in B)
  OBVIOUS
<1>3. \A e : Carry(A, B, e) <=> CarryInto(makes, passes, e)
  BY DEF Carry
<1> HIDE DEF makes, passes
<1>4. ~CarryInto(makes, passes, 0)
  BY <1>2 DEF CarryInto
<1>5. ASSUME CarryInto(makes, passes, b + 1)
      PROVE  b \in makes \/ (b \in passes /\ CarryInto(makes, passes, b))
  <2>1. PICK c \in makes : c < b + 1 /\ \A d \in c + 1 .. (b + 1) - 1 : d \in passes
    BY <1>5 DEF CarryInto
  <2>2. CASE c = b
    BY <2>2
  <2>3. CASE c # b
    <3>1. c \in Nat /\ c < b /\ b \in c + 1 .. (b + 1) - 1
      BY <1>2, <2>1, <2>3
    <3>2. \A d \in c + 1 .. b - 1 : d \in c + 1 .. (b + 1) - 1
      BY <3>1
    <3> QED
      BY <2>1, <3>1, <3>2 DEF CarryInto
  <2> QED
    BY <2>2, <2>3
<1>6. ASSUME b \in makes PROVE CarryInto(makes, passes, b + 1)
  <2>1. b < b + 1 /\ \A d \in b + 1 .. (b + 1) - 1 : d \in passes
    OBVIOUS
  <2> QED
    BY <1>6, <2>1 DEF CarryInto
<1>7. ASSUME b \in passes, CarryInto(makes, passes, b) PROVE CarryInto(makes, passes, b + 1)
  <2>1. PICK c \in makes : c < b /\ \A d \in c + 1 .. b - 1 : d \in passes
    BY <1>7 DEF CarryInto
  <2>2. c \in Nat /\ c < b + 1
    BY <1>2, <2>1
  <2>3. \A d \in c + 1 .. (b + 1) - 1 : d = b \/ d \in c + 1 .. b - 1
    BY <2>2
  <2> QED
    BY <1>7, <2>1, <2>2, <2>3 DEF CarryInto
<1> QED
  BY <1>1, <1>2, <1>3, <1>4, <1>5, <1>6, <1>7

LEMMA PlusSwaps ==
  ASSUME NEW w, NEW A, NEW B
  PROVE  Plus(w, A, B) = Plus(w, B, A)
<1>1. A \cap B = B \cap A /\ Xor(A, B) = Xor(B, A)
  BY DEF Xor
<1> QED
  BY <1>1 DEF Plus

LEMMA PlusNothing ==
  ASSUME NEW w \in Nat, NEW A \in SUBSET Bits(w)
  PROVE  Plus(w, {}, A) = A
<1>1. ASSUME NEW b \in Bits(w) PROVE b \in Plus(w, {}, A) <=> b \in A
  <2>1. ~Carry({}, A, b)
    BY DEF Carry, CarryInto
  <2> QED
    BY <2>1, PlusBit
<1>2. Plus(w, {}, A) \subseteq Bits(w)
  BY PlusIsWord
<1> QED
  BY <1>1, <1>2

LEMMA PlusRegroups ==
  ASSUME NEW w \in Nat, NEW A \in SUBSET Nat, NEW B \in SUBSET Nat, NEW D \in SUBSET Nat
  PROVE  Plus(w, Plus(w, A, B), D) = Plus(w, A, Plus(w, B, D))
<1> DEFINE X == Plus(w, A, B)
           Y == Plus(w, B, D)
           Good(b) == /\ Carry(A, B, b) /\ Carry(X, D, b) <=> Carry(B, D, b) /\ Carry(A, Y, b)
                      /\ Carry(A, B, b) \/ Carry(X, D, b) <=> Carry(B, D, b) \/ Carry(A, Y, b)
           Bad == {b \in 0 .. w : ~Good(b)}
<1>1. X \in SUBSET Nat /\ Y \in SUBSET Nat /\ \A b \in Bits(w) : b \in Nat /\ b < w
  BY PlusIsWord DEF Bits
<1>2. \A b \in Bits(w) : /\ b \in X <=> ~((b \in A <=> b \in B) <=> ~Carry(A, B, b))
                         /\ b \in Y <=> ~((b \in B <=> b \in D) <=> ~Carry(B, D, b))
  BY PlusBit
<1> HIDE DEF X, Y
<1>3. Good(0)
  BY <1>1, CarryNext
<1>4. ASSUME NEW b \in Bits(w), Good(b)
      PROVE  Good(b + 1)
  <2>1. /\ Carry(A, B, b + 1) <=> \/ b \in A /\ b \in B
                                  \/ ~(b \in A <=> b \in B) /\ Carry(A, B, b)
        /\ Carry(X, D, b + 1) <=> \/ b \in X /\ b \in D
                                  \/ ~(b \in X <=> b \in D) /\ Carry(X, D, b)
        /\ Carry(B, D, b + 1) <=> \/ b \in B /\ b \in D
                                  \/ ~(b \in B <=> b \in D) /\ Carry(B, D, b)
        /\ Carry(A, Y, b + 1) <=> \/ b \in A /\ b \in Y
                                  \/ ~(b \in A <=> b \in Y) /\ Carry(A, Y, b)
    BY <1>1, CarryNext
  <2> QED
    BY <1>2, <1>4, <2>1
<1>5. \A b \in Bits(w) : Good(b)
  <2> SUFFICES ASSUME NEW e \in Bits(w), ~Good(e) PROVE FALSE
    OBVIOUS
  <2> HIDE DEF Good
  <2>1. Bad \in SUBSET Nat /\ e \in Bad
    BY <1>1 DEF Bits
  <2>2. PICK b \in Bad : \A k \in Bad : b <= k
    <3> HIDE DEF Bad
    <3> QED
      BY <2>1, LeastNat
  <2>3. b \in Nat /\ b > 0 /\ b <= w /\ b - 1 \notin Bad
    BY <1>3, <2>2
  <2>4. b - 1 \in Bits(w) /\ Good(b - 1) /\ (b - 1) + 1 = b
    BY <2>3 DEF Bits
  <2> QED
    BY <1>4, <2>2, <2>4
<1>6. ASSUME NEW b \in Bits(w) PROVE b \in Plus(w, X, D) <=> b \in Plus(w, A, Y)
  <2>1. /\ b \in Plus(w, X, D) <=> ~((b \in X <=> b \in D) <=> ~Carry(X, D, b))
        /\ b \in Plus(w, A, Y) <=> ~((b \in A <=> b \in Y) <=> ~Carry(A, Y, b))
    BY PlusBit
  <2>2. Good(b)
    BY <1>5
  <2> QED
    BY <1>2, <2>1, <2>2
<1>7. Plus(w, X, D) \subseteq Bits(w) /\ Plus(w, A, Y) \subseteq Bits(w)
  BY PlusIsWord
<1>8. Plus(w, X, D) = Plus(w, A, Y)
  BY <1>6, <1>7
<1> QED
  BY <1>8 DEF X, Y

(* So a sum is the same in any order. *)
AnyOrder(it, Dom, w, term) ==
  \A s \in SUBSET Dom : \A x \in s : it[s] = Plus(w, it[s \ {x}], term[x])

LEMMA SumAnyOrder ==
  ASSUME NEW Dom, IsFiniteSet(Dom), NEW w \in Nat, NEW base \in SUBSET Nat,
         NEW term \in [Dom -> SUBSET Nat], NEW it, SumsUp(it, Dom, w, base, term)
  PROVE  AnyOrder(it, Dom, w, term)
<1> DEFINE Good(s) == \A x \in s : it[s] = Plus(w, it[s \ {x}], term[x])
           Bad == {n \in Nat : \E s \in SUBSET Dom : Cardinality(s) = n /\ ~Good(s)}
<1>1. \A s \in SUBSET Dom : IsFiniteSet(s) /\ Cardinality(s) \in Nat /\ it[s] \in SUBSET Nat
  BY FS_Subset, FS_CardinalityType DEF SumsUp
<1>2. \A s \in SUBSET Dom : s # {} =>
        Chosen(s) \in s /\ it[s] = Plus(w, it[s \ {Chosen(s)}], term[Chosen(s)])
  BY DEF SumsUp
<1>3. ASSUME NEW s \in SUBSET Dom, \A r \in SUBSET Dom : Cardinality(r) < Cardinality(s) => Good(r)
      PROVE  Good(s)
  <2> SUFFICES ASSUME NEW x \in s PROVE it[s] = Plus(w, it[s \ {x}], term[x])
    OBVIOUS
  <2>1. PICK y \in s : y = Chosen(s) /\ it[s] = Plus(w, it[s \ {y}], term[y])
    BY <1>2
  <2>2. CASE x = y
    BY <2>1, <2>2
  <2>3. CASE x # y
    <3>1. PICK rx, ry, rz : rx = s \ {x} /\ ry = s \ {y} /\ rz = s \ {x, y}
      OBVIOUS
    <3>2. /\ rx \in SUBSET Dom /\ ry \in SUBSET Dom /\ rz \in SUBSET Dom
          /\ y \in rx /\ x \in ry /\ rx \ {y} = rz /\ ry \ {x} = rz
      BY <2>3, <3>1
    <3>3. Cardinality(rx) = Cardinality(s) - 1 /\ Cardinality(ry) = Cardinality(s) - 1
      BY <1>1, <3>1, FS_RemoveElement
    <3>4. Good(rx) /\ Good(ry)
      BY <1>1, <1>3, <3>2, <3>3
    <3>5. it[rx] = Plus(w, it[rz], term[y]) /\ it[ry] = Plus(w, it[rz], term[x])
      BY <3>2, <3>4
    <3>6. PICK a \in SUBSET Nat, tx \in SUBSET Nat, ty \in SUBSET Nat :
            a = it[rz] /\ tx = term[x] /\ ty = term[y]
      BY <1>1, <3>2
    <3>7. Plus(w, Plus(w, a, tx), ty) = Plus(w, Plus(w, a, ty), tx)
      <4>1. Plus(w, Plus(w, a, tx), ty) = Plus(w, a, Plus(w, tx, ty))
        BY PlusRegroups
      <4>2. Plus(w, Plus(w, a, ty), tx) = Plus(w, a, Plus(w, ty, tx))
        BY PlusRegroups
      <4> QED
        BY <4>1, <4>2, PlusSwaps
    <3> QED
      BY <2>1, <3>1, <3>5, <3>6, <3>7
  <2> QED
    BY <2>2, <2>3
<1> HIDE DEF Good
<1>4. Bad = {}
  <2> SUFFICES ASSUME Bad # {} PROVE FALSE
    OBVIOUS
  <2>0. Bad \in SUBSET Nat
    OBVIOUS
  <2>1. PICK n \in Bad : \A k \in Bad : n <= k
    <3> HIDE DEF Bad
    <3> QED
      BY <2>0, LeastNat
  <2>2. PICK s \in SUBSET Dom : Cardinality(s) = n /\ ~Good(s)
    BY <2>1
  <2>3. ASSUME NEW r \in SUBSET Dom, Cardinality(r) < Cardinality(s) PROVE Good(r)
    <3>1. Cardinality(r) \in Nat /\ Cardinality(r) \notin Bad
      BY <1>1, <2>0, <2>1, <2>2, <2>3
    <3> QED
      BY <3>1
  <2> QED
    BY <1>3, <2>2, <2>3
<1>5. \A s \in SUBSET Dom : Good(s)
  BY <1>1, <1>4
<1> QED
  BY <1>5 DEF Good, AnyOrder

-----------------------------------------------------------------------------
(* Multiplied adds what a multiplication with the FNV prime adds: the prime's bits are
   0 and the shifts. *)
AbovePrimes(m) == m \in Nat /\ m > 511
PrimeHalfwords == {0, \h0100, \h0193, \h01b3}

LEMMA PrimeWord ==
  ASSUME NEW n \in PrimeHalfwords
  PROVE  Word(n) = {b \in 0 .. 8 : (n \div 2^b) % 2 = 1}
<1> DEFINE bit(b) == (n \div 2^b) % 2 = 1
<1>1. SUFFICES ASSUME NEW b \in 9 .. 29 PROVE ~bit(b)
  <2>1. Word(n) = {b \in 0 .. 29 : bit(b)}
    BY DEF Word
  <2>2. 0 .. 29 = (0 .. 8) \cup (9 .. 29)
    OBVIOUS
  <2> HIDE DEF bit
  <2>3. ASSUME \A b \in 9 .. 29 : ~bit(b) PROVE Word(n) = {b \in 0 .. 8 : bit(b)}
    BY <2>1, <2>2, <2>3
  <2> QED
    BY <2>3 DEF bit
<1>2. \/ b = 9 \/ b = 10 \/ b = 11 \/ b = 12 \/ b = 13 \/ b = 14 \/ b = 15
      \/ b = 16 \/ b = 17 \/ b = 18 \/ b = 19 \/ b = 20 \/ b = 21 \/ b = 22
      \/ b = 23 \/ b = 24 \/ b = 25 \/ b = 26 \/ b = 27 \/ b = 28 \/ b = 29
  OBVIOUS
<1>4. AbovePrimes(2^b)
  <2>1. CASE b = 9 \/ b = 10 \/ b = 11 \/ b = 12 \/ b = 13 \/ b = 14 \/ b = 15
    <3>1. /\ AbovePrimes(2^9) /\ AbovePrimes(2^10) /\ AbovePrimes(2^11) /\ AbovePrimes(2^12)
          /\ AbovePrimes(2^13) /\ AbovePrimes(2^14) /\ AbovePrimes(2^15)
      BY DEF AbovePrimes
    <3> QED
      BY <2>1, <3>1, Zenon
  <2>2. CASE b = 16 \/ b = 17 \/ b = 18 \/ b = 19 \/ b = 20 \/ b = 21 \/ b = 22
    <3>1. /\ AbovePrimes(2^16) /\ AbovePrimes(2^17) /\ AbovePrimes(2^18) /\ AbovePrimes(2^19)
          /\ AbovePrimes(2^20) /\ AbovePrimes(2^21) /\ AbovePrimes(2^22)
      BY DEF AbovePrimes
    <3> QED
      BY <2>2, <3>1, Zenon
  <2>3. CASE b = 23 \/ b = 24 \/ b = 25 \/ b = 26 \/ b = 27 \/ b = 28 \/ b = 29
    <3>1. /\ AbovePrimes(2^23) /\ AbovePrimes(2^24) /\ AbovePrimes(2^25) /\ AbovePrimes(2^26)
          /\ AbovePrimes(2^27) /\ AbovePrimes(2^28) /\ AbovePrimes(2^29)
      BY DEF AbovePrimes
    <3> QED
      BY <2>3, <3>1, Zenon
  <2> QED
    BY <1>2, <2>1, <2>2, <2>3
<1>5. PICK m : m = 2^b
  OBVIOUS
<1>6. m \in Nat /\ m > n /\ n \in Nat
  BY <1>4, <1>5 DEF AbovePrimes, PrimeHalfwords
<1>7. n \div m = 0 /\ 0 % 2 = 0
  BY <1>6
<1>8. (n \div m) % 2 = 0
  BY ONLY <1>7
<1> QED
  BY <1>5, <1>8

LEMMA PrimeWords ==
  /\ Word(0) = {} /\ Word(\h0100) = {8}
  /\ Word(\h0193) = {0, 1, 4, 7, 8} /\ Word(\h01b3) = {0, 1, 4, 5, 7, 8}
<1>1. /\ 2^0 = 1 /\ 2^1 = 2 /\ 2^2 = 4 /\ 2^3 = 8 /\ 2^4 = 16 /\ 2^5 = 32 /\ 2^6 = 64
      /\ 2^7 = 128 /\ 2^8 = 256
  OBVIOUS
<1> DEFINE bit(n, b) == (n \div 2^b) % 2 = 1
<1>2. ASSUME NEW n \in PrimeHalfwords
      PROVE  \A b : b \in Word(n) <=> b \in 0 .. 8 /\ bit(n, b)
  BY PrimeWord
<1>3. \A b \in 0 .. 8 : b = 0 \/ b = 1 \/ b = 2 \/ b = 3 \/ b = 4 \/ b = 5 \/ b = 6 \/ b = 7 \/ b = 8
  OBVIOUS
<1>4. /\ ~bit(0, 0) /\ ~bit(0, 1) /\ ~bit(0, 2) /\ ~bit(0, 3) /\ ~bit(0, 4) /\ ~bit(0, 5)
      /\ ~bit(0, 6) /\ ~bit(0, 7) /\ ~bit(0, 8)
  BY <1>1
<1>5. /\ ~bit(256, 0) /\ ~bit(256, 1) /\ ~bit(256, 2) /\ ~bit(256, 3) /\ ~bit(256, 4)
      /\ ~bit(256, 5) /\ ~bit(256, 6) /\ ~bit(256, 7) /\ bit(256, 8)
  BY <1>1
<1>6. /\ bit(403, 0) /\ bit(403, 1) /\ ~bit(403, 2) /\ ~bit(403, 3) /\ bit(403, 4)
      /\ ~bit(403, 5) /\ ~bit(403, 6) /\ bit(403, 7) /\ bit(403, 8)
  BY <1>1
<1>7. /\ bit(435, 0) /\ bit(435, 1) /\ ~bit(435, 2) /\ ~bit(435, 3) /\ bit(435, 4)
      /\ bit(435, 5) /\ ~bit(435, 6) /\ bit(435, 7) /\ bit(435, 8)
  BY <1>1
<1> HIDE DEF bit
<1>8. /\ 0 \in PrimeHalfwords /\ 256 \in PrimeHalfwords /\ 403 \in PrimeHalfwords
      /\ 435 \in PrimeHalfwords /\ \h0100 = 256 /\ \h0193 = 403 /\ \h01b3 = 435
  BY DEF PrimeHalfwords
<1>9. /\ 0 \in 0 .. 8 /\ 1 \in 0 .. 8 /\ 4 \in 0 .. 8 /\ 5 \in 0 .. 8 /\ 7 \in 0 .. 8 /\ 8 \in 0 .. 8
  OBVIOUS
<1>10. Word(0) = {}
  BY <1>2, <1>3, <1>4, <1>8
<1>11. Word(256) = {8}
  BY <1>2, <1>3, <1>5, <1>8, <1>9
<1>12. Word(403) = {0, 1, 4, 7, 8}
  BY <1>2, <1>3, <1>6, <1>8, <1>9
<1>13. Word(435) = {0, 1, 4, 5, 7, 8}
  BY <1>2, <1>3, <1>7, <1>8, <1>9
<1> QED
  BY <1>8, <1>10, <1>11, <1>12, <1>13

LEMMA PrimeIs ==
  ASSUME NEW kind
  PROVE  FNV_PRIME(kind) = Shifts(kind) \cup {0}
<1>1. ASSUME NEW s, NEW c
      PROVE  c \in Halfwords(s) <=> \E i \in DOMAIN s : \E b \in Word(s[i]) : c = b + 16 * (i - 1)
  BY DEF Halfwords
<1>2. CASE Width(kind) = 32
  <2>1. PICK s : s = <<\h0193, \h0100>>
    OBVIOUS
  <2>2. DOMAIN s = {1, 2} /\ Word(s[1]) = {0, 1, 4, 7, 8} /\ Word(s[2]) = {8}
    BY <2>1, PrimeWords
  <2>3. \A c : c \in Halfwords(s) <=> \/ \E b \in {0, 1, 4, 7, 8} : c = b + 16 * (1 - 1)
                                      \/ \E b \in {8} : c = b + 16 * (2 - 1)
    BY <1>1, <2>2
  <2>4. \A c : c \in Halfwords(s) <=> c \in {0, 1, 4, 7, 8, 24}
    BY <2>3
  <2>5. FNV_PRIME(kind) = Halfwords(s) /\ Shifts(kind) = {1, 4, 7, 8, 24}
    BY <1>2, <2>1 DEF FNV_PRIME, Shifts
  <2> QED
    BY <2>4, <2>5
<1>3. CASE Width(kind) # 32
  <2>1. PICK s : s = <<\h01b3, 0, \h0100, 0>>
    OBVIOUS
  <2>2. /\ DOMAIN s = {1, 2, 3, 4} /\ Word(s[1]) = {0, 1, 4, 5, 7, 8} /\ Word(s[2]) = {}
        /\ Word(s[3]) = {8} /\ Word(s[4]) = {}
    BY <2>1, PrimeWords
  <2>3. \A c : c \in Halfwords(s) <=> \/ \E b \in {0, 1, 4, 5, 7, 8} : c = b + 16 * (1 - 1)
                                      \/ \E b \in {8} : c = b + 16 * (3 - 1)
    BY <1>1, <2>2
  <2>4. \A c : c \in Halfwords(s) <=> c \in {0, 1, 4, 5, 7, 8, 40}
    BY <2>3
  <2>5. FNV_PRIME(kind) = Halfwords(s) /\ Shifts(kind) = {1, 4, 5, 7, 8, 40}
    BY <1>3, <2>1 DEF FNV_PRIME, Shifts
  <2> QED
    BY <2>4, <2>5
<1> QED
  BY <1>2, <1>3

(* A sum of shifted words, one term less at a time and in any order. *)
Added(w, A, sum, k) == Plus(w, sum, Shl(w, A, k))

TakesOne(Dom, r, s, k) == r \in SUBSET Dom /\ k \in r /\ s = r \ {k}

StepsOf(it, Dom, w, base, A) ==
  /\ it[{}] = base
  /\ \A r, s, k : TakesOne(Dom, r, s, k) => it[r] = Added(w, A, it[s], k)

LEMMA ShiftSumSteps ==
  ASSUME NEW Dom \in SUBSET Nat, IsFiniteSet(Dom), NEW w \in Nat, NEW base \in SUBSET Nat,
         NEW A \in SUBSET Nat, NEW it, it = ShiftSum(Dom, w, base, A)
  PROVE  StepsOf(it, Dom, w, base, A)
<1> DEFINE term == Term(w, A, Dom)
<1>1. SumsUp(it, Dom, w, base, term)
  BY ShiftSumIs
<1>2. PICK t : t = term
  OBVIOUS
<1>3. t \in [Dom -> SUBSET Nat] /\ \A k \in Dom : t[k] = Shl(w, A, k)
  <2>1. \A k \in Dom : Shl(w, A, k) \in SUBSET Nat
    BY WordsClosed
  <2> QED
    BY <1>2, <2>1 DEF Term
<1>4. it[{}] = base
  BY <1>1 DEF SumsUp
<1>5. AnyOrder(it, Dom, w, t)
  BY <1>1, <1>2, <1>3, SumAnyOrder
<1>6. ASSUME NEW r, NEW s, NEW k, TakesOne(Dom, r, s, k) PROVE it[r] = Added(w, A, it[s], k)
  BY <1>3, <1>5, <1>6 DEF AnyOrder, TakesOne, Added
<1> QED
  BY <1>4, <1>6 DEF StepsOf

LEMMA ShiftNone ==
  ASSUME NEW w \in Nat, NEW A \in SUBSET Bits(w)
  PROVE  Shl(w, A, 0) = A /\ Added(w, A, {}, 0) = A
<1>1. Shl(w, A, 0) = A
  <2>1. A \in SUBSET Int /\ \A b \in A : b < w
    BY DEF Bits
  <2>2. \A b \in Int : b \in Shl(w, A, 0) <=> b - 0 \in A /\ b < w
    BY <2>1, ShlIs
  <2>3. Shl(w, A, 0) \subseteq Int /\ \A b \in Int : b - 0 = b
    BY <2>1 DEF Shl
  <2> QED
    BY <2>1, <2>2, <2>3
<1> QED
  BY <1>1, PlusNothing DEF Added

LEMMA AddedToNothing ==
  ASSUME NEW w \in Nat, NEW A \in SUBSET Bits(w), NEW k \in Nat
  PROVE  Added(w, A, {}, k) = Shl(w, A, k)
<1>1. A \in SUBSET Nat
  BY DEF Bits
<1>2. Shl(w, A, k) \in SUBSET Bits(w)
  BY <1>1, WordsClosed
<1> QED
  BY <1>2, PlusNothing DEF Added

(* An octet of one bit shifts; one that holds bit 0 starts at the word itself. *)
LEMMA OneBitOctet ==
  ASSUME NEW w \in Nat, NEW A \in SUBSET Bits(w), NEW B, NEW n, NEW k \in Nat, Octet(B, n) = {k}
  PROVE  TimesOctet(w, A, B, n) = Shl(w, A, k)
<1>1. A \in SUBSET Nat
  BY DEF Bits
<1>2. {k} \in SUBSET Nat /\ IsFiniteSet({k}) /\ TakesOne({k}, {k}, {}, k)
  BY FS_Singleton DEF TakesOne
<1>3. PICK it : it = ShiftSum({k}, w, {}, A)
  OBVIOUS
<1>4. /\ it[{}] = {}
      /\ \A r, s, i : TakesOne({k}, r, s, i) => it[r] = Added(w, A, it[s], i)
  <2>1. {} \in SUBSET Nat
    OBVIOUS
  <2>2. StepsOf(it, {k}, w, {}, A)
    BY <1>1, <1>2, <1>3, <2>1, ShiftSumSteps
  <2> QED
    BY <2>2 DEF StepsOf
<1>5. it[{k}] = Added(w, A, {}, k)
  BY <1>2, <1>4
<1>6. TimesOctet(w, A, B, n) = it[{k}]
  BY <1>3, TimesOctetIs
<1> QED
  BY <1>5, <1>6, AddedToNothing

OctetSteps(it, w, A, B) ==
  /\ it[{}] = {}
  /\ \A r, s, n : TakesOne(OctetsOf(B), r, s, n) =>
       it[r] = Plus(w, it[s], TimesOctet(w, A, B, n))

LEMMA OctetSumSteps ==
  ASSUME NEW w \in Nat, NEW A \in SUBSET Nat, NEW B \in SUBSET Nat, IsFiniteSet(B),
         NEW it, it = OctetSum(w, A, B)
  PROVE  OctetSteps(it, w, A, B)
<1> DEFINE Dom == OctetsOf(B)
<1>1. PICK t : t = OctetTerm(w, A, B)
  OBVIOUS
<1>2. SumsUp(it, Dom, w, {}, t) /\ t \in [Dom -> SUBSET Nat] /\ IsFiniteSet(Dom)
  BY <1>1, OctetSumIs, OctetsFinite
<1>3. \A n \in Dom : t[n] = TimesOctet(w, A, B, n)
  BY <1>1 DEF OctetTerm
<1> HIDE DEF Dom
<1>4. it[{}] = {}
  BY <1>2 DEF SumsUp
<1>5. AnyOrder(it, Dom, w, t)
  BY <1>2, SumAnyOrder
<1>6. ASSUME NEW r, NEW s, NEW n, TakesOne(Dom, r, s, n)
      PROVE  it[r] = Plus(w, it[s], TimesOctet(w, A, B, n))
  BY <1>3, <1>5, <1>6 DEF AnyOrder, TakesOne
<1> QED
  BY <1>4, <1>6 DEF Dom, OctetSteps

LEMMA PrimeOctets ==
  /\ OctetsOf({0, 1, 4, 7, 8, 24}) = {0, 1, 3}
  /\ Octet({0, 1, 4, 7, 8, 24}, 0) = {0, 1, 4, 7} /\ Octet({0, 1, 4, 7, 8, 24}, 1) = {8}
  /\ Octet({0, 1, 4, 7, 8, 24}, 3) = {24}
  /\ OctetsOf({0, 1, 4, 5, 7, 8, 40}) = {0, 1, 5}
  /\ Octet({0, 1, 4, 5, 7, 8, 40}, 0) = {0, 1, 4, 5, 7} /\ Octet({0, 1, 4, 5, 7, 8, 40}, 1) = {8}
  /\ Octet({0, 1, 4, 5, 7, 8, 40}, 5) = {40}
<1>1. /\ 0 \div 8 = 0 /\ 1 \div 8 = 0 /\ 4 \div 8 = 0 /\ 5 \div 8 = 0 /\ 7 \div 8 = 0
      /\ 8 \div 8 = 1 /\ 24 \div 8 = 3 /\ 40 \div 8 = 5
  OBVIOUS
<1>2. /\ OctetsOf({0, 1, 4, 7, 8, 24}) = {0, 1, 3}
      /\ OctetsOf({0, 1, 4, 5, 7, 8, 40}) = {0, 1, 5}
  BY <1>1 DEF OctetsOf
<1>3. /\ Octet({0, 1, 4, 7, 8, 24}, 0) = {0, 1, 4, 7} /\ Octet({0, 1, 4, 7, 8, 24}, 1) = {8}
      /\ Octet({0, 1, 4, 7, 8, 24}, 3) = {24}
  BY <1>1 DEF Octet
<1>4. /\ Octet({0, 1, 4, 5, 7, 8, 40}, 0) = {0, 1, 4, 5, 7}
      /\ Octet({0, 1, 4, 5, 7, 8, 40}, 1) = {8} /\ Octet({0, 1, 4, 5, 7, 8, 40}, 5) = {40}
  BY <1>1 DEF Octet
<1> QED
  BY <1>2, <1>3, <1>4

(* The two branches of the #if compute the same product. *)
LEMMA MultipliedIsProduct ==
  ASSUME NEW kind, NEW h \in W(kind)
  PROVE  Multiplied(kind, h) = Times(Width(kind), h, FNV_PRIME(kind))
<1>1. PICK w, B : w = Width(kind) /\ B = FNV_PRIME(kind) /\ w \in Nat
  BY ShiftsAre
<1>2. w \in Nat /\ h \in SUBSET Bits(w) /\ h \in SUBSET Nat /\ {} \in SUBSET Nat
  BY <1>1 DEF W, Bits
<1>3. B \in SUBSET Nat /\ IsFiniteSet(B) /\ B = Shifts(kind) \cup {0}
  <2>1. IsFiniteSet(Shifts(kind)) /\ Shifts(kind) \in SUBSET Nat /\ IsFiniteSet({0})
    BY ShiftsAre, FS_Singleton
  <2>2. B = Shifts(kind) \cup {0}
    BY <1>1, PrimeIs
  <2>3. IsFiniteSet(Shifts(kind) \cup {0})
    BY <2>1, FS_Union
  <2> QED
    BY <2>1, <2>2, <2>3
<1>4. PICK it, jt, ot : /\ it = ShiftSum(Shifts(kind), w, h, h)
                        /\ jt = ShiftSum(Octet(B, 0), w, {}, h)
                        /\ ot = OctetSum(w, h, B)
  OBVIOUS
<1>5. /\ Multiplied(kind, h) = it[Shifts(kind)] /\ Times(w, h, B) = ot[OctetsOf(B)]
      /\ TimesOctet(w, h, B, 0) = jt[Octet(B, 0)]
  BY <1>1, <1>4, MultipliedIs, TimesIs, TimesOctetIs
<1>6. /\ it[{}] = h
      /\ \A r, s, k : TakesOne(Shifts(kind), r, s, k) => it[r] = Added(w, h, it[s], k)
  <2>1. IsFiniteSet(Shifts(kind)) /\ Shifts(kind) \in SUBSET Nat
    BY ShiftsAre
  <2>2. StepsOf(it, Shifts(kind), w, h, h)
    BY <1>2, <1>4, <2>1, ShiftSumSteps
  <2> QED
    BY <2>2 DEF StepsOf
<1>7. /\ jt[{}] = {}
      /\ \A r, s, k : TakesOne(Octet(B, 0), r, s, k) => jt[r] = Added(w, h, jt[s], k)
  <2>1. IsFiniteSet(Octet(B, 0)) /\ Octet(B, 0) \in SUBSET Nat
    BY <1>3, OctetsFinite
  <2>2. StepsOf(jt, Octet(B, 0), w, {}, h)
    BY <1>2, <1>4, <2>1, ShiftSumSteps
  <2> QED
    BY <2>2 DEF StepsOf
<1>8. /\ ot[{}] = {}
      /\ \A r, s, n : TakesOne(OctetsOf(B), r, s, n) =>
           ot[r] = Plus(w, ot[s], TimesOctet(w, h, B, n))
  <2>1. OctetSteps(ot, w, h, B)
    BY <1>2, <1>3, <1>4, OctetSumSteps
  <2> QED
    BY <2>1 DEF OctetSteps
<1>9. TimesOctet(w, h, B, 0) \in SUBSET Bits(w)
  BY <1>2, <1>3, TimesOctetIsWord
<1>10. CASE w = 32
  <2>1. Shifts(kind) = {1, 4, 7, 8, 24} /\ B = {0, 1, 4, 7, 8, 24}
    BY <1>1, <1>3, <1>10 DEF Shifts
  <2>2. /\ Octet(B, 0) = {0, 1, 4, 7} /\ Octet(B, 1) = {8} /\ Octet(B, 3) = {24}
        /\ OctetsOf(B) = {0, 1, 3}
    BY <2>1, PrimeOctets
  <2>3. PICK a1, a4, a7, a8, a24 :
          /\ a1 = Added(w, h, h, 1) /\ a4 = Added(w, h, a1, 4) /\ a7 = Added(w, h, a4, 7)
          /\ a8 = Added(w, h, a7, 8) /\ a24 = Added(w, h, a8, 24)
    OBVIOUS
  <2>4. it[{1, 4, 7, 8, 24}] = a24
    <3>1. /\ TakesOne(Shifts(kind), {1}, {}, 1)
          /\ TakesOne(Shifts(kind), {1, 4}, {1}, 4)
          /\ TakesOne(Shifts(kind), {1, 4, 7}, {1, 4}, 7)
          /\ TakesOne(Shifts(kind), {1, 4, 7, 8}, {1, 4, 7}, 8)
          /\ TakesOne(Shifts(kind), {1, 4, 7, 8, 24}, {1, 4, 7, 8}, 24)
      BY <2>1 DEF TakesOne
    <3>2. it[{1}] = a1
      BY <1>6, <2>1, <2>3, <3>1
    <3>3. it[{1, 4}] = a4
      BY <1>6, <2>1, <2>3, <3>1, <3>2
    <3>4. it[{1, 4, 7}] = a7
      BY <1>6, <2>1, <2>3, <3>1, <3>3
    <3>5. it[{1, 4, 7, 8}] = a8
      BY <1>6, <2>1, <2>3, <3>1, <3>4
    <3> QED
      BY <1>6, <2>1, <2>3, <3>1, <3>5
  <2>5. jt[{0, 1, 4, 7}] = a7
    <3>1. /\ TakesOne(Octet(B, 0), {0}, {}, 0)
          /\ TakesOne(Octet(B, 0), {0, 1}, {0}, 1)
          /\ TakesOne(Octet(B, 0), {0, 1, 4}, {0, 1}, 4)
          /\ TakesOne(Octet(B, 0), {0, 1, 4, 7}, {0, 1, 4}, 7)
      BY <2>2 DEF TakesOne
    <3>2. jt[{0}] = h
      <4>1. jt[{0}] = Added(w, h, {}, 0)
        BY <1>7, <2>2, <3>1
      <4> QED
        BY <1>2, <4>1, ShiftNone
    <3>3. jt[{0, 1}] = a1
      BY <1>7, <2>2, <2>3, <3>1, <3>2
    <3>4. jt[{0, 1, 4}] = a4
      BY <1>7, <2>2, <2>3, <3>1, <3>3
    <3> QED
      BY <1>7, <2>2, <2>3, <3>1, <3>4
  <2>6. TimesOctet(w, h, B, 1) = Shl(w, h, 8) /\ TimesOctet(w, h, B, 3) = Shl(w, h, 24)
    BY <1>2, <2>2, OneBitOctet
  <2>7. ot[{0, 1, 3}] = a24
    <3>1. /\ TakesOne(OctetsOf(B), {0}, {}, 0)
          /\ TakesOne(OctetsOf(B), {0, 1}, {0}, 1)
          /\ TakesOne(OctetsOf(B), {0, 1, 3}, {0, 1}, 3)
      BY <2>2 DEF TakesOne
    <3>2. ot[{0}] = a7
      <4>1. ot[{0}] = Plus(w, {}, TimesOctet(w, h, B, 0))
        BY <1>8, <2>2, <3>1
      <4> QED
        BY <1>2, <1>5, <1>9, <2>2, <2>5, <4>1, PlusNothing
    <3>3. ot[{0, 1}] = a8
      <4>1. ot[{0, 1}] = Plus(w, a7, TimesOctet(w, h, B, 1))
        BY <1>8, <2>2, <3>1, <3>2
      <4> QED
        BY <2>3, <2>6, <4>1 DEF Added
    <3>4. ot[{0, 1, 3}] = Plus(w, a8, TimesOctet(w, h, B, 3))
      BY <1>8, <2>2, <3>1, <3>3
    <3> QED
      BY <2>3, <2>6, <3>4 DEF Added
  <2> QED
    BY <1>1, <1>5, <2>1, <2>2, <2>4, <2>7
<1>11. CASE w # 32
  <2>1. Shifts(kind) = {1, 4, 5, 7, 8, 40} /\ B = {0, 1, 4, 5, 7, 8, 40}
    BY <1>1, <1>3, <1>11 DEF Shifts
  <2>2. /\ Octet(B, 0) = {0, 1, 4, 5, 7} /\ Octet(B, 1) = {8} /\ Octet(B, 5) = {40}
        /\ OctetsOf(B) = {0, 1, 5}
    BY <2>1, PrimeOctets
  <2>3. PICK a1, a4, a5, a7, a8, a40 :
          /\ a1 = Added(w, h, h, 1) /\ a4 = Added(w, h, a1, 4) /\ a5 = Added(w, h, a4, 5)
          /\ a7 = Added(w, h, a5, 7) /\ a8 = Added(w, h, a7, 8) /\ a40 = Added(w, h, a8, 40)
    OBVIOUS
  <2>4. it[{1, 4, 5, 7, 8, 40}] = a40
    <3>1. /\ TakesOne(Shifts(kind), {1}, {}, 1)
          /\ TakesOne(Shifts(kind), {1, 4}, {1}, 4)
          /\ TakesOne(Shifts(kind), {1, 4, 5}, {1, 4}, 5)
          /\ TakesOne(Shifts(kind), {1, 4, 5, 7}, {1, 4, 5}, 7)
          /\ TakesOne(Shifts(kind), {1, 4, 5, 7, 8}, {1, 4, 5, 7}, 8)
          /\ TakesOne(Shifts(kind), {1, 4, 5, 7, 8, 40}, {1, 4, 5, 7, 8}, 40)
      BY <2>1 DEF TakesOne
    <3>2. it[{1}] = a1
      BY <1>6, <2>1, <2>3, <3>1
    <3>3. it[{1, 4}] = a4
      BY <1>6, <2>1, <2>3, <3>1, <3>2
    <3>4. it[{1, 4, 5}] = a5
      BY <1>6, <2>1, <2>3, <3>1, <3>3
    <3>5. it[{1, 4, 5, 7}] = a7
      BY <1>6, <2>1, <2>3, <3>1, <3>4
    <3>6. it[{1, 4, 5, 7, 8}] = a8
      BY <1>6, <2>1, <2>3, <3>1, <3>5
    <3> QED
      BY <1>6, <2>1, <2>3, <3>1, <3>6
  <2>5. jt[{0, 1, 4, 5, 7}] = a7
    <3>1. /\ TakesOne(Octet(B, 0), {0}, {}, 0)
          /\ TakesOne(Octet(B, 0), {0, 1}, {0}, 1)
          /\ TakesOne(Octet(B, 0), {0, 1, 4}, {0, 1}, 4)
          /\ TakesOne(Octet(B, 0), {0, 1, 4, 5}, {0, 1, 4}, 5)
          /\ TakesOne(Octet(B, 0), {0, 1, 4, 5, 7}, {0, 1, 4, 5}, 7)
      BY <2>2 DEF TakesOne
    <3>2. jt[{0}] = h
      <4>1. jt[{0}] = Added(w, h, {}, 0)
        BY <1>7, <2>2, <3>1
      <4> QED
        BY <1>2, <4>1, ShiftNone
    <3>3. jt[{0, 1}] = a1
      BY <1>7, <2>2, <2>3, <3>1, <3>2
    <3>4. jt[{0, 1, 4}] = a4
      BY <1>7, <2>2, <2>3, <3>1, <3>3
    <3>5. jt[{0, 1, 4, 5}] = a5
      BY <1>7, <2>2, <2>3, <3>1, <3>4
    <3> QED
      BY <1>7, <2>2, <2>3, <3>1, <3>5
  <2>6. TimesOctet(w, h, B, 1) = Shl(w, h, 8) /\ TimesOctet(w, h, B, 5) = Shl(w, h, 40)
    BY <1>2, <2>2, OneBitOctet
  <2>7. ot[{0, 1, 5}] = a40
    <3>1. /\ TakesOne(OctetsOf(B), {0}, {}, 0)
          /\ TakesOne(OctetsOf(B), {0, 1}, {0}, 1)
          /\ TakesOne(OctetsOf(B), {0, 1, 5}, {0, 1}, 5)
      BY <2>2 DEF TakesOne
    <3>2. ot[{0}] = a7
      <4>1. ot[{0}] = Plus(w, {}, TimesOctet(w, h, B, 0))
        BY <1>8, <2>2, <3>1
      <4> QED
        BY <1>2, <1>5, <1>9, <2>2, <2>5, <4>1, PlusNothing
    <3>3. ot[{0, 1}] = a8
      <4>1. ot[{0, 1}] = Plus(w, a7, TimesOctet(w, h, B, 1))
        BY <1>8, <2>2, <3>1, <3>2
      <4> QED
        BY <2>3, <2>6, <4>1 DEF Added
    <3>4. ot[{0, 1, 5}] = Plus(w, a8, TimesOctet(w, h, B, 5))
      BY <1>8, <2>2, <3>1, <3>3
    <3> QED
      BY <2>3, <2>6, <3>4 DEF Added
  <2> QED
    BY <1>1, <1>5, <2>1, <2>2, <2>4, <2>7
<1> QED
  BY <1>10, <1>11

-----------------------------------------------------------------------------
(* A turn of the reference, and the reference turn by turn. *)
RefTurn(kind, h, o) ==
  IF kind \in {"32", "64"} THEN H!Xor(H!Product(kind, h), H!Word(o))
                           ELSE H!Product(kind, H!Xor(h, H!Word(o)))

LEMMA RefTurnIs ==
  ASSUME NEW kind, NEW h \in W(kind), NEW o \in Byte
  PROVE  RefTurn(kind, h, o) = Turn(kind, h, o)
<1>1. \A v : H!Product(kind, v) = Times(Width(kind), v, FNV_PRIME(kind))
  BY WordSame DEF H!Product, H!Width, Width, H!FNV_PRIME, FNV_PRIME
<1>2. \A v : H!Xor(v, H!Word(o)) = WithOctet(v, o)
  BY WordSame DEF WithOctet
<1>3. WithOctet(h, o) \in W(kind)
  <2>1. Width(kind) \in Nat /\ 0 .. 7 \subseteq Bits(Width(kind))
    BY ShiftsAre DEF Bits
  <2>2. Word(o) \in SUBSET Bits(Width(kind))
    BY <2>1, OctetWord DEF Byte
  <2>3. Xor(h, Word(o)) \in SUBSET Bits(Width(kind))
    BY <2>1, <2>2, XorDiffers DEF W
  <2> QED
    BY <2>3 DEF W, WithOctet
<1>4. CASE kind \in {"32", "64"}
  <2>1. RefTurn(kind, h, o) = WithOctet(Times(Width(kind), h, FNV_PRIME(kind)), o)
    BY <1>1, <1>2, <1>4 DEF RefTurn
  <2> QED
    BY <1>4, <2>1, MultipliedIsProduct DEF Turn
<1>5. CASE kind \notin {"32", "64"}
  <2>1. RefTurn(kind, h, o) = Times(Width(kind), WithOctet(h, o), FNV_PRIME(kind))
    BY <1>1, <1>2, <1>5 DEF RefTurn
  <2> QED
    BY <1>3, <1>5, <2>1, MultipliedIsProduct DEF Turn
<1> QED
  BY <1>4, <1>5

RefTurns(g, kind, octets, h) ==
  /\ g[0] = h
  /\ \A k \in 1 .. Len(octets) : g[k] = RefTurn(kind, g[k - 1], octets[k])

LEMMA ReferenceIs ==
  ASSUME NEW kind, NEW octets \in Seq(Byte), NEW h \in W(kind), h = H!Basis(kind, zero)
  PROVE  \E g : RefTurns(g, kind, octets, h) /\ H!Reference(kind, octets) = g[Len(octets)]
<1> DEFINE Dom == DOMAIN octets
           n == Len(octets)
           J == CHOOSE it : it = [s \in SUBSET Dom |->
                  IF s = {} THEN H!Basis(kind, zero)
                            ELSE RefTurn(kind, it[s \ {H!Max(s)}], octets[H!Max(s)])]
           V == W(kind)
           op == [p \in Dom \X V |-> RefTurn(kind, p[2], octets[p[1]])]
           ch == [s \in SUBSET Dom |-> Max(s)]
<1>1. H!Reference(kind, octets) = J[Dom]
  BY Zenon DEF H!Reference, H!FoldLeft, H!MapThenFoldSet, RefTurn
<1>01. \A s : H!Max(s) = Max(s)
  BY WordSame
<1>2. n \in Nat /\ Dom = 1 .. n /\ IsFiniteSet(Dom)
  BY FS_Interval
<1>3. \A i \in Dom : octets[i] \in Byte
  OBVIOUS
<1>4. \A s \in SUBSET Dom : s # {} => ch[s] \in s /\ ch[s] = Max(s) /\ ch[s] \in Dom
  <2> HIDE DEF Dom, n
  <2> SUFFICES ASSUME NEW s \in SUBSET Dom, s # {} PROVE Max(s) \in s
    OBVIOUS
  <2> QED
    BY <1>2, HasMax
<1>5. \A x \in Dom, v \in V : RefTurn(kind, v, octets[x]) \in V
  <2> SUFFICES ASSUME NEW x \in Dom, NEW v \in V PROVE RefTurn(kind, v, octets[x]) \in V
    OBVIOUS
  <2>1. PICK o \in Byte : o = octets[x]
    BY <1>3
  <2>2. RefTurn(kind, v, o) = Turn(kind, v, o) /\ Turn(kind, v, o) \in V
    BY RefTurnIs, TurnDiffers
  <2> QED
    BY <2>1, <2>2
<1>6. op \in [Dom \X V -> V] /\ \A x \in Dom, v \in V : op[<<x, v>>] = RefTurn(kind, v, octets[x])
  <2> HIDE DEF Dom, V
  <2> QED
    BY <1>5
<1> HIDE DEF op, ch
<1>7. PICK it \in [SUBSET Dom -> V] : FoldOf(it, Dom, ch, op, h)
  <2> HIDE DEF V, Dom
  <2>1. h \in V
    BY DEF V
  <2> QED
    BY <1>2, <1>4, <1>6, <2>1, FoldExists
<1>8. ASSUME NEW s \in SUBSET Dom, s # {}
      PROVE  op[<<ch[s], it[s \ {ch[s]}]>>] = RefTurn(kind, it[s \ {H!Max(s)}], octets[H!Max(s)])
  <2> HIDE DEF V, Dom
  <2>1. s \ {ch[s]} \in SUBSET Dom
    OBVIOUS
  <2>2. it[s \ {ch[s]}] \in V
    BY <2>1
  <2>3. ch[s] = H!Max(s) /\ ch[s] \in Dom
    BY <1>01, <1>4, <1>8
  <2> QED
    BY <1>6, <2>2, <2>3
<1>9. it = [s \in SUBSET Dom |->
              IF s = {} THEN H!Basis(kind, zero)
                        ELSE RefTurn(kind, it[s \ {H!Max(s)}], octets[H!Max(s)])]
  BY <1>7, <1>8 DEF FoldOf
<1>10. J = [s \in SUBSET Dom |->
              IF s = {} THEN H!Basis(kind, zero)
                        ELSE RefTurn(kind, J[s \ {H!Max(s)}], octets[H!Max(s)])]
  BY <1>9
<1> HIDE DEF J, Dom, n
<1> DEFINE g == [k \in 0 .. n |-> J[1 .. k]]
<1>11. g[0] = h
  <2>1. 1 .. 0 = {} /\ 0 \in 0 .. n
    BY <1>2
  <2>2. g[0] = J[{}]
    BY <2>1
  <2> QED
    BY <1>10, <2>2
<1>12. ASSUME NEW k \in 1 .. n
       PROVE  g[k] = RefTurn(kind, g[k - 1], octets[k])
  <2>1. k \in Nat /\ k > 0 /\ k \in 0 .. n /\ k - 1 \in 0 .. n
    BY <1>2
  <2>2. 1 .. k \in SUBSET Dom /\ 1 .. k # {}
    <3>1. k \in 1 .. k
      BY <2>1
    <3>2. \A x \in 1 .. k : x \in 1 .. n
      BY <1>2
    <3> QED
      BY <1>2, <3>1, <3>2
  <2>3. J[1 .. k] = RefTurn(kind, J[(1 .. k) \ {H!Max(1 .. k)}], octets[H!Max(1 .. k)])
    BY <1>10, <2>2
  <2>4. H!Max(1 .. k) = k /\ (1 .. k) \ {k} = 1 .. k - 1
    BY <1>01, <2>1, MaxOfInterval
  <2>5. J[1 .. k] = RefTurn(kind, J[1 .. k - 1], octets[k])
    BY <2>3, <2>4
  <2> QED
    BY <2>1, <2>5
<1>13. g[n] = J[Dom]
  BY <1>2
<1> HIDE DEF g
<1> QED
  BY <1>1, <1>11, <1>12, <1>13 DEF RefTurns, n

LEMMA ReferenceHashed ==
  ASSUME NEW kind, NEW s \in Seq(Byte), NEW h \in W(kind), h = H!Basis(kind, zero)
  PROVE  H!Reference(kind, s) = Hashed(kind, s, h)
<1> DEFINE n == Len(s)
<1>0. n \in Nat
  OBVIOUS
<1>1. PICK f : Turns(f, kind, s, h) /\ Hashed(kind, s, h) = f[n]
  BY HashedIs
<1>2. PICK g : RefTurns(g, kind, s, h) /\ H!Reference(kind, s) = g[n]
  BY ReferenceIs
<1> DEFINE Good(k) == f[k] \in W(kind) /\ f[k] = g[k]
           Bad == {k \in 0 .. n : ~Good(k)}
<1>3. Good(0)
  BY <1>1, <1>2 DEF Turns, RefTurns
<1>4. ASSUME NEW k \in 1 .. n, Good(k - 1)
      PROVE  Good(k)
  <2>1. PICK o \in Byte, v \in W(kind) : o = s[k] /\ v = f[k - 1] /\ v = g[k - 1]
    BY <1>4
  <2>2. f[k] = Turn(kind, v, o) /\ g[k] = RefTurn(kind, v, o)
    BY <1>1, <1>2, <2>1 DEF Turns, RefTurns
  <2> QED
    BY <2>2, RefTurnIs, TurnDiffers
<1> HIDE DEF n
<1>5. Bad = {}
  <2> SUFFICES ASSUME Bad # {} PROVE FALSE
    OBVIOUS
  <2>1. Bad \in SUBSET Nat
    BY <1>0
  <2>2. PICK k \in Bad : \A j \in Bad : k <= j
    <3> HIDE DEF Bad
    <3> QED
      BY <2>1, LeastNat
  <2> HIDE DEF Good
  <2>3. k \in 1 .. n /\ k - 1 \notin Bad /\ ~Good(k)
    BY <1>0, <1>3, <2>2
  <2>4. Good(k - 1)
    BY <1>0, <2>3
  <2> QED
    BY <1>4, <2>3, <2>4
<1>6. Good(n)
  BY <1>0, <1>5
<1> QED
  BY <1>1, <1>2, <1>6

(* Hashing the pieces one after the other is hashing them joined. *)
TurnsBy(g, n, kind, o) == \A k \in 1 .. n : g[k] = Turn(kind, g[k - 1], o[k])

LEMMA SameTurns ==
  ASSUME NEW n \in Nat, NEW kind, NEW o, NEW f, NEW g, f[0] = g[0],
         TurnsBy(f, n, kind, o), TurnsBy(g, n, kind, o)
  PROVE  f[n] = g[n]
<1> DEFINE Bad == {k \in 0 .. n : f[k] # g[k]}
<1>1. Bad = {}
  <2> SUFFICES ASSUME Bad # {} PROVE FALSE
    OBVIOUS
  <2>1. Bad \in SUBSET Nat
    OBVIOUS
  <2>2. PICK k \in Bad : \A j \in Bad : k <= j
    <3> HIDE DEF Bad
    <3> QED
      BY <2>1, LeastNat
  <2>3. k \in 1 .. n /\ k - 1 \in 0 .. n /\ k - 1 \notin Bad /\ f[k] # g[k]
    BY <2>2
  <2>4. f[k - 1] = g[k - 1]
    BY <2>3
  <2> QED
    BY <2>3, <2>4 DEF TurnsBy
<1> QED
  BY <1>1

LEMMA HashedJoined ==
  ASSUME NEW kind, NEW d \in Seq(Byte), NEW s \in Seq(Byte), NEW h \in W(kind)
  PROVE  Hashed(kind, Joined(d, s), h) = Hashed(kind, s, Hashed(kind, d, h))
<1>0. PICK e \in Seq(Byte), v \in W(kind) : e = Joined(d, s) /\ v = Hashed(kind, d, h)
  BY JoinedIs, HashedIsWord
<1>1. PICK n \in Nat, l \in Nat : n = Len(d) /\ l = Len(s) /\ Len(e) = n + l
  BY <1>0, JoinedIs
<1>2. /\ \A i \in 1 .. n : e[i] = d[i]
      /\ \A i \in 1 .. l : e[n + i] = s[i]
  BY ZenonT(40), <1>0, <1>1, JoinedIs
<1>3. PICK g : Turns(g, kind, e, h) /\ Hashed(kind, e, h) = g[n + l]
  BY <1>1, HashedIs
<1>4. PICK g1 : Turns(g1, kind, d, h) /\ v = g1[n]
  BY <1>0, <1>1, HashedIs
<1>5. PICK g2 : Turns(g2, kind, s, v) /\ Hashed(kind, s, v) = g2[l]
  BY <1>1, HashedIs
<1>6. g[n] = v
  <2>1. g[0] = g1[0]
    BY <1>3, <1>4 DEF Turns
  <2>2. \A k \in 1 .. n : k \in 1 .. n + l
    OBVIOUS
  <2>3. TurnsBy(g, n, kind, d) /\ TurnsBy(g1, n, kind, d)
    BY <1>1, <1>2, <1>3, <1>4, <2>2 DEF Turns, TurnsBy
  <2>4. g[n] = g1[n]
    BY <2>1, <2>3, SameTurns
  <2> QED
    BY <1>4, <2>4
<1>7. g[n + l] = g2[l]
  <2> DEFINE t == [k \in 0 .. l |-> g[n + k]]
  <2>1. t[0] = g2[0]
    BY <1>5, <1>6 DEF Turns
  <2>2. ASSUME NEW k \in 1 .. l
        PROVE  t[k] = Turn(kind, t[k - 1], s[k]) /\ g2[k] = Turn(kind, g2[k - 1], s[k])
    <3>1. /\ n + k \in 1 .. n + l /\ (n + k) - 1 = n + (k - 1) /\ k \in 0 .. l
          /\ k - 1 \in 0 .. l
      OBVIOUS
    <3>2. g[n + k] = Turn(kind, g[(n + k) - 1], e[n + k])
      BY <1>1, <1>3, <3>1 DEF Turns
    <3>3. t[k] = g[n + k] /\ t[k - 1] = g[n + (k - 1)]
      BY <3>1
    <3>4. g2[k] = Turn(kind, g2[k - 1], s[k])
      BY <1>1, <1>5 DEF Turns
    <3> QED
      BY <1>2, <3>1, <3>2, <3>3, <3>4
  <2>3. t[l] = g[n + l]
    OBVIOUS
  <2> HIDE DEF t
  <2>4. TurnsBy(t, l, kind, s) /\ TurnsBy(g2, l, kind, s)
    BY <2>2 DEF TurnsBy
  <2>5. t[l] = g2[l]
    BY <2>1, <2>4, SameTurns
  <2> QED
    BY <2>3, <2>5
<1> QED
  BY <1>0, <1>3, <1>5, <1>7

(* The result so far is the hash of all the data so far. *)
PieceInv ==
  /\ HashInv
  /\ \A kind \in H!Kinds, c \in H!Clients :
       hval[kind][c] = Hashed(kind, data[c], H!Basis(kind, zero))
PieceWhole == part = "hash" => PieceInv

LEMMA BasisIsWord ==
  ASSUME NEW kind
  PROVE  H!Basis(kind, zero) \in W(kind)
BY HashedSame, InitIsWord DEF H!Basis, W

LEMMA PieceInit == H!Init => PieceInv
<1> SUFFICES ASSUME H!Init PROVE PieceInv
  OBVIOUS
<1>1. HashInv
  BY HashInit
<1>2. ASSUME NEW kind \in H!Kinds, NEW c \in H!Clients
      PROVE  hval[kind][c] = Hashed(kind, data[c], H!Basis(kind, zero))
  <2>1. data[c] = <<>> /\ hval[kind][c] = H!Basis(kind, zero)
    BY DEF H!Init, H!Clients
  <2>2. PICK o \in Seq(Byte), h \in W(kind) : o = <<>> /\ h = H!Basis(kind, zero)
    <3>1. H!Basis(kind, zero) \in W(kind)
      BY BasisIsWord
    <3>2. <<>> \in Seq(Byte)
      OBVIOUS
    <3> QED
      BY <3>1, <3>2
  <2>3. PICK g : Turns(g, kind, o, h) /\ Hashed(kind, o, h) = g[Len(o)]
    BY HashedIs
  <2>4. Hashed(kind, o, h) = h
    BY <2>2, <2>3 DEF Turns
  <2> QED
    BY <2>1, <2>2, <2>4
<1> QED
  BY <1>1, <1>2 DEF PieceInv

LEMMA PieceNext ==
  ASSUME PieceInv, H!Next
  PROVE  PieceInv'
<1>1. HashInv /\ HashInv'
  BY HashNext DEF PieceInv
<1>2. PICK s : HashesPieces(s)
  BY HashStep
<1>3. /\ s \in [H!Clients -> Seq(Byte)] /\ data' = [c \in H!Clients |-> data[c] \o s[c]]
      /\ zero' = zero
      /\ \A kind \in H!Kinds, c \in H!Clients : hval'[kind][c] = Hashed(kind, s[c], hval[kind][c])
  BY <1>2 DEF HashesPieces, H!AppendPieces
<1>4. ASSUME NEW kind \in H!Kinds, NEW c \in H!Clients
      PROVE  hval'[kind][c] = Hashed(kind, data'[c], H!Basis(kind, zero'))
  <2>1. PICK d \in Seq(Byte), p \in Seq(Byte), h \in W(kind) :
          d = data[c] /\ p = s[c] /\ h = H!Basis(kind, zero)
    BY <1>1, <1>3, BasisIsWord DEF HashInv
  <2>2. hval[kind][c] = Hashed(kind, d, h)
    BY <2>1 DEF PieceInv
  <2>3. hval'[kind][c] = Hashed(kind, p, Hashed(kind, d, h))
    BY <1>3, <2>1, <2>2
  <2>4. Hashed(kind, Joined(d, p), h) = Hashed(kind, p, Hashed(kind, d, h))
    BY HashedJoined
  <2>5. data'[c] = Joined(d, p)
    BY <1>3, <2>1 DEF Joined
  <2>6. H!Basis(kind, zero') = h
    BY <1>3, <2>1
  <2> QED
    BY <2>3, <2>4, <2>5, <2>6
<1> QED
  BY <1>1, <1>4 DEF PieceInv

(* Hashing for any octets and any cut: each result is that of hashing the data at once
   with a real multiplication by the FNV prime. *)
THEOREM HashPiecewiseAgrees == HelpersSpec => []PiecewiseAgrees
<1>1. HelpersInit => PieceWhole
  BY PieceInit DEF HelpersInit, PieceWhole
<1>2. PieceWhole /\ [HelpersNext]_<<part, vars, scalableVars, hashVars, randVars, clVars>>
        => PieceWhole'
  <2> SUFFICES ASSUME PieceWhole, part' = "hash",
                      [HelpersNext]_<<part, vars, scalableVars, hashVars, randVars, clVars>>
               PROVE  PieceInv'
    BY DEF PieceWhole
  <2>1. part = "hash" /\ PieceInv
    BY DEF HelpersNext, PieceWhole
  <2>2. CASE UNCHANGED hashVars
    BY <2>1, <2>2 DEF PieceInv, HashInv, hashVars, H!DifferOnce, H!Places
  <2>3. CASE H!Next
    BY <2>1, <2>3, PieceNext
  <2> QED
    BY <2>1, <2>2, <2>3 DEF HelpersNext
<1>3. PieceWhole => PiecewiseAgrees
  <2> SUFFICES ASSUME PieceInv PROVE H!PiecewiseAgrees
    BY DEF PieceWhole, PiecewiseAgrees
  <2> SUFFICES ASSUME NEW kind \in H!Kinds, NEW c \in H!Clients
               PROVE  hval[kind][c] = H!Reference(kind, data[c])
    BY DEF H!PiecewiseAgrees
  <2>1. PICK d \in Seq(Byte), h \in W(kind) : d = data[c] /\ h = H!Basis(kind, zero)
    BY BasisIsWord DEF PieceInv, HashInv
  <2>2. hval[kind][c] = Hashed(kind, d, h)
    BY <2>1 DEF PieceInv
  <2>3. H!Reference(kind, d) = Hashed(kind, d, h)
    BY <2>1, ReferenceHashed
  <2> QED
    BY <2>1, <2>2, <2>3
<1> QED
  BY <1>1, <1>2, <1>3, PTL DEF HelpersSpec
-----------------------------------------------------------------------------
(* FilterSize: one less than a number, every bit below its highest, and one more. *)

LEMMA MaxBit ==
  ASSUME NEW c \in SUBSET Bits(32), c # {}
  PROVE  /\ \E m \in c : \A b \in c : m <= b
         /\ \E m \in c : \A b \in c : b <= m
<1>1. \E m \in c : \A b \in c : m <= b
  BY LeastNat DEF Bits
<1>2. \E m \in c : \A b \in c : b <= m
  <2> DEFINE Down == {31 - b : b \in c}
  <2>1. Down \in SUBSET Nat /\ Down # {}
    <3>1. \A b \in c : 31 - b \in Nat
      BY DEF Bits
    <3> QED
      BY <3>1
  <2>2. PICK j \in Down : \A k \in Down : j <= k
    <3> HIDE DEF Down
    <3> QED
      BY <2>1, LeastNat
  <2>3. PICK m \in c : j = 31 - m
    BY <2>2
  <2>4. ASSUME NEW b \in c PROVE b <= m
    <3>1. 31 - b \in Down /\ b \in Int /\ m \in Int
      BY DEF Bits
    <3>2. 31 - m <= 31 - b
      BY <2>2, <2>3, <3>1
    <3> QED
      BY <3>1, <3>2
  <2> QED
    BY <2>4
<1> QED
  BY <1>1, <1>2

(* The first j bits below bit t, of which n has no other. *)
Top(n, j, t) == n \in SUBSET Bits(t) /\ \A b \in Bits(t) : b >= t - j => b \in n

LEMMA Smear ==
  ASSUME NEW t \in Nat, NEW j \in Nat, NEW n, Top(n, j, t)
  PROVE  Top(n \cup Shr(n, j), j + j, t)
<1>1. n \in SUBSET Bits(t) /\ \A b \in Bits(t) : b \in Nat /\ b < t
  BY DEF Top, Bits
<1>2. \A e : e \in Shr(n, j) <=> \E b \in n : b >= j /\ e = b - j
  BY DEF Shr
<1>3. ASSUME NEW e \in Shr(n, j) PROVE e \in Bits(t)
  <2>1. PICK b \in n : b >= j /\ e = b - j
    BY <1>2
  <2>2. b \in Nat /\ b < t
    BY <1>1
  <2> QED
    BY <2>1, <2>2 DEF Bits
<1>4. ASSUME NEW b \in Bits(t), b >= t - (j + j), b \notin n PROVE b \in Shr(n, j)
  <2>1. b \in Nat /\ b < t /\ ~(b >= t - j)
    BY <1>1, <1>4 DEF Top
  <2>2. b + j \in Bits(t) /\ b + j >= t - j
    BY <1>4, <2>1 DEF Bits
  <2>3. b + j \in n /\ b + j >= j /\ b = (b + j) - j
    BY <2>1, <2>2 DEF Top
  <2> QED
    BY <1>2, <2>3
<1> QED
  BY <1>1, <1>3, <1>4 DEF Top

LEMMA SmearedIs ==
  ASSUME NEW t \in 0 .. 64, NEW n, Top(n, 1, t)
  PROVE  Smeared(n) = Bits(t)
<1> DEFINE n1 == n \cup Shr(n, 1)
           n2 == n1 \cup Shr(n1, 2)
           n4 == n2 \cup Shr(n2, 4)
           n8 == n4 \cup Shr(n4, 8)
           n16 == n8 \cup Shr(n8, 16)
           n32 == n16 \cup Shr(n16, 32)
<1>1. Smeared(n) = n32
  BY DEF Smeared
<1>2. t \in Nat
  OBVIOUS
<1>3. Top(n1, 2, t)
  <2>1. 1 \in Nat /\ 1 + 1 = 2
    OBVIOUS
  <2> QED
    BY <1>2, <2>1, Smear
<1> HIDE DEF n1
<1>4. Top(n2, 4, t)
  <2>1. 2 \in Nat /\ 2 + 2 = 4
    OBVIOUS
  <2> QED
    BY <1>2, <1>3, <2>1, Smear
<1> HIDE DEF n2
<1>5. Top(n4, 8, t)
  <2>1. 4 \in Nat /\ 4 + 4 = 8
    OBVIOUS
  <2> QED
    BY <1>2, <1>4, <2>1, Smear
<1> HIDE DEF n4
<1>6. Top(n8, 16, t)
  <2>1. 8 \in Nat /\ 8 + 8 = 16
    OBVIOUS
  <2> QED
    BY <1>2, <1>5, <2>1, Smear
<1> HIDE DEF n8
<1>7. Top(n16, 32, t)
  <2>1. 16 \in Nat /\ 16 + 16 = 32
    OBVIOUS
  <2> QED
    BY <1>2, <1>6, <2>1, Smear
<1> HIDE DEF n16
<1>8. Top(n32, 64, t)
  <2>1. 32 \in Nat /\ 32 + 32 = 64
    OBVIOUS
  <2> QED
    BY <1>2, <1>7, <2>1, Smear
<1> HIDE DEF n32
<1>9. \A b \in Bits(t) : b >= t - 64
  BY DEF Bits
<1> QED
  BY <1>1, <1>8, <1>9 DEF Top

LEMMA OneMore ==
  ASSUME NEW t \in 0 .. 64
  PROVE  Plus(64, Bits(t), {0}) = {t} \cap Bits(64)
<1> DEFINE makes == Bits(t) \cap {0}
           passes == Xor(Bits(t), {0})
<1>1. Plus(64, Bits(t), {0}) = {b \in Bits(64) : (b \in passes) # CarryInto(makes, passes, b)}
  BY DEF Plus
<1>2. ASSUME NEW b \in Bits(64)
      PROVE  (b \in passes) # CarryInto(makes, passes, b) <=> b = t
  <2>1. b \in Nat /\ t \in Nat /\ \A d \in Int : d \in Bits(t) <=> 0 <= d /\ d < t
    BY DEF Bits
  <2>2. CASE t = 0
    <3>1. makes = {} /\ passes = {0}
      BY <2>1, <2>2 DEF Xor, Bits
    <3>2. ~CarryInto(makes, passes, b)
      BY <3>1 DEF CarryInto
    <3>3. (b \in passes) \in BOOLEAN /\ CarryInto(makes, passes, b) \in BOOLEAN
      BY DEF CarryInto
    <3>4. ~(b \in passes <=> CarryInto(makes, passes, b)) <=> b = t
      <4> HIDE DEF passes, makes
      <4> QED
        BY <2>2, <3>1, <3>2
    <3> HIDE DEF passes, makes
    <3> QED
      BY <3>3, <3>4
  <2>3. CASE t > 0
    <3>1. makes = {0} /\ \A d \in Int : d \in passes <=> 0 < d /\ d < t
      BY <2>1, <2>3 DEF Xor
    <3>2. CarryInto(makes, passes, b) <=> 0 < b /\ b <= t
      <4>1. CarryInto(makes, passes, b) <=> 0 < b /\ \A d \in 0 + 1 .. b - 1 : d \in passes
        BY <3>1 DEF CarryInto
      <4>2. CASE 0 < b /\ b <= t
        <5>1. \A d \in 0 + 1 .. b - 1 : d \in passes
          BY <2>1, <3>1, <4>2
        <5> QED
          BY <4>1, <4>2, <5>1
      <4>3. CASE ~(0 < b /\ b <= t)
        <5>1. CASE b = 0
          BY <4>1, <4>3, <5>1
        <5>2. CASE b > t
          <6>1. t \in 0 + 1 .. b - 1 /\ t \notin passes
            BY <2>1, <2>3, <3>1, <5>2
          <6> QED
            BY <4>1, <4>3, <6>1
        <5> QED
          BY <2>1, <4>3, <5>1, <5>2
      <4> QED
        BY <4>2, <4>3
    <3>3. b \in passes <=> 0 < b /\ b < t
      BY <2>1, <3>1
    <3>4. (b \in passes) \in BOOLEAN /\ CarryInto(makes, passes, b) \in BOOLEAN
      BY DEF CarryInto
    <3>5. ~(b \in passes <=> CarryInto(makes, passes, b)) <=> b = t
      <4> HIDE DEF passes, makes
      <4> QED
        BY <2>1, <2>3, <3>2, <3>3
    <3> QED
      BY <3>4, <3>5
  <2> QED
    BY <2>1, <2>2, <2>3
<1> HIDE DEF passes, makes
<1> QED
  BY <1>1, <1>2

(* The number below a nonempty word. *)
LEMMA OneLess ==
  ASSUME NEW c \in SUBSET Bits(32), NEW m \in c, \A b \in c : m <= b
  PROVE  Plus(64, c, Bits(64)) = (c \ {m}) \cup Bits(m)
<1> DEFINE makes == c \cap Bits(64)
           passes == Xor(c, Bits(64))
<1>1. makes = c /\ passes = Bits(64) \ c /\ \A b \in c : b \in Nat /\ b < 32
  <2>1. \A b \in c : b \in Nat /\ b < 32
    BY DEF Bits
  <2>2. c \in SUBSET Bits(64)
    BY <2>1 DEF Bits
  <2> QED
    BY <2>1, <2>2 DEF Xor
<1>2. Plus(64, c, Bits(64)) = {b \in Bits(64) : (b \in passes) # CarryInto(makes, passes, b)}
  BY DEF Plus
<1>3. ASSUME NEW b \in Bits(64)
      PROVE  CarryInto(makes, passes, b) <=> m < b
  <2>0. b \in Nat /\ b < 64 /\ m \in Nat /\ m < 32
    BY <1>1 DEF Bits
  <2>1. ASSUME CarryInto(makes, passes, b) PROVE m < b
    <3>1. PICK a \in c : a < b
      BY <1>1, <2>1 DEF CarryInto
    <3> QED
      BY <1>1, <2>0, <3>1
  <2>2. ASSUME m < b PROVE CarryInto(makes, passes, b)
    <3> DEFINE lower == {a \in c : a < b}
    <3>1. lower \in SUBSET Bits(32) /\ lower # {}
      BY <2>2
    <3>2. PICK a \in lower : \A d \in lower : d <= a
      <4> HIDE DEF lower
      <4> QED
        BY <3>1, MaxBit
    <3>3. ASSUME NEW d \in a + 1 .. b - 1 PROVE d \in passes
      <4>1. a \in Nat /\ d \in Int /\ d > a /\ d < b
        BY <1>1, <2>0, <3>2
      <4>2. d \notin c
        BY <3>2, <4>1
      <4>3. d \in Bits(64)
        BY <2>0, <4>1 DEF Bits
      <4> QED
        BY <1>1, <4>2, <4>3
    <3> QED
      BY <1>1, <3>2, <3>3 DEF CarryInto
  <2> QED
    BY <2>1, <2>2
<1>4. ASSUME NEW b \in Bits(64)
      PROVE  (b \in passes) # CarryInto(makes, passes, b) <=> b \in (c \ {m}) \cup Bits(m)
  <2>1. b \in Nat /\ m \in Nat /\ (b \in Bits(m) <=> b < m)
    BY <1>1 DEF Bits
  <2>2. b \in passes <=> b \notin c
    BY <1>1
  <2>3. (b \in passes) # CarryInto(makes, passes, b) <=> ~(b \in passes <=> CarryInto(makes, passes, b))
    <3>1. (b \in passes) \in BOOLEAN /\ CarryInto(makes, passes, b) \in BOOLEAN
      BY DEF CarryInto
    <3> HIDE DEF passes, makes
    <3> QED
      BY <3>1
  <2> HIDE DEF passes, makes
  <2>4. ~(b \in passes <=> CarryInto(makes, passes, b)) <=> ~(b \notin c <=> m < b)
    BY <1>3, <2>2
  <2> QED
    BY <2>1, <2>3, <2>4
<1>5. (c \ {m}) \cup Bits(m) \in SUBSET Bits(64)
  BY <1>1 DEF Bits
<1> HIDE DEF passes, makes
<1> QED
  BY <1>2, <1>4, <1>5

(* The smallest power of two that is not below a capacity. *)
LEMMA NextPower ==
  ASSUME NEW c \in SUBSET Bits(32), c # {}
  PROVE  \E t \in 0 .. 32 : /\ next_pow_2(c) = {t} \cap Bits(32)
                            /\ \A k \in Nat : AtMostPower(c, k) <=> t <= k
<1>1. PICK m \in c : \A b \in c : m <= b
  BY MaxBit
<1>2. PICK h \in c : \A b \in c : b <= h
  BY MaxBit
<1>3. m \in 0 .. 31 /\ h \in 0 .. 31 /\ m <= h /\ \A b \in c : b \in 0 .. 31
  BY <1>2 DEF Bits
<1>4. PICK below : below = Plus(64, c, Bits(64)) /\ below = (c \ {m}) \cup Bits(m)
  BY <1>1, OneLess
<1>5. ASSUME NEW t \in 0 .. 32, Top(below, 1, t)
      PROVE  next_pow_2(c) = {t} \cap Bits(32)
  <2>1. t \in 0 .. 64
    OBVIOUS
  <2>2. Smeared(below) = Bits(t)
    BY <1>5, <2>1, SmearedIs
  <2>3. next_pow_2(c) = Plus(64, Smeared(below), {0}) \cap Bits(32)
    BY <1>4 DEF next_pow_2
  <2>4. Bits(32) \subseteq Bits(64)
    BY DEF Bits
  <2> QED
    BY <2>1, <2>2, <2>3, <2>4, OneMore
<1>6. \A k \in Nat : c \subseteq Bits(k) <=> h < k
  <2> SUFFICES ASSUME NEW k \in Nat PROVE c \subseteq Bits(k) <=> h < k
    OBVIOUS
  <2>1. \A b \in c : b \in Bits(k) <=> b < k
    BY <1>3 DEF Bits
  <2> QED
    BY <1>2, <1>3, <2>1
<1>7. CASE c = {m}
  <2>1. below = Bits(m) /\ h = m
    BY <1>4, <1>7
  <2>2. Top(below, 1, m)
    BY <2>1 DEF Top
  <2>3. \A k \in Nat : AtMostPower(c, k) <=> m <= k
    BY <1>3, <1>6, <1>7, <2>1 DEF AtMostPower
  <2>4. m \in 0 .. 32
    BY <1>3
  <2> QED
    BY <1>5, <2>2, <2>3, <2>4
<1>8. CASE c # {m}
  <2>1. h # m /\ m < h
    <3>1. PICK e \in c : e # m
      BY <1>8
    <3> QED
      BY <1>1, <1>2, <1>3, <3>1
  <2>2. Top(below, 1, h + 1)
    <3>1. \A b \in Int : b \in Bits(h + 1) <=> 0 <= b /\ b <= h
      BY <1>3 DEF Bits
    <3>2. below \in SUBSET Bits(h + 1)
      <4>1. \A b \in Bits(m) : b \in Bits(h + 1)
        BY <1>3 DEF Bits
      <4>2. \A b \in c : b \in Bits(h + 1)
        BY <1>2, <1>3, <3>1
      <4> QED
        BY <1>4, <4>1, <4>2
    <3>3. ASSUME NEW b \in Bits(h + 1), b >= (h + 1) - 1 PROVE b \in below
      <4>1. b = h
        BY <1>3, <3>3 DEF Bits
      <4> QED
        BY <1>4, <2>1, <4>1
    <3> QED
      BY <3>2, <3>3 DEF Top
  <2>3. \A k \in Nat : AtMostPower(c, k) <=> h + 1 <= k
    <3>1. \A k \in Nat : c # {k}
      BY <2>1
    <3> QED
      BY <1>3, <1>6, <3>1 DEF AtMostPower
  <2>4. h + 1 \in 0 .. 32
    BY <1>3
  <2> QED
    BY <1>5, <2>2, <2>3, <2>4
<1> QED
  BY <1>7, <1>8

LEMMA NextOfZero == next_pow_2({}) = {}
<1>1. Plus(64, {}, Bits(64)) = Bits(64)
  BY DEF Plus, CarryInto, Xor
<1>2. 64 \in 0 .. 64 /\ Top(Bits(64), 1, 64)
  BY DEF Top
<1>3. Plus(64, Smeared(Bits(64)), {0}) = {64} \cap Bits(64)
  BY <1>2, OneMore, SmearedIs
<1>4. {64} \cap Bits(64) = {}
  BY DEF Bits
<1> QED
  BY <1>1, <1>3, <1>4 DEF next_pow_2

LEMMA PowerOf ==
  ASSUME NEW c \in SUBSET Bits(32), c # {}
  PROVE  \E t \in 0 .. 32 :
           /\ trailing_zeros(Buckets(c)) = IF 2 <= t /\ t <= 31 THEN t - 2 ELSE 0
           /\ \A k \in Nat : AtMostPower(c, k) <=> t <= k
<1>1. PICK t \in 0 .. 32 : /\ next_pow_2(c) = {t} \cap Bits(32)
                           /\ \A k \in Nat : AtMostPower(c, k) <=> t <= k
  BY NextPower
<1>2. \A n \in Nat : trailing_zeros({n}) = n
  <2> SUFFICES ASSUME NEW n \in Nat PROVE trailing_zeros({n}) = n
    OBVIOUS
  <2>1. Min({n}) = n
    BY DEF Min
  <2> QED
    BY <2>1 DEF trailing_zeros
<1>3. CASE 2 <= t /\ t <= 31
  <2>1. next_pow_2(c) = {t}
    <3>1. t \in Bits(32)
      BY <1>3 DEF Bits
    <3> QED
      BY <1>1, <3>1
  <2>2. Shr({t}, 2) = {t - 2}
    BY <1>3 DEF Shr
  <2>3. Buckets(c) = {t - 2} /\ t - 2 \in Nat
    BY <1>3, <2>1, <2>2 DEF Buckets
  <2> QED
    BY <1>1, <1>2, <1>3, <2>3
<1>4. CASE ~(2 <= t /\ t <= 31)
  <2>1. Shr({t} \cap Bits(32), 2) = {}
    BY <1>4 DEF Shr, Bits
  <2>2. Buckets(c) = {0}
    BY <1>1, <2>1 DEF Buckets
  <2> QED
    BY <1>1, <1>2, <1>4, <2>2
<1> QED
  BY <1>3, <1>4

LEMMA PowerOfZero == trailing_zeros(Buckets({})) = 0
<1>1. Shr({}, 2) = {} /\ Buckets({}) = {0}
  BY NextOfZero DEF Buckets, Shr
<1>2. Min({0}) = 0
  BY DEF Min
<1> QED
  BY <1>1, <1>2 DEF trailing_zeros

(* The state of the tables and of the last filter made. *)
FilterInv ==
  /\ \/ masks = [i \in 0 .. 64 |-> {}] /\ alt_hashes = [x \in 0 .. 255 |-> {}]
     \/ /\ alt_hashes = AltHashes
        /\ \E undefined \in {{}, Bits(31)} : masks = [i \in 0 .. 64 |-> Mask(i, undefined)]
  /\ capacity \in SUBSET Bits(32)
  /\ bucketPower = -1 \/ bucketPower = trailing_zeros(Buckets(capacity))

(* For every capacity that a filter is made of. *)
THEOREM FilterInvariant == HelpersSpec => []FilterInv
<1>1. Init => FilterInv
  BY DEF Init, FilterInv, Bits
<1>2. FilterInv /\ [Next]_vars => FilterInv'
  <2> SUFFICES ASSUME FilterInv, [Next]_vars PROVE FilterInv'
    OBVIOUS
  <2>1. CASE UNCHANGED vars
    BY <2>1 DEF FilterInv, vars
  <2>2. CASE init
    BY <2>2 DEF FilterInv, init
  <2>3. CASE CallocFails \/ CallocReturns
    BY <2>3 DEF FilterInv, CallocFails, CallocReturns
  <2>4. ASSUME NEW c \in Capacities, cf_new(c) PROVE FilterInv'
    <3>1. c \in SUBSET Bits(32)
      BY CapacityAssumption
    <3>2. UNCHANGED <<alt_hashes, masks>> /\ capacity' = c
          /\ (bucketPower' = -1 \/ bucketPower' = trailing_zeros(Buckets(c)))
      BY <2>4 DEF cf_new
    <3> QED
      BY <3>1, <3>2 DEF FilterInv
  <2> QED
    BY <2>1, <2>2, <2>3, <2>4 DEF Next
<1> QED
  BY <1>1, <1>2, HelpersApart, PTL DEF Spec

(* Two fingerprints are hashed to different words. *)
LEMMA AltHashesDiffer ==
  ASSUME NEW x \in Byte, NEW y \in Byte, x # y
  PROVE  fnv_32a_buf(<<x>>, FNV1_INIT("32a")) # fnv_32a_buf(<<y>>, FNV1_INIT("32a"))
<1>1. PICK s1, s2 : s1 = <<x>> /\ s2 = <<y>>
  OBVIOUS
<1>2. /\ s1 \in Seq(Byte) /\ s2 \in Seq(Byte) /\ Len(s1) = Len(s2) /\ 1 \in 0 .. Len(s1)
      /\ \A i \in 1 .. Len(s1) : s1[i] # s2[i] <=> i = 1
  BY <1>1
<1>3. PICK h \in W("32a") : h = FNV1_INIT("32a")
  BY InitIsWord DEF W
<1>4. h # h <=> 1 = 0
  OBVIOUS
<1>5. Hashed("32a", s1, h) # Hashed("32a", s2, h)
  BY <1>2, <1>4, HashedDiffers
<1> QED
  BY <1>1, <1>3, <1>5 DEF fnv_32a_buf

LEMMA AltHashesCount ==
  ASSUME NEW a, a = AltHashes
  PROVE  Cardinality({a[x] : x \in 0 .. 255}) = 256
<1> DEFINE T == {a[x] : x \in Byte}
<1>1. IsFiniteSet(Byte) /\ Cardinality(Byte) = 256
  <2>1. 0 \in Int /\ 255 \in Int
    OBVIOUS
  <2>2. IsFiniteSet(0 .. 255) /\ Cardinality(0 .. 255) = IF 0 > 255 THEN 0 ELSE 255 - 0 + 1
    BY <2>1, FS_Interval
  <2> QED
    BY <2>2 DEF Byte
<1>2. a = [x \in Byte |-> fnv_32a_buf(<<x>>, FNV1_INIT("32a"))]
  BY DEF AltHashes, Byte
<1>3. \A x, y \in Byte : a[x] = a[y] => x = y
  BY <1>2, AltHashesDiffer
<1>4. a \in Bijection(Byte, T)
  <2>1. a \in [Byte -> T] /\ IsInjective(a)
    BY <1>2, <1>3 DEF IsInjective
  <2>2. \A t \in T : \E x \in Byte : a[x] = t
    OBVIOUS
  <2> HIDE DEF T
  <2> QED
    BY <2>1, <2>2 DEF Bijection, Injection, Surjection
<1>5. ExistsBijection(Byte, T)
  BY <1>4 DEF ExistsBijection
<1> HIDE DEF T
<1>6. Cardinality(T) = 256
  BY <1>1, <1>5, FS_Bijection
<1> QED
  BY <1>6 DEF T, Byte

LEMMA MasksAre ==
  ASSUME FilterInv, NEW p \in 0 .. 30
  PROVE  /\ masks[p] = {} \/ masks[p] = Bits(p)
         /\ masks[2] # {} => alt_hashes = AltHashes /\ masks[p] = Bits(p)
<1>1. p \in 0 .. 64 /\ 2 \in 0 .. 64 /\ p <= 30
  OBVIOUS
<1>2. CASE masks = [i \in 0 .. 64 |-> {}]
  BY <1>1, <1>2
<1>3. CASE alt_hashes = AltHashes /\ \E u \in {{}, Bits(31)} : masks = [i \in 0 .. 64 |-> Mask(i, u)]
  <2>1. PICK u : masks = [i \in 0 .. 64 |-> Mask(i, u)]
    BY <1>3
  <2>2. masks[p] = Mask(p, u)
    BY <1>1, <2>1
  <2>3. Mask(p, u) = Bits(p)
    BY <1>1 DEF Mask
  <2> QED
    BY <1>3, <2>2, <2>3
<1> QED
  BY <1>2, <1>3 DEF FilterInv

(* For every capacity of 32 bits, and every value of the shifted hash: cf_new makes the
   smallest filter that has the capacity, except where next_pow_2 wraps; all indices lie
   inside; the tables fit; and the loops over four stay inside exactly as said. *)
THEOREM SizeFilterFits == HelpersSpec => []FilterFits
<1>1. FilterInv => FilterFits
  <2> SUFFICES ASSUME FilterInv PROVE FilterFits
    OBVIOUS
  <2> DEFINE p == bucketPower
  <2>1. CASE ~(p >= 0)
    <3>1. masks[2] # {} => Cardinality({alt_hashes[x] : x \in 0 .. 255}) = 256
      <4>1. masks[2] # {} => alt_hashes = AltHashes
        <5>1. 2 \in 0 .. 30
          OBVIOUS
        <5> QED
          BY <5>1, MasksAre
      <4> QED
        BY <4>1, AltHashesCount
    <3> QED
      BY <2>1, <3>1 DEF FilterFits, SizedForCapacity, IndicesInside, TablesFit, FourInside
  <2>2. CASE p >= 0
    <3>1. capacity \in SUBSET Bits(32) /\ p = trailing_zeros(Buckets(capacity))
      BY <2>2 DEF FilterInv
    <3>2. /\ p \in 0 .. 29
          /\ SizedForCapacity
          /\ ~AtMostPower(capacity, 2) /\ AtMostPower(capacity, 31) <=> p >= 1
          /\ ~AtMostPower(capacity, 3) /\ AtMostPower(capacity, 31) <=> p >= 2
      <4>1. CASE capacity = {}
        <5>1. p = 0
          BY <3>1, <4>1, PowerOfZero
        <5>2. AtMostPower(capacity, 2) /\ AtMostPower(capacity, 3)
          BY <4>1 DEF AtMostPower
        <5> QED
          BY <4>1, <5>1, <5>2 DEF SizedForCapacity
      <4>2. CASE capacity # {}
        <5>1. PICK t \in 0 .. 32 :
                /\ p = IF 2 <= t /\ t <= 31 THEN t - 2 ELSE 0
                /\ \A k \in Nat : AtMostPower(capacity, k) <=> t <= k
          BY <3>1, <4>2, PowerOf
        <5>2. p \in 0 .. 29
          BY <5>1
        <5>3. SizedForCapacity
          <6>1. AtMostPower(capacity, 31) <=> t <= 31
            BY <5>1
          <6>2. (AtMostPower(capacity, p + 2) <=> t <= p + 2)
                /\ (AtMostPower(capacity, p + 1) <=> t <= p + 1)
            BY <5>1, <5>2
          <6>3. CASE t <= 31
            <7>1. t <= p + 2 /\ (p > 0 => ~(t <= p + 1))
              BY <5>1, <6>3
            <7> QED
              BY <4>2, <6>1, <6>2, <6>3, <7>1 DEF SizedForCapacity
          <6>4. CASE t > 31
            BY <5>1, <6>1, <6>4 DEF SizedForCapacity
          <6> QED
            BY <6>3, <6>4
        <5>4. /\ AtMostPower(capacity, 31) <=> t <= 31
              /\ AtMostPower(capacity, 2) <=> t <= 2
              /\ AtMostPower(capacity, 3) <=> t <= 3
          BY <5>1
        <5>5. /\ ~(t <= 2) /\ t <= 31 <=> p >= 1
              /\ ~(t <= 3) /\ t <= 31 <=> p >= 2
          BY <5>1
        <5> QED
          BY <5>2, <5>3, <5>4, <5>5
      <4> QED
        BY <4>1, <4>2
    <3>3. /\ masks[p] = {} \/ masks[p] = Bits(p)
          /\ masks[2] # {} => alt_hashes = AltHashes /\ masks[p] = Bits(p)
      <4>1. p \in 0 .. 30
        BY <3>2
      <4> QED
        BY <4>1, MasksAre
    <3>4. Bits(p) \subseteq Bits(p + 1) /\ Bits(p) \subseteq Bits(32)
      BY <3>2 DEF Bits
    <3>5. IndicesInside
      <4> SUFFICES ASSUME NEW h \in Hashes, NEW x \in 1 .. 255
                   PROVE  LET i == index(h, p)
                              j == alt_index(x, i, p)
                          IN  /\ PointerInside(i, p) /\ PointerInside(j, p)
                              /\ BucketInside(i, p) /\ BucketInside(j, p)
                              /\ alt_index(x, j, p) = i
        BY DEF IndicesInside
      <4> DEFINE i == index(h, p)
                 j == alt_index(x, i, p)
      <4>1. i \subseteq Bits(p) /\ j \subseteq Bits(p)
        BY <3>3 DEF index, alt_index, Xor
      <4>2. alt_index(x, j, p) = i
        BY DEF index, alt_index, Xor
      <4> QED
        BY <3>4, <4>1, <4>2 DEF PointerInside, BucketInside
    <3>6. TablesFit
      <4>1. ASSUME masks[2] # {} PROVE Cardinality({alt_hashes[x] : x \in 0 .. 255}) = 256
        BY <3>3, <4>1, AltHashesCount
      <4>2. ASSUME masks[2] # {} PROVE index(Bits(32), p) = Bits(p)
        BY <3>3, <3>4, <4>2 DEF index
      <4> QED
        BY <4>1, <4>2 DEF TablesFit
    <3>7. FourInside
      <4>1. ASSUME NEW k \in Nat
            PROVE  (\A i \in FirstFour : i \subseteq Bits(k)) <=> k >= 2
        <5>1. \A i \in FirstFour : i \subseteq {0, 1}
          BY DEF FirstFour
        <5>2. {0, 1} \in FirstFour
          BY DEF FirstFour
        <5>3. {0, 1} \subseteq Bits(k) <=> k >= 2
          BY DEF Bits
        <5> QED
          BY <5>1, <5>2, <5>3
      <4>2. /\ (\A i \in FirstFour : BucketInside(i, p)) <=> p + 1 >= 2
            /\ (\A i \in FirstFour : PointerInside(i, p)) <=> p >= 2
        BY <3>2, <4>1 DEF BucketInside, PointerInside
      <4>3. p + 1 >= 2 <=> p >= 1
        BY <3>2
      <4> QED
        BY <3>2, <4>2, <4>3 DEF FourInside
    <3> QED
      BY <3>2, <3>5, <3>6, <3>7 DEF FilterFits
  <2> QED
    BY <2>1, <2>2
<1> QED
  BY <1>1, FilterInvariant, PTL
-----------------------------------------------------------------------------
(* RandBool: the tempering undone, from its last step to its first. *)

W32 == SUBSET Bits(32)

LEMMA W32Is ==
  /\ \A X \in W32 : X \in SUBSET Int /\ X \in SUBSET Nat /\ \A b \in X : b >= 0 /\ b < 32
  /\ \A X, Y \in W32, k \in Nat :
       Xor(X, Y) \in W32 /\ Shl(32, X, k) \in W32 /\ Shr(X, k) \in W32
  /\ \A X \in W32 : \A M : X \cap M \in W32
<1>1. \A X \in W32 : X \in SUBSET Int /\ X \in SUBSET Nat /\ \A b \in X : b >= 0 /\ b < 32
  BY DEF W32, Bits
<1>2. ASSUME NEW X \in W32, NEW Y \in W32, NEW k \in Nat
      PROVE  Xor(X, Y) \in W32 /\ Shl(32, X, k) \in W32 /\ Shr(X, k) \in W32
  <2>1. Xor(X, Y) \in W32
    BY DEF Xor, W32
  <2>2. Shl(32, X, k) \in W32
    BY DEF Shl, W32, Bits
  <2>3. Shr(X, k) \in W32
    BY DEF Shr, W32, Bits
  <2> QED
    BY <2>1, <2>2, <2>3
<1>3. \A X \in W32 : \A M : X \cap M \in W32
  BY DEF W32
<1> QED
  BY <1>1, <1>2, <1>3

LEMMA SameBits ==
  ASSUME NEW X \in W32, NEW Y \in W32, \A b \in 0 .. 31 : b \in X <=> b \in Y
  PROVE  X = Y
<1>1. 0 .. 31 = Bits(32)
  BY DEF Bits
<1>2. \A b : b \in X \/ b \in Y => b \in 0 .. 31
  BY <1>1 DEF W32
<1> QED
  BY <1>2

(* x ^ x>>18 is undone by itself. *)
LEMMA UndoneRight18 ==
  ASSUME NEW X \in W32, NEW t, t = Xor(X, Shr(X, 18))
  PROVE  Xor(t, Shr(t, 18)) = X
<1>1. X \in SUBSET Int /\ (\A b \in X : b >= 0 /\ b < 32) /\ t \in W32 /\ t \in SUBSET Int
      /\ Xor(t, Shr(t, 18)) \in W32
  <2>1. 18 \in Nat
    OBVIOUS
  <2> QED
    BY <2>1, W32Is
<1>2. \A b \in Int : b >= 0 => (b \in t <=> (b \in X) # (b + 18 \in X))
  BY <1>1, XorIs, ShrIs
<1>3. ASSUME NEW b \in 0 .. 31 PROVE b \in Xor(t, Shr(t, 18)) <=> b \in X
  <2>1. b \in Xor(t, Shr(t, 18)) <=> (b \in t) # (b + 18 \in t)
    BY <1>1, XorIs, ShrIs
  <2>2. b + 18 \in t <=> (b + 18 \in X) # (b + 18 + 18 \in X)
    BY <1>2
  <2>3. b + 18 + 18 \notin X
    BY <1>1
  <2>4. b \in t <=> (b \in X) # (b + 18 \in X)
    BY <1>2
  <2> QED
    BY <2>1, <2>2, <2>3, <2>4
<1> QED
  BY <1>1, <1>3, SameBits

(* x ^ x>>11 by two shifts more. *)
LEMMA UndoneRight11 ==
  ASSUME NEW X \in W32, NEW t, t = Xor(X, Shr(X, 11))
  PROVE  Xor(Xor(t, Shr(t, 11)), Shr(t, 22)) = X
<1>1. X \in SUBSET Int /\ (\A b \in X : b >= 0 /\ b < 32) /\ t \in W32 /\ t \in SUBSET Int
      /\ Xor(t, Shr(t, 11)) \in W32 /\ Xor(Xor(t, Shr(t, 11)), Shr(t, 22)) \in W32
  <2>1. 11 \in Nat /\ 22 \in Nat
    OBVIOUS
  <2> QED
    BY <2>1, W32Is
<1>2. \A b \in Int : b >= 0 => (b \in t <=> (b \in X) # (b + 11 \in X))
  BY <1>1, XorIs, ShrIs
<1>3. ASSUME NEW b \in 0 .. 31
      PROVE  b \in Xor(Xor(t, Shr(t, 11)), Shr(t, 22)) <=> b \in X
  <2>1. b \in Xor(t, Shr(t, 11)) <=> (b \in t) # (b + 11 \in t)
    BY <1>1, XorIs, ShrIs
  <2>2. b \in Xor(Xor(t, Shr(t, 11)), Shr(t, 22))
          <=> (b \in Xor(t, Shr(t, 11))) # (b + 22 \in t)
    BY <1>1, XorIs, ShrIs
  <2>3. b \in t <=> (b \in X) # (b + 11 \in X)
    BY <1>2
  <2>4. b + 11 \in t <=> (b + 11 \in X) # (b + 22 \in X)
    <3>1. (b + 11) + 11 = b + 22 /\ b + 11 \in Int /\ b + 11 >= 0
      OBVIOUS
    <3> QED
      BY <1>2, <3>1
  <2>5. b + 22 \in t <=> (b + 22 \in X) # (b + 33 \in X)
    <3>1. (b + 22) + 11 = b + 33 /\ b + 22 \in Int /\ b + 22 >= 0
      OBVIOUS
    <3> QED
      BY <1>2, <3>1
  <2>6. b + 33 \notin X
    BY <1>1
  <2> QED
    BY <2>1, <2>2, <2>3, <2>4, <2>5, <2>6
<1> QED
  BY <1>1, <1>3, SameBits

(* x ^ y<<k & mask *)
Left(X, Y, k, M) == Xor(X, Shl(32, Y, k) \cap M)

LEMMA LeftBits ==
  ASSUME NEW X \in W32, NEW Y \in W32, NEW k \in Nat, NEW M
  PROVE  /\ Left(X, Y, k, M) \in W32
         /\ \A b \in 0 .. 31 : b \in Left(X, Y, k, M) <=> (b \in X) # (b - k \in Y /\ b \in M)
<1>1. Shl(32, Y, k) \in W32 /\ Y \in SUBSET Int
  BY W32Is
<1>2. \A b \in 0 .. 31 : b \in Shl(32, Y, k) <=> b - k \in Y
  BY <1>1, ShlIs
<1>3. \A b : b \in Left(X, Y, k, M) <=> (b \in X) # (b \in Shl(32, Y, k) /\ b \in M)
  BY XorIs DEF Left
<1>4. Left(X, Y, k, M) \in W32
  BY <1>1, W32Is DEF Left
<1> QED
  BY <1>2, <1>3, <1>4

LEMMA MaskCBits == 15 \notin R!MaskC /\ 16 \notin R!MaskC
<1> DEFINE s == <<0, \hefc6>>
<1>1. \A n : R!Word(n) \subseteq 0 .. 29
  BY DEF R!Word
<1>2. 15 \notin R!Word(0) /\ 16 \notin R!Word(0)
  <2>1. 2^15 = 32768 /\ 2^16 = 65536
    OBVIOUS
  <2>2. (0 \div 32768) % 2 = 0 /\ (0 \div 65536) % 2 = 0
    OBVIOUS
  <2> QED
    BY <2>1, <2>2 DEF R!Word
<1>3. 0 \notin R!Word(\hefc6)
  <2>1. 2^0 = 1 /\ \hefc6 = 61382
    OBVIOUS
  <2>2. (61382 \div 1) % 2 = 0
    OBVIOUS
  <2> QED
    BY <2>1, <2>2 DEF R!Word
<1>4. ASSUME NEW c, c \in R!MaskC
      PROVE  c \in R!Word(0) \/ \E b \in R!Word(\hefc6) : c = b + 16
  <2>0. DOMAIN s = 1 .. 2 /\ s[1] = 0 /\ s[2] = \hefc6
    OBVIOUS
  <2> HIDE DEF s
  <2>1. c \in UNION {{b + 16 * (i - 1) : b \in R!Word(s[i])} : i \in DOMAIN s}
    BY <1>4 DEF R!MaskC, R!Halfwords, s
  <2>2. PICK i \in DOMAIN s : c \in {b + 16 * (i - 1) : b \in R!Word(s[i])}
    BY <2>1
  <2>3. PICK b \in R!Word(s[i]) : c = b + 16 * (i - 1)
    BY <2>2
  <2>4. b \in Int
    BY <1>1, <2>3
  <2>5. i = 1 \/ i = 2
    BY <2>0
  <2>6. CASE i = 1
    BY <2>0, <2>3, <2>4, <2>6
  <2>7. CASE i = 2
    BY <2>0, <2>3, <2>4, <2>7
  <2> QED
    BY <2>5, <2>6, <2>7
<1>5. ASSUME NEW b \in R!Word(\hefc6) PROVE b + 16 # 15 /\ (b + 16 = 16 => b = 0)
  BY <1>1
<1> QED
  BY <1>2, <1>3, <1>4, <1>5

(* x ^ x<<15 & MaskC is undone by itself, as no two bits of MaskC are 15 apart below
   bit 32 where it would matter. *)
LEMMA UndoneLeft15 ==
  ASSUME NEW X \in W32
  PROVE  LET t == Left(X, X, 15, R!MaskC) IN Left(t, t, 15, R!MaskC) = X
<1> DEFINE C_ == R!MaskC
           t == Left(X, X, 15, C_)
           y == Left(t, t, 15, C_)
<1>1. /\ t \in W32 /\ y \in W32
      /\ \A b \in 0 .. 31 : b \in t <=> (b \in X) # (b - 15 \in X /\ b \in C_)
      /\ \A b \in 0 .. 31 : b \in y <=> (b \in t) # (b - 15 \in t /\ b \in C_)
  <2>1. 15 \in Nat
    OBVIOUS
  <2> HIDE DEF C_
  <2>3. t \in W32 /\ \A b \in 0 .. 31 : b \in t <=> (b \in X) # (b - 15 \in X /\ b \in C_)
    BY <2>1, LeftBits
  <2> HIDE DEF t
  <2>4. y \in W32 /\ \A b \in 0 .. 31 : b \in y <=> (b \in t) # (b - 15 \in t /\ b \in C_)
    BY <2>1, <2>3, LeftBits
  <2> QED
    BY <2>3, <2>4
<1>3. /\ \A b \in X : b \in Int /\ b >= 0
      /\ \A b \in t : b \in Int /\ b >= 0
  BY <1>1, W32Is
<1> HIDE DEF C_, t, y
<1>4. ASSUME NEW b \in 0 .. 31, b \in C_ PROVE b - 15 \in t <=> b - 15 \in X
  <2>1. CASE b < 15
    BY <1>3, <2>1
  <2>2. CASE b >= 15
    <3>1. b - 15 \in 0 .. 31 /\ (b - 15) - 15 = b - 30
      BY <2>2
    <3>2. b - 15 \in t <=> (b - 15 \in X) # (b - 30 \in X /\ b - 15 \in C_)
      BY <1>1, <3>1
    <3>3. ~(b - 30 \in X /\ b - 15 \in C_)
      <4>1. b - 30 \in X => b - 15 = 15 \/ b - 15 = 16
        BY <1>3
      <4> QED
        BY <4>1, MaskCBits DEF C_
    <3> QED
      BY <3>2, <3>3
  <2> QED
    BY <2>1, <2>2
<1>5. ASSUME NEW b \in 0 .. 31 PROVE b \in y <=> b \in X
  BY <1>1, <1>4
<1> QED
  BY <1>1, <1>5, SameBits DEF y, t, C_

(* Y is X up to bit n; what a turn of `again' makes of it is X up to bit n + 7. *)
Agree(X, Y, n) == \A b \in 0 .. 31 : b < n => (b \in X <=> b \in Y)

LEMMA AgainCloser ==
  ASSUME NEW X \in W32, NEW Y \in W32, NEW n \in Nat, Agree(X, Y, n), NEW M,
         NEW t, t = Left(X, X, 7, M)
  PROVE  /\ Left(t, Y, 7, M) \in W32
         /\ Agree(X, Left(t, Y, 7, M), n + 7)
<1> DEFINE y == Left(t, Y, 7, M)
<1>1. t \in W32 /\ \A b \in 0 .. 31 : b \in t <=> (b \in X) # (b - 7 \in X /\ b \in M)
  <2>1. 7 \in Nat
    OBVIOUS
  <2> QED
    BY <2>1, LeftBits
<1>2. y \in W32 /\ \A b \in 0 .. 31 : b \in y <=> (b \in t) # (b - 7 \in Y /\ b \in M)
  <2>1. 7 \in Nat
    OBVIOUS
  <2> QED
    BY <1>1, <2>1, LeftBits
<1> HIDE DEF y
<1>3. ASSUME NEW b \in 0 .. 31, b < n + 7 PROVE b \in X <=> b \in y
  <2>1. b - 7 \in X <=> b - 7 \in Y
    <3>1. CASE b < 7
      BY <3>1, W32Is
    <3>2. CASE b >= 7
      <4>1. b - 7 \in 0 .. 31 /\ b - 7 < n
        BY <1>3, <3>2
      <4> QED
        BY <4>1 DEF Agree
    <3> QED
      BY <3>1, <3>2
  <2> QED
    BY <1>1, <1>2, <2>1
<1>4. Agree(X, y, n + 7)
  BY <1>3 DEF Agree
<1> QED
  BY <1>2, <1>4 DEF y

LEMMA UndoneLeft7 ==
  ASSUME NEW X \in W32, NEW M, NEW t, t = Left(X, X, 7, M)
  PROVE  Left(t, Left(t, Left(t, Left(t, t, 7, M), 7, M), 7, M), 7, M) = X
<1> DEFINE again(y) == Left(t, y, 7, M)
<1>1. t \in W32 /\ \A b \in 0 .. 31 : b \in t <=> (b \in X) # (b - 7 \in X /\ b \in M)
  <2>1. 7 \in Nat
    OBVIOUS
  <2> QED
    BY <2>1, LeftBits
<1>2. Agree(X, t, 7)
  <2> SUFFICES ASSUME NEW b \in 0 .. 31, b < 7 PROVE b \in X <=> b \in t
    BY DEF Agree
  <2>1. b - 7 \notin X
    BY W32Is
  <2> QED
    BY <1>1, <2>1
<1>3. again(t) \in W32 /\ Agree(X, again(t), 7 + 7)
  BY <1>1, <1>2, AgainCloser
<1>4. again(again(t)) \in W32 /\ Agree(X, again(again(t)), 7 + 7 + 7)
  <2> HIDE DEF again
  <2>1. \A y \in W32 : Agree(X, y, 14) => again(y) \in W32 /\ Agree(X, again(y), 14 + 7)
    BY AgainCloser DEF again
  <2> QED
    BY <1>3, <2>1
<1>5. again(again(again(t))) \in W32 /\ Agree(X, again(again(again(t))), 28)
  <2> HIDE DEF again
  <2>1. \A y \in W32 : Agree(X, y, 21) => again(y) \in W32 /\ Agree(X, again(y), 21 + 7)
    BY AgainCloser DEF again
  <2> QED
    BY <1>4, <2>1
<1>6. again(again(again(again(t)))) \in W32 /\ Agree(X, again(again(again(again(t)))), 35)
  <2> HIDE DEF again
  <2>1. \A y \in W32 : Agree(X, y, 28) => again(y) \in W32 /\ Agree(X, again(y), 28 + 7)
    BY AgainCloser DEF again
  <2> QED
    BY <1>5, <2>1
<1> HIDE DEF again
<1>7. again(again(again(again(t)))) = X
  <2>1. \A b \in 0 .. 31 : b < 35
    OBVIOUS
  <2> QED
    BY <1>6, <2>1, SameBits DEF Agree
<1> QED
  BY <1>7 DEF again

(* RandBool has the words of its own module. *)
LEMMA RandWords ==
  /\ \A X, Y : R!Xor(X, Y) = Xor(X, Y)
  /\ \A w, X, k : R!Shl(w, X, k) = Shl(w, X, k)
  /\ \A X, k : R!Shr(X, k) = Shr(X, k)
  /\ \A w : R!Bits(w) = Bits(w)
  BY DEF R!Xor, Xor, R!Shl, Shl, R!Shr, Shr, R!Bits, Bits

LEMMA TemperUndone ==
  ASSUME NEW x \in W32
  PROVE  R!temper(x) \in W32 /\ R!Untempered(R!temper(x)) = x
<1> DEFINE B_ == R!MaskB
           C_ == R!MaskC
           x1 == Xor(x, Shr(x, 11))
           x2 == Left(x1, x1, 7, B_)
           x3 == Left(x2, x2, 15, C_)
           t == Xor(x3, Shr(x3, 18))
           y3 == Xor(t, Shr(t, 18))
           y2 == Left(y3, y3, 15, C_)
           again(y) == Left(y2, y, 7, B_)
           y1 == again(again(again(again(y2))))
<1>1. R!temper(x) = t
  BY RandWords DEF R!temper, Left
<1>2. R!Untempered(t) = Xor(Xor(y1, Shr(y1, 11)), Shr(y1, 22))
  <2> HIDE DEF t
  <2> QED
    BY RandWords DEF R!Untempered, Left
<1>3. 7 \in Nat /\ 11 \in Nat /\ 15 \in Nat /\ 18 \in Nat
  OBVIOUS
<1> HIDE DEF B_, C_
<1>4. x1 \in W32
  BY <1>3, W32Is
<1>5. x2 \in W32
  <2> HIDE DEF x1
  <2> QED
    BY <1>3, <1>4, LeftBits
<1>6. x3 \in W32
  <2> HIDE DEF x2
  <2> QED
    BY <1>3, <1>5, LeftBits
<1>7. t \in W32
  <2> HIDE DEF x3
  <2> QED
    BY <1>3, <1>6, W32Is
<1>8. y3 = x3
  <2> HIDE DEF x3
  <2> QED
    BY <1>6, UndoneRight18
<1>9. y2 = x2
  <2>1. y2 = Left(x3, x3, 15, C_)
    BY <1>8
  <2> HIDE DEF x2, y2
  <2> QED
    BY <1>5, <2>1, UndoneLeft15 DEF C_
<1>10. y1 = x1
  <2> HIDE DEF y2, x1
  <2> QED
    BY <1>4, <1>9, UndoneLeft7
<1> HIDE DEF y1
<1>11. Xor(Xor(y1, Shr(y1, 11)), Shr(y1, 22)) = x
  BY <1>10, UndoneRight11
<1> HIDE DEF t
<1> QED
  BY <1>1, <1>2, <1>7, <1>11
-----------------------------------------------------------------------------
(* The bits handed out. *)

Word0 == R!lcg64_temper(seed)

RandInv ==
  /\ gcount \in Nat /\ given \in Seq(BOOLEAN)
  /\ given = <<>> => gcount = 0
  /\ given # <<>> => /\ \A i \in DOMAIN given : given[i] <=> i - 1 \in Word0
                     /\ rbits = Shr(Word0, Len(given))
                     /\ Len(given) + gcount = 31

LEMMA DrawnWord ==
  ASSUME NEW s
  PROVE  /\ Shr(R!lcg64(s), 32) \in W32 /\ R!lcg64_temper(s) = R!temper(Shr(R!lcg64(s), 32))
         /\ R!lcg64_temper(s) \in W32
<1>1. R!lcg64(s) \subseteq 0 .. 63
  BY DEF R!lcg64, R!Plus, R!Bits
<1>2. PICK X : X = R!lcg64(s)
  OBVIOUS
<1>3. Shr(X, 32) \subseteq 0 .. 31
  BY <1>1, <1>2 DEF Shr
<1>4. Shr(X, 32) \in W32
  BY <1>3 DEF W32, Bits
<1>5. R!lcg64_temper(s) = R!temper(Shr(R!lcg64(s), 32))
  BY RandWords DEF R!lcg64_temper
<1> QED
  BY <1>2, <1>4, <1>5, TemperUndone

LEMMA NextBits ==
  ASSUME NEW X \in W32, NEW n \in Nat
  PROVE  Shr(Shr(X, n), 1) = Shr(X, n + 1) /\ (0 \in Shr(X, n) <=> n \in X)
<1>1. X \in SUBSET Int /\ Shr(X, n) \in W32 /\ Shr(X, n) \in SUBSET Int
      /\ Shr(Shr(X, n), 1) \in W32 /\ Shr(X, n + 1) \in W32
  <2>1. 1 \in Nat /\ n + 1 \in Nat
    OBVIOUS
  <2> QED
    BY <2>1, W32Is
<1>2. ASSUME NEW b \in 0 .. 31 PROVE b \in Shr(Shr(X, n), 1) <=> b \in Shr(X, n + 1)
  <2>1. b \in Shr(Shr(X, n), 1) <=> b + 1 \in Shr(X, n)
    BY <1>1, ShrIs
  <2>2. b + 1 \in Shr(X, n) <=> (b + 1) + n \in X
    BY <1>1, ShrIs
  <2>3. b \in Shr(X, n + 1) <=> b + (n + 1) \in X
    BY <1>1, ShrIs
  <2>4. (b + 1) + n = b + (n + 1)
    OBVIOUS
  <2> QED
    BY <2>1, <2>2, <2>3, <2>4
<1>3. 0 \in Shr(X, n) <=> 0 + n \in X
  BY <1>1, ShrIs
<1> QED
  BY <1>1, <1>2, <1>3, SameBits

LEMMA RandStep ==
  ASSUME RandInv, R!rand_bool
  PROVE  RandInv'
<1>1. CASE gcount = 0
  <2>1. PICK s \in Seeds : /\ seed' = s /\ gcount' = 31 - 1
                           /\ rbits' = Shr(R!lcg64_temper(s), 1)
                           /\ given' = <<0 \in R!lcg64_temper(s)>>
    BY <1>1, RandWords DEF R!rand_bool, R!Refill, R!Take
  <2>2. Word0' = R!lcg64_temper(s)
    BY <2>1 DEF Word0
  <2>3. Word0' \in W32
    BY <2>2, DrawnWord
  <2>4. /\ given' \in Seq(BOOLEAN) /\ Len(given') = 1 /\ given' # <<>>
        /\ \A i \in DOMAIN given' : i = 1 /\ given'[i] = (0 \in Word0')
    BY <2>1, <2>2
  <2>5. rbits' = Shr(Word0', Len(given')) /\ gcount' = 30 /\ Len(given') + gcount' = 31
    BY <2>1, <2>2, <2>4
  <2>6. \A i \in DOMAIN given' : given'[i] <=> i - 1 \in Word0'
    <3>1. 1 - 1 = 0
      OBVIOUS
    <3> QED
      BY <2>4, <3>1
  <2>7. gcount' \in Nat
    BY <2>5
  <2> QED
    BY <2>4, <2>5, <2>6, <2>7 DEF RandInv
<1>2. CASE gcount # 0
  <2>1. /\ gcount' = gcount - 1 /\ rbits' = Shr(rbits, 1)
        /\ given' = Append(given, 0 \in rbits) /\ seed' = seed
    BY <1>2, RandWords DEF R!rand_bool, R!Take
  <2>2. /\ given # <<>> /\ given \in Seq(BOOLEAN) /\ Len(given) \in Nat
        /\ \A i \in DOMAIN given : given[i] <=> i - 1 \in Word0
        /\ rbits = Shr(Word0, Len(given)) /\ Len(given) + gcount = 31
    BY <1>2 DEF RandInv
  <2>3. Word0' = Word0 /\ Word0 \in W32
    BY <2>1, DrawnWord DEF Word0
  <2>4. /\ given' \in Seq(BOOLEAN) /\ Len(given') = Len(given) + 1 /\ given' # <<>>
        /\ \A i \in DOMAIN given : given'[i] = given[i]
        /\ given'[Len(given) + 1] = (0 \in rbits)
        /\ \A i \in DOMAIN given' : i \in DOMAIN given \/ i = Len(given) + 1
    BY <2>1, <2>2
  <2>5. rbits' = Shr(Word0, Len(given) + 1) /\ (0 \in rbits <=> Len(given) \in Word0)
    BY <2>1, <2>2, <2>3, NextBits
  <2>6. ASSUME NEW i \in DOMAIN given' PROVE given'[i] <=> i - 1 \in Word0
    <3>1. CASE i \in DOMAIN given
      BY <2>2, <2>4, <3>1
    <3>2. CASE i = Len(given) + 1
      <4>1. i - 1 = Len(given)
        BY <2>2, <3>2
      <4> QED
        BY <2>4, <2>5, <3>2, <4>1
    <3> QED
      BY <2>4, <3>1, <3>2
  <2> QED
    BY <1>2, <2>1, <2>2, <2>3, <2>4, <2>5, <2>6 DEF RandInv
<1> QED
  BY <1>1, <1>2

RandWhole == part = "rand" => RandInv

(* EachBitOnce for any seeds: rand_bool hands out the lowest 31 bits of one tempered
   word in order, and no two words are tempered to the same. *)
THEOREM RandEachBitOnce == HelpersSpec => []EachBitOnce
<1>1. HelpersInit => RandWhole
  BY DEF HelpersInit, RandWhole, R!Init, RandInv
<1>2. RandWhole /\ [HelpersNext]_<<part, vars, scalableVars, hashVars, randVars, clVars>>
        => RandWhole'
  <2> SUFFICES ASSUME RandWhole, part' = "rand",
                      [HelpersNext]_<<part, vars, scalableVars, hashVars, randVars, clVars>>
               PROVE  RandInv'
    BY DEF RandWhole
  <2>1. RandInv
    BY DEF RandWhole, HelpersNext
  <2>2. R!rand_bool \/ UNCHANGED randVars
    BY DEF HelpersNext, R!Next
  <2>3. CASE UNCHANGED randVars
    BY <2>1, <2>3 DEF randVars, RandInv, Word0
  <2> QED
    BY <2>1, <2>2, <2>3, RandStep
<1>3. RandWhole => EachBitOnce
  <2> SUFFICES ASSUME RandInv, given # <<>>
               PROVE  R!EachBitOnce
    BY DEF RandWhole, EachBitOnce, R!EachBitOnce
  <2> DEFINE high == Shr(R!lcg64(seed), 32)
  <2>1. high \in W32 /\ Word0 = R!temper(high)
    BY DrawnWord DEF Word0
  <2>2. R!Untempered(R!temper(high)) = high
    <3> HIDE DEF high
    <3> QED
      BY <2>1, TemperUndone
  <2>3. R!Shr(R!lcg64(seed), 32) = high /\ R!Shr(Word0, Len(given)) = Shr(Word0, Len(given))
    BY RandWords
  <2> HIDE DEF high
  <2>4. /\ \A i \in DOMAIN given : given[i] <=> i - 1 \in R!temper(high)
        /\ rbits = R!Shr(R!temper(high), Len(given)) /\ Len(given) + gcount = R!Refill
    BY <2>1, <2>3 DEF RandInv, R!Refill
  <2> QED
    BY <2>2, <2>3, <2>4 DEF R!EachBitOnce
<1> QED
  BY <1>1, <1>2, <1>3, PTL DEF HelpersSpec
=============================================================================
