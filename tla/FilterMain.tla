----------------------------- MODULE FilterMain ------------------------------
(***************************************************************************)
(* main of src/pmem.c: it inserts the words of a table in a CuckooFilter,  *)
(* compares the calls that returned 0 with the filter's count, and removes *)
(* the words again.  The table of the source is a placeholder; here it is  *)
(* any list of keys in Tables.                                             *)
(***************************************************************************)
EXTENDS CuckooFilter, Sequences

CONSTANT Tables

ASSUME TablesAssumption == \A t \in Tables : t \in Seq(Keys) /\ Len(t) < Word

VARIABLES
  words,          \* the table, fixed
  phase,          \* "start", "insert" or "delete": the loop main is in
  w,              \* its index
  insertedWords,
  exit,           \* what main returned, or -1
  count0          \* history: what filter.count was at first

mainVars == <<vars, words, phase, w, insertedWords, exit, count0>>

MainInit ==
  /\ Init /\ words \in Tables /\ count0 = count
  /\ phase = "start" /\ w = 1 /\ insertedWords = 0 /\ exit = -1

(* cf_new(&filter, 1000) *)
Start ==
  /\ phase = "start" /\ cf_new
  /\ phase' = "insert" /\ exit' = IF ret' = -1 THEN 1 ELSE -1
  /\ UNCHANGED <<w, insertedWords>>

(* if (cf_insert(&filter, words[i], ..) == 0) insertedWords++; *)
InsertWord ==
  /\ phase = "insert" /\ w <= Len(words)
  /\ cf_reinsert \/ cf_insert(words[w])
  /\ IF pc' = "idle"
     THEN w' = w + 1 /\ insertedWords' = insertedWords + (IF ret' = 0 THEN 1 ELSE 0)
     ELSE UNCHANGED <<w, insertedWords>>
  /\ UNCHANGED <<phase, exit>>

AtEnd(loop) == phase = loop /\ w > Len(words)

(* if (insertedWords != filter.count) return 1; *)
Compare ==
  /\ AtEnd("insert")
  /\ phase' = "delete" /\ w' = 1 /\ exit' = IF insertedWords # count THEN 1 ELSE -1
  /\ UNCHANGED <<vars, insertedWords>>

(* if (cf_delete(&filter, words[i], ..) != 0) return 1; *)
DeleteWord ==
  /\ phase = "delete" /\ w <= Len(words)
  /\ cf_delete(words[w])
  /\ w' = w + 1 /\ exit' = IF ret' # 0 THEN 1 ELSE -1
  /\ UNCHANGED <<phase, insertedWords>>

(* if (filter.count != 0) return 1; return 0; *)
Finish ==
  /\ AtEnd("delete")
  /\ exit' = IF count # 0 THEN 1 ELSE 0
  /\ UNCHANGED <<vars, phase, w, insertedWords>>

MainNext ==
  /\ exit = -1 /\ UNCHANGED <<words, count0>>
  /\ Start \/ InsertWord \/ Compare \/ DeleteWord \/ Finish

MainSpec == MainInit /\ [][MainNext]_mainVars
FairMain == MainSpec /\ WF_mainVars(MainNext)
-----------------------------------------------------------------------------
(* After the first loop main compares insertedWords with filter.count. *)
CountMatches == AtEnd("insert") => insertedWords = count

(* main reports success only by chance: no insert of a word counted as done, each one
   relocated and moved count, and count, which main leaves uninitialized, was at first
   what as many increments take to 0.  For a word to be in the table it must wrap. *)
PassesByChance ==
  exit = 0 => insertedWords = 0 /\ (count0 + Len(words)) % Word = 0

(* main returns, whatever the hash values: no sequence of relocations goes on for
   ever. *)
MainEnds == <>(exit # -1)
=============================================================================
