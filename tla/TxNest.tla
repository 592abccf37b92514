------------------------------- MODULE TxNest --------------------------------
(***************************************************************************)
(* What nested transactions promise, as HashmapTx and Queue rely on it:    *)
(* entering and leaving is counted, a failure at any depth fails all that  *)
(* encloses it, no work is done after one, and the outermost transaction   *)
(* commits exactly when nothing failed.                                    *)
(***************************************************************************)
EXTENDS Naturals

VARIABLES
  depth,    \* of the transactions that are open
  failed,   \* one of them has failed
  working,  \* the innermost does its work
  outcome   \* of the last outermost transaction

vars == <<depth, failed, working, outcome>>

Init == depth = 0 /\ failed = FALSE /\ working = FALSE /\ outcome = "none"

Enter ==
  /\ depth = 0 \/ working
  /\ depth' = depth + 1 /\ working' = TRUE
  /\ UNCHANGED <<failed, outcome>>

(* One that fails before it starts. *)
EnterFails ==
  /\ depth = 0 \/ working
  /\ depth' = depth + 1 /\ working' = FALSE /\ failed' = TRUE
  /\ outcome' = IF depth = 0 THEN "aborted" ELSE outcome

Fail ==
  /\ working
  /\ working' = FALSE /\ failed' = TRUE
  /\ outcome' = IF depth = 1 THEN "aborted" ELSE outcome
  /\ UNCHANGED depth

Finish ==
  /\ working /\ ~failed
  /\ working' = FALSE
  /\ outcome' = IF depth = 1 THEN "committed" ELSE outcome
  /\ UNCHANGED <<depth, failed>>

Leave ==
  /\ depth > 0 /\ ~working
  /\ depth' = depth - 1
  /\ working' = (depth > 1 /\ ~failed)
  /\ failed' = (depth > 1 /\ failed)
  /\ outcome' = IF depth = 2 /\ failed THEN "aborted" ELSE outcome

Next == Enter \/ EnterFails \/ Fail \/ Finish \/ Leave
Spec == Init /\ [][Next]_vars
=============================================================================
