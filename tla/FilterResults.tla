---------------------------- MODULE FilterResults ----------------------------
(***************************************************************************)
(* The results that the calls of a CuckooFilter may have, as functions of  *)
(* whether it is initialised (r) and of the keys it finds (fnd): the keys  *)
(* found afterwards, and the code.                                         *)
(***************************************************************************)
EXTENDS Integers

CONSTANT Keys

LookupCode(r, fnd, k) == IF ~r THEN -1 ELSE IF k \in fnd THEN 1 ELSE 0

InsertResults(r, fnd, k) ==
  IF ~r THEN {<<fnd, -1>>}
  ELSE {x \in (SUBSET Keys) \X {0, 1} : x[2] = 1 => k \in x[1]}

DeleteResults(r, fnd) ==
  IF ~r THEN {<<fnd, -1>>} ELSE (SUBSET fnd) \X {0, 1}

ResetResults(r, fnd) ==
  IF ~r THEN {<<fnd, -1>>} ELSE (SUBSET fnd) \X {0}
=============================================================================
