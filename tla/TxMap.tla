------------------------------- MODULE TxMap --------------------------------
(***************************************************************************)
(* What the persistent hash map promises: a set of key-value pairs, no key *)
(* twice, that calls change atomically.  Outside a client's transaction    *)
(* each call is durable by itself; inside one, all of them are when it     *)
(* commits, and a crash or any abort takes all of them back.               *)
(***************************************************************************)
EXTENDS Integers

CONSTANTS Keys, Vals, Null, Aborted

VARIABLES
  work,     \* the pairs the client sees
  durable,  \* the pairs a crash leaves
  inTx,     \* the client's transaction is open
  call,     \* the call in progress, or <<>>
  ret       \* what the last call returned, Null while one is in progress

vars == <<work, durable, inTx, call, ret>>

Init ==
  /\ work = {} /\ durable = {}
  /\ inTx = FALSE /\ call = <<>> /\ ret = Null

KeysOf(S) == {p[1] : p \in S}

Call ==
  /\ call = <<>>
  /\ call' \in ({"insert"} \X Keys \X Vals) \cup ({"remove"} \X Keys)
  /\ ret' = Null
  /\ UNCHANGED <<work, durable, inTx>>

(* The call in progress changes the pairs to S and returns r. *)
Effect(S, r) ==
  /\ work' = S
  /\ durable' = IF inTx THEN durable ELSE S
  /\ call' = <<>> /\ ret' = r
  /\ UNCHANGED inTx

Insert(k, v) ==
  /\ call = <<"insert", k, v>>
  /\ IF k \in KeysOf(work) THEN Effect(work, 1) ELSE Effect(work \cup {<<k, v>>}, 0)

Remove(k) ==
  /\ call = <<"remove", k>>
  /\ IF k \in KeysOf(work)
     THEN \E p \in work : p[1] = k /\ Effect(work \ {p}, p[2])
     ELSE Effect(work, Null)

(* A failing call: no effect outside a transaction, else the end of it. *)
Fail == ~inTx /\ call # <<>> /\ Effect(work, IF call[1] = "insert" THEN -1 ELSE Null)

(* Creating the map or rebuilding it changes no pair; a rebuild never turns the
   result of the call it is part of into a failure. *)
Other ==
  /\ call = <<>>
  /\ ret' \in {0, Null} \/ (ret = Null /\ ret' = -1)
  /\ UNCHANGED <<work, durable, inTx, call>>

Begin ==
  /\ ~inTx /\ call = <<>>
  /\ inTx' = TRUE
  /\ UNCHANGED <<work, durable, call, ret>>

Commit ==
  /\ inTx /\ call = <<>>
  /\ durable' = work /\ inTx' = FALSE
  /\ UNCHANGED <<work, call, ret>>

(* An abort of the client's transaction, or a crash. *)
Undo ==
  /\ work' = durable /\ inTx' = FALSE /\ call' = <<>>
  /\ ret' \in {ret} \cup (IF inTx THEN {Aborted} ELSE {})
  /\ UNCHANGED durable

Next ==
  \/ Call \/ Fail \/ Other \/ Begin \/ Commit \/ Undo
  \/ \E k \in Keys : Remove(k) \/ \E v \in Vals : Insert(k, v)

Spec == Init /\ [][Next]_vars
=============================================================================
