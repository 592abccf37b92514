------------------------------- MODULE Pmemobj -------------------------------
(***************************************************************************)
(* What the cache uses of libpmemobj's inline functions and macros besides *)
(* the control flow of transactions: PoolAccess, PoolWalks and TxStores.   *)
(* They share no state, so the initial state chooses one of the three and  *)
(* the others stay where they are.                                         *)
(***************************************************************************)
EXTENDS TxStores, Naturals

CONSTANTS
  Pools, Bases, Threads, Null, MaxCloses,   \* of PoolAccess
  Objs, Types, Heads, Counters, MaxChanges  \* of PoolWalks

ASSUME AccessAssumption ==
  Null \notin Pools /\ Null \notin Bases /\ MaxCloses \in Nat

VARIABLES
  part,
  base, closing, invalidate, pcache, calls, result,                         \* PoolAccess
  number, typeOf, lists, loop, of, var, nvar, changes, stayed, seen, wrong  \* PoolWalks

A == INSTANCE PoolAccess
W == INSTANCE PoolWalks

ASSUME WalkAssumption ==
  /\ Objs \subseteq Nat \ {0} /\ Counters \subseteq Nat
  /\ Types \subseteq DOMAIN W!Included(0).size  \* the headers declare them

accessVars == <<base, closing, invalidate, pcache, calls, result>>
walkVars == <<number, typeOf, lists, loop, of, var, nvar, changes, stayed, seen, wrong>>

Idle(v) == v = "idle"

IdleWalks ==
  /\ Idle(number) /\ Idle(typeOf) /\ Idle(lists) /\ Idle(loop) /\ Idle(of) /\ Idle(var)
  /\ Idle(nvar) /\ Idle(changes) /\ Idle(stayed) /\ Idle(seen) /\ Idle(wrong)
EmptyPool == before = <<>>

PartInit ==
  /\ Init /\ A!Init
  /\ \/ part = "access" /\ IdleWalks /\ EmptyPool
     \/ part = "walks" /\ W!Init /\ EmptyPool
     \/ part = "stores" /\ IdleWalks

PartNext ==
  /\ UNCHANGED part
  /\ \/ part = "access" /\ A!Next /\ UNCHANGED <<walkVars, vars>>
     \/ part = "walks" /\ W!Next /\ UNCHANGED <<accessVars, vars>>
     \/ part = "stores" /\ Next /\ UNCHANGED <<accessVars, walkVars>>

PartSpec == PartInit /\ [][PartNext]_<<part, accessVars, walkVars, vars>>
-----------------------------------------------------------------------------
(* PoolAccess: the address computed for an oid is inside its pool as it is mapped now. *)
DirectIsCurrent == A!DirectIsCurrent

(* PoolWalks: the loops visit each object once. *)
WalkVisitsOnce == part = "walks" => W!WalkVisitsOnce
=============================================================================
