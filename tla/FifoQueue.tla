----------------------------- MODULE FifoQueue ------------------------------
(***************************************************************************)
(* What the persistent queue promises: a bounded first-in first-out queue  *)
(* whose calls succeed with their whole effect or fail with none, and that *)
(* a crash leaves as the last successful call left it.                     *)
(***************************************************************************)
EXTENDS Integers, Sequences

CONSTANTS Data, Capacities

VARIABLES
  capacity,  \* -1 until the queue is created
  items,     \* the queued values, oldest first
  ret        \* what the last call returned

Init == capacity = -1 /\ items = <<>> /\ ret = 0

New ==
  /\ capacity = -1 /\ capacity' \in Capacities
  /\ ret' = 0 /\ UNCHANGED items

Enqueue(d) ==
  /\ Len(items) < capacity
  /\ items' = Append(items, d)
  /\ ret' = 0 /\ UNCHANGED capacity

Dequeue ==
  /\ items # <<>>
  /\ items' = Tail(items)
  /\ ret' = 0 /\ UNCHANGED capacity

(* A call that is refused or whose transaction aborts. *)
Fail == ret' = -1 /\ UNCHANGED <<capacity, items>>

Next == New \/ (\E d \in Data : Enqueue(d)) \/ Dequeue \/ Fail

Spec == Init /\ [][Next]_<<capacity, items, ret>>
=============================================================================
