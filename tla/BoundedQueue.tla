---------------------------- MODULE BoundedQueue ----------------------------
(***************************************************************************)
(* What a descriptor ring promises: a first-in first-out queue of limited  *)
(* length, in which a descriptor appears whole.                            *)
(***************************************************************************)
EXTENDS Integers, Sequences

CONSTANTS Capacity, Descriptors

VARIABLE queue

Init == queue = <<>>

Enqueue(d) == Len(queue) < Capacity /\ queue' = Append(queue, d)
Dequeue == queue # <<>> /\ queue' = Tail(queue)

Next == Dequeue \/ \E d \in Descriptors : Enqueue(d)

Spec == Init /\ [][Next]_queue
=============================================================================
