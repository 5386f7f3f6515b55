-------------------------------- MODULE Mutex --------------------------------
(***************************************************************************)
(* What a lock promises: one owner at a time, and the owner's work on the  *)
(* data it guards (a counter) is done in one piece.                        *)
(***************************************************************************)
EXTENDS Integers

CONSTANTS Threads, NoOwner

VARIABLES
  owner,  \* the thread that holds the lock, or NoOwner
  total   \* the guarded counter

Init == owner = NoOwner /\ total = 0

Take(t) == owner = NoOwner /\ owner' = t /\ UNCHANGED total
Work(t) == owner = t /\ total' = total + 1 /\ UNCHANGED owner
Give(t) == owner = t /\ owner' = NoOwner /\ UNCHANGED total

Next == \E t \in Threads : Take(t) \/ Work(t) \/ Give(t)

Spec == Init /\ [][Next]_<<owner, total>>
=============================================================================
