------------------------------ MODULE LockedRing ------------------------------
(***************************************************************************)
(* Several threads that push into one descriptor ring.  dma_ring_push takes *)
(* no lock of its own, and two pushes at once would write one slot; so the *)
(* threads take the lock of SpinLock around it (ACLM/codegen.py, _gate_spin *)
(* and _kernel_dma_ring_push).  Each holder pushes until there was room,   *)
(* and counts the descriptor in the counter the lock guards.  The main     *)
(* program has initialised the ring before it starts the threads; the      *)
(* consumer pops without the lock.                                         *)
(*                                                                         *)
(* The stores of a push are not buffered here: they come before the stores *)
(* of SpinLock in the holder's buffer, and the next holder's exchange      *)
(* succeeds only after all of these have been written, so that no producer *)
(* reads the ring before the last one's stores; what the consumer may see  *)
(* is as in DmaRing.                                                       *)
(***************************************************************************)
EXTENDS SpinLock, DmaRing

VARIABLE pushed  \* reg1 of the holder's last push: there was room

allVars == <<vars, ringVars, pushed>>

ASSUME LockedRingAssumption == MaxPush = Rounds * Cardinality(Threads)

LockedInit == Init /\ RingInit /\ pushed = FALSE

Initialise == (InitHead \/ InitTail \/ InitMask) /\ UNCHANGED <<vars, pushed>>
Started == ppc \notin {"init", "init_tail", "init_mask"}

Push == PushReadHead \/ PushReadTail \/ PushCheck \/ PushAddr \/ PushLen \/ PushHead

\* The lock is held from the exchange to the release; the push is made
\* between the load of the counter and the store.
HolderPushes(t) ==
  /\ pc[t] = "store" /\ ~pushed
  /\ Push
  /\ pushed' = (sent' # sent)
  /\ UNCHANGED vars

ThreadStep(t) ==
  /\ Started
  /\ \/ BeginSpin(t) \/ SpinAcquire(t) \/ ReadCount(t) \/ Release(t)
     \/ WriteCount(t) /\ pushed
  /\ pushed' = (pushed /\ pc[t] # "store")
  /\ UNCHANGED ringVars

Drains(t) == Drain(t) /\ UNCHANGED <<ringVars, pushed>>
Consumes == Consumer /\ UNCHANGED <<vars, pushed>>

LockedNext ==
  \/ Initialise \/ Consumes
  \/ \E t \in Threads : HolderPushes(t) \/ ThreadStep(t) \/ Drains(t)

LockedSpec == LockedInit /\ [][LockedNext]_allVars

\* The operating system runs the threads and the consumer, and buffers empty
\* by themselves.
FairLockedSpec ==
  /\ LockedSpec
  /\ WF_allVars(Initialise) /\ WF_allVars(Consumes)
  /\ \A t \in Threads :
       WF_allVars(HolderPushes(t)) /\ WF_allVars(ThreadStep(t)) /\ WF_allVars(Drains(t))
=============================================================================
