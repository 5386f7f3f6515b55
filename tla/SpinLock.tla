------------------------------ MODULE SpinLock ------------------------------
(***************************************************************************)
(* A lock built from gate:spin (ACLM/codegen.py, _gate_spin) and released  *)
(* with ram:write (_mem_store), guarding a counter that its users read and *)
(* write back with ram:read and ram:write.                                 *)
(*                                                                         *)
(* The lock is taken by lock cmpxchg, but given back by a plain store, and *)
(* the language has no release operation.  So memory is modelled as x86    *)
(* has it: a store goes to the thread's store buffer and reaches memory    *)
(* later, in order; a locked instruction waits until the buffer is empty.  *)
(***************************************************************************)
EXTENDS Integers, Sequences, FiniteSets

CONSTANTS
  Threads,   \* the users of the lock
  NoOwner,   \* not a thread
  Rounds     \* bound: how often each thread takes the lock

ASSUME LockAssumption == NoOwner \notin Threads /\ Rounds \in Nat

VARIABLES
  mem,     \* shared memory: the lock word and the counter
  buf,     \* buf[t]: the stores of t that have not reached memory
  pc,      \* where each thread is
  reg,     \* the register the counter is incremented in
  round,   \* how often each thread has taken the lock
  incs     \* history: how many increments have been written

vars == <<mem, buf, pc, reg, round, incs>>

Cells == {"lock", "count"}
Write(c, v) == [cell |-> c, val |-> v]
Entries == [cell : Cells, val : Nat]

Init ==
  /\ mem = [c \in Cells |-> 0]
  /\ buf = [t \in Threads |-> <<>>]
  /\ pc = [t \in Threads |-> "idle"]
  /\ reg = [t \in Threads |-> 0]
  /\ round = [t \in Threads |-> 0]
  /\ incs = 0

Goto(t, l) == pc' = [pc EXCEPT ![t] = l]
Store(t, c, v) == buf' = [buf EXCEPT ![t] = Append(@, Write(c, v))]

-----------------------------------------------------------------------------
BeginSpin(t) ==
  /\ pc[t] = "idle" /\ round[t] < Rounds
  /\ round' = [round EXCEPT ![t] = @ + 1]
  /\ Goto(t, "spin")
  /\ UNCHANGED <<mem, buf, reg, incs>>

\* Fault variant: the comparison and the store of the new value are not one
\* locked instruction; the store is buffered like any other.
SpinUnlocked(t) ==
  /\ pc[t] = "spin" /\ mem["lock"] = 0
  /\ Store(t, "lock", 1)
  /\ Goto(t, "load")
  /\ UNCHANGED <<mem, reg, round, incs>>

\* Fault variant: the loop is left when the exchange fails.
SpinInverted(t) ==
  /\ pc[t] = "spin" /\ buf[t] = <<>>
  /\ mem["lock"] # 0
  /\ Goto(t, "load")
  /\ UNCHANGED <<mem, buf, reg, round, incs>>

\* Fault variant: the exchange does not look at the word it replaces.
SpinBlindly(t) ==
  /\ pc[t] = "spin" /\ buf[t] = <<>>
  /\ mem' = [mem EXCEPT !["lock"] = 1]
  /\ Goto(t, "load")
  /\ UNCHANGED <<buf, reg, round, incs>>

\* One round of the loop: xor rax; mov r12, 1; lock cmpxchg [r11], r12; jne.
\* A failed exchange changes nothing the loop does not set again.
SpinAcquire(t) ==
  /\ pc[t] = "spin" /\ buf[t] = <<>>
  /\ mem["lock"] = 0
  /\ mem' = [mem EXCEPT !["lock"] = 1]
  /\ Goto(t, "load")
  /\ UNCHANGED <<buf, reg, round, incs>>

\* ram:read of the counter; the buffer of t holds no newer value of it,
\* because the exchange has emptied it.
ReadCount(t) ==
  /\ pc[t] = "load"
  /\ reg' = [reg EXCEPT ![t] = mem["count"]]
  /\ Goto(t, "store")
  /\ UNCHANGED <<mem, buf, round, incs>>

WriteCount(t) ==
  /\ pc[t] = "store"
  /\ Store(t, "count", reg[t] + 1)
  /\ incs' = incs + 1
  /\ Goto(t, "unlock")
  /\ UNCHANGED <<mem, reg, round>>

\* Fault variant: the release overtakes the stores before it.
ReleaseEarly(t) ==
  /\ pc[t] = "unlock"
  /\ buf' = [buf EXCEPT ![t] = <<Write("lock", 0)>> \o @]
  /\ Goto(t, "idle")
  /\ UNCHANGED <<mem, reg, round, incs>>

\* ram:write of 0 to the lock word.
Release(t) ==
  /\ pc[t] = "unlock"
  /\ Store(t, "lock", 0)
  /\ Goto(t, "idle")
  /\ UNCHANGED <<mem, reg, round, incs>>

\* The processor writes the oldest buffered store of t to memory.
Drain(t) ==
  /\ buf[t] # <<>>
  /\ mem' = [mem EXCEPT ![Head(buf[t]).cell] = Head(buf[t]).val]
  /\ buf' = [buf EXCEPT ![t] = Tail(@)]
  /\ UNCHANGED <<pc, reg, round, incs>>

Step(t) == BeginSpin(t) \/ SpinAcquire(t) \/ ReadCount(t) \/ WriteCount(t) \/ Release(t)

Next == \E t \in Threads : Step(t) \/ Drain(t)

Spec == Init /\ [][Next]_vars

\* The operating system runs every thread and buffers empty by themselves.
FairSpec == Spec /\ \A t \in Threads : WF_vars(Step(t)) /\ WF_vars(Drain(t))

-----------------------------------------------------------------------------
(* Types; a buffer never holds more than the two stores of one round.      *)
TypeOK ==
  /\ mem \in [Cells -> Nat]
  /\ \A t \in Threads : Len(buf[t]) <= 2
  /\ buf \in [Threads -> Seq(Entries)]
  /\ pc \in [Threads -> {"idle", "spin", "load", "store", "unlock"}]
  /\ reg \in [Threads -> Nat]
  /\ round \in [Threads -> 0..Rounds]
  /\ incs \in Nat

InCritical(t) == pc[t] \in {"load", "store", "unlock"}

(* gate:spin lets one thread in at a time.                                 *)
MutualExclusion ==
  \A t, u \in Threads : InCritical(t) /\ InCritical(u) => t = u

(* Whoever finds the lock free finds every increment made before: the plain *)
(* store that releases the lock cannot be seen before the stores it covers. *)
ReleasePublishes == mem["lock"] = 0 => mem["count"] = incs

(* Somebody gets in: while a thread spins, increments go on being made.     *)
Progress ==
  \A n \in 0..(Rounds * Cardinality(Threads)) :
    incs = n /\ (\E t \in Threads : pc[t] = "spin") ~> incs > n

-----------------------------------------------------------------------------
(* The lock implements Mutex.  Its owner is the thread that is in its      *)
(* critical section or whose release has not reached memory.               *)
Holds(t) == InCritical(t) \/ buf[t] # <<>>

Owner == IF \E t \in Threads : Holds(t) THEN CHOOSE t \in Threads : Holds(t) ELSE NoOwner

Lock == INSTANCE Mutex WITH owner <- Owner, total <- incs

IsMutex == Lock!Spec
=============================================================================
