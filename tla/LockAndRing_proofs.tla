-------------------------- MODULE LockAndRing_proofs --------------------------
(***************************************************************************)
(* The two structures that the parts of a program share in memory beside   *)
(* the block of the thread runtime.  The spin lock excludes, publishes and *)
(* implements Mutex, for any set of threads and any number of rounds, with *)
(* x86 store buffers.  The ring delivers every descriptor once, in order   *)
(* and whole, for every number of slots and of pushes.  A ring that threads *)
(* push into under the lock has both: each of its steps is one of the lock *)
(* or one of the ring.                                                     *)
(***************************************************************************)
EXTENDS LockedRing, SequenceTheorems, TLAPS

-----------------------------------------------------------------------------
(* The lock.                                                               *)

\* What is in flight while t holds the lock, stage by stage.
HolderStage(t) ==
  \/ pc[t] = "load" /\ buf[t] = <<>> /\ mem["count"] = incs
  \/ pc[t] = "store" /\ buf[t] = <<>> /\ mem["count"] = incs /\ reg[t] = incs
  \/ pc[t] = "unlock" /\ buf[t] = <<>> /\ mem["count"] = incs
  \/ pc[t] = "unlock" /\ buf[t] = <<Write("count", incs)>>
  \/ pc[t] \in {"idle", "spin"} /\ buf[t] = <<Write("count", incs), Write("lock", 0)>>
  \/ pc[t] \in {"idle", "spin"} /\ buf[t] = <<Write("lock", 0)>> /\ mem["count"] = incs

\* TypeOK without the length of the buffers, which HolderStage gives.
PlainTypes ==
  /\ mem \in [Cells -> Nat]
  /\ buf \in [Threads -> Seq(Entries)]
  /\ pc \in [Threads -> {"idle", "spin", "load", "store", "unlock"}]
  /\ reg \in [Threads -> Nat]
  /\ round \in [Threads -> 0..Rounds]
  /\ incs \in Nat

\* The inductive invariant: at most one thread holds the lock, the lock word
\* is 1 exactly while one does, and a free lock means nothing is in flight.
LockInv ==
  /\ PlainTypes
  /\ mem["lock"] \in {0, 1}
  /\ \A t \in Threads : Holds(t) => HolderStage(t) /\ mem["lock"] = 1
  /\ \A t, u \in Threads : Holds(t) /\ Holds(u) => t = u
  /\ mem["lock"] = 1 => \E t \in Threads : Holds(t)
  /\ mem["lock"] = 0 => mem["count"] = incs

LEMMA WriteIs ==
  ASSUME NEW c \in Cells, NEW v \in Nat
  PROVE  Write(c, v) \in Entries /\ Write(c, v).cell = c /\ Write(c, v).val = v
BY DEF Write, Entries

LEMMA Buffers ==
  ASSUME NEW a \in Entries, NEW b \in Entries
  PROVE  /\ Append(<<>>, a) = <<a>> /\ Append(<<a>>, b) = <<a, b>>
         /\ Head(<<a>>) = a /\ Tail(<<a>>) = <<>>
         /\ Head(<<a, b>>) = a /\ Tail(<<a, b>>) = <<b>>
         /\ <<a>> # <<>> /\ <<a, b>> # <<>>
         /\ <<>> \in Seq(Entries) /\ <<a>> \in Seq(Entries) /\ <<a, b>> \in Seq(Entries)
         /\ Len(<<>>) = 0 /\ Len(<<a>>) = 1 /\ Len(<<a, b>>) = 2
<1>1. Append(<<a>>, b) = <<a, b>>
  <2>1. Append(<<a>>, b) \in Seq(Entries) /\ <<a, b>> \in Seq(Entries)
    OBVIOUS
  <2>2. Len(Append(<<a>>, b)) = 2 /\ Len(<<a, b>>) = 2
    OBVIOUS
  <2>3. \A i \in 1..2 : Append(<<a>>, b)[i] = <<a, b>>[i]
    <3>1. Append(<<a>>, b)[1] = a /\ Append(<<a>>, b)[2] = b
      OBVIOUS
    <3> QED BY <3>1
  <2> QED BY <2>1, <2>2, <2>3, SeqEqual
<1>2. Append(<<>>, a) = <<a>>
  OBVIOUS
<1>3. Head(<<a>>) = a /\ Tail(<<a>>) = <<>>
  OBVIOUS
<1>4. Head(<<a, b>>) = a /\ Tail(<<a, b>>) = <<b>>
  OBVIOUS
<1>5. <<a>> # <<>> /\ <<a, b>> # <<>>
  OBVIOUS
<1>6. <<>> \in Seq(Entries) /\ <<a>> \in Seq(Entries) /\ <<a, b>> \in Seq(Entries)
  OBVIOUS
<1>7. Len(<<>>) = 0 /\ Len(<<a>>) = 1 /\ Len(<<a, b>>) = 2
  OBVIOUS
<1> QED BY <1>1, <1>2, <1>3, <1>4, <1>5, <1>6, <1>7

LEMMA LockInit == Init => LockInv
BY LockAssumption, EmptySeq DEF Init, LockInv, PlainTypes, Holds, InCritical, Cells

(* The four ways a step of one thread t can touch the lock: t works while  *)
(* it holds it, takes it, gives it back, or has nothing to do with it.     *)
LEMMA OneThreadMoves ==
  ASSUME LockInv, PlainTypes', NEW t \in Threads,
         \A u \in Threads \ {t} :
           pc'[u] = pc[u] /\ buf'[u] = buf[u] /\ reg'[u] = reg[u],
         \/ /\ Holds(t) /\ Holds(t)' /\ HolderStage(t)' /\ mem'["lock"] = mem["lock"]
         \/ /\ ~ Holds(t) /\ mem["lock"] = 0
            /\ Holds(t)' /\ HolderStage(t)' /\ mem'["lock"] = 1
         \/ /\ Holds(t)
            /\ ~ Holds(t)' /\ mem'["lock"] = 0 /\ mem'["count"] = incs'
         \/ /\ ~ Holds(t) /\ ~ Holds(t)' /\ mem' = mem /\ incs' = incs
  PROVE  LockInv'
<1>1. \A u \in Threads \ {t} : Holds(u)' <=> Holds(u)
  BY DEF Holds, InCritical
<1>2. CASE Holds(t)
  <2>1. \A u \in Threads : Holds(u) => u = t
    BY <1>2 DEF LockInv
  <2> QED BY <1>1, <1>2, <2>1 DEF LockInv
<1>3. CASE ~ Holds(t) /\ mem["lock"] = 0 /\ Holds(t)' /\ HolderStage(t)' /\ mem'["lock"] = 1
  <2>1. \A u \in Threads : ~ Holds(u)
    BY <1>3 DEF LockInv
  <2> QED BY <1>1, <1>3, <2>1 DEF LockInv
<1>4. CASE ~ Holds(t) /\ ~ Holds(t)' /\ mem' = mem /\ incs' = incs
  <2>1. \A u \in Threads : Holds(u)' <=> Holds(u)
    BY <1>1, <1>4
  <2>2. \A u \in Threads : Holds(u) => (HolderStage(u) <=> HolderStage(u)')
    BY <1>4 DEF HolderStage
  <2> QED BY <1>4, <2>1, <2>2 DEF LockInv
<1> QED BY <1>2, <1>3, <1>4

LEMMA LockStep ==
  ASSUME LockInv, [Next]_vars
  PROVE  LockInv'
<1> USE DEF PlainTypes, Goto
<1>0. PlainTypes
  BY DEF LockInv
<1>1. ASSUME NEW t \in Threads, BeginSpin(t) PROVE LockInv'
  <2>1. PlainTypes'
    BY <1>0, <1>1, LockAssumption DEF BeginSpin
  <2>2. CASE Holds(t)
    <3>1. Holds(t)' /\ HolderStage(t)'
      BY <1>0, <1>1, <2>2 DEF BeginSpin, LockInv, HolderStage, Holds, InCritical
    <3> QED BY <1>0, <1>1, <2>1, <2>2, <3>1, OneThreadMoves DEF BeginSpin
  <2>3. CASE ~ Holds(t)
    <3>1. ~ Holds(t)'
      BY <1>0, <1>1, <2>3 DEF BeginSpin, Holds, InCritical
    <3> QED BY <1>0, <1>1, <2>1, <2>3, <3>1, OneThreadMoves DEF BeginSpin
  <2> QED BY <2>2, <2>3
<1>2. ASSUME NEW t \in Threads, SpinAcquire(t) PROVE LockInv'
  <2>1. PlainTypes' /\ mem'["lock"] = 1
    BY <1>0, <1>2 DEF SpinAcquire, Cells
  <2>2. ~ Holds(t)
    BY <1>2 DEF SpinAcquire, Holds, InCritical
  <2>3. Holds(t)' /\ HolderStage(t)'
    BY <1>0, <1>2 DEF SpinAcquire, LockInv, HolderStage, Holds, InCritical, Cells
  <2> QED BY <1>0, <1>2, <2>1, <2>2, <2>3, OneThreadMoves DEF SpinAcquire
<1>3. ASSUME NEW t \in Threads, ReadCount(t) PROVE LockInv'
  <2>1. PlainTypes'
    BY <1>0, <1>3 DEF ReadCount, Cells
  <2>2. Holds(t) /\ Holds(t)' /\ HolderStage(t)'
    BY <1>0, <1>3 DEF ReadCount, LockInv, HolderStage, Holds, InCritical
  <2> QED BY <1>0, <1>3, <2>1, <2>2, OneThreadMoves DEF ReadCount
<1>4. ASSUME NEW t \in Threads, WriteCount(t) PROVE LockInv'
  <2>1. Holds(t) /\ buf[t] = <<>> /\ reg[t] = incs
    BY <1>4 DEF WriteCount, LockInv, HolderStage, Holds, InCritical
  <2>2. buf' = [buf EXCEPT ![t] = <<Write("count", incs')>>]
    BY <1>0, <1>4, <2>1, WriteIs, Buffers DEF WriteCount, Store, Cells
  <2>5. <<Write("count", incs')>> \in Seq(Entries) /\ incs' \in Nat
    BY <1>0, <1>4, WriteIs, Buffers DEF WriteCount, Cells
  <2>3. PlainTypes'
    BY <1>0, <1>4, <2>2, <2>5 DEF WriteCount
  <2>4. Holds(t)' /\ HolderStage(t)'
    BY <1>0, <1>4, <2>2 DEF WriteCount, HolderStage, Holds, InCritical
  <2> QED BY <1>0, <1>4, <2>1, <2>2, <2>3, <2>4, OneThreadMoves DEF WriteCount
<1>5. ASSUME NEW t \in Threads, Release(t) PROVE LockInv'
  <2>1. Holds(t) /\ \/ buf[t] = <<>> /\ mem["count"] = incs
                    \/ buf[t] = <<Write("count", incs)>>
    BY <1>5 DEF Release, LockInv, HolderStage, Holds, InCritical
  <2>2. Write("count", incs) \in Entries /\ Write("lock", 0) \in Entries
    BY <1>0, WriteIs DEF Cells
  <2>3. \/ buf' = [buf EXCEPT ![t] = <<Write("lock", 0)>>] /\ mem["count"] = incs
        \/ buf' = [buf EXCEPT ![t] = <<Write("count", incs), Write("lock", 0)>>]
    BY <1>5, <2>1, <2>2, Buffers DEF Release, Store
  <2>4. /\ <<Write("lock", 0)>> # <<>> /\ <<Write("count", incs), Write("lock", 0)>> # <<>>
        /\ <<Write("lock", 0)>> \in Seq(Entries)
        /\ <<Write("count", incs), Write("lock", 0)>> \in Seq(Entries)
    BY <2>2, Buffers
  <2>5. PlainTypes'
    BY <1>0, <1>5, <2>3, <2>4 DEF Release
  <2>6. Holds(t)' /\ HolderStage(t)'
    BY <1>0, <1>5, <2>3, <2>4 DEF Release, HolderStage, Holds, InCritical
  <2> QED BY <1>0, <1>5, <2>1, <2>3, <2>5, <2>6, OneThreadMoves DEF Release
<1>6. ASSUME NEW t \in Threads, Drain(t) PROVE LockInv'
  <2>0. Holds(t) /\ HolderStage(t) /\ mem["lock"] = 1
    BY <1>6 DEF Drain, LockInv, Holds
  <2>1. /\ Write("count", incs) \in Entries /\ Write("lock", 0) \in Entries
        /\ Write("count", incs).cell = "count" /\ Write("count", incs).val = incs
        /\ Write("lock", 0).cell = "lock" /\ Write("lock", 0).val = 0
    BY <1>0, WriteIs DEF Cells
  <2>9. <<>> \in Seq(Entries) /\ <<Write("lock", 0)>> \in Seq(Entries) /\ <<Write("lock", 0)>> # <<>>
    BY <2>1, Buffers
  <2>2. CASE pc[t] = "unlock" /\ buf[t] = <<Write("count", incs)>>
    <3>1. mem' = [mem EXCEPT !["count"] = incs] /\ buf' = [buf EXCEPT ![t] = <<>>]
      BY <1>6, <2>1, <2>2, Buffers DEF Drain
    <3>2. PlainTypes' /\ mem'["lock"] = mem["lock"] /\ mem'["count"] = incs'
      <4>1. mem' \in [Cells -> Nat] /\ mem'["lock"] = mem["lock"] /\ mem'["count"] = incs
        BY <1>0, <3>1 DEF Cells
      <4>2. buf' \in [Threads -> Seq(Entries)]
        BY <1>0, <2>9, <3>1
      <4> QED BY <1>0, <1>6, <4>1, <4>2 DEF Drain
    <3>3. Holds(t)' /\ HolderStage(t)'
      BY <1>0, <1>6, <2>2, <3>1, <3>2 DEF Drain, Holds, InCritical, HolderStage
    <3> QED BY <1>0, <1>6, <2>0, <3>1, <3>2, <3>3, OneThreadMoves DEF Drain
  <2>3. CASE pc[t] \in {"idle", "spin"} /\ buf[t] = <<Write("count", incs), Write("lock", 0)>>
    <3>1. mem' = [mem EXCEPT !["count"] = incs] /\ buf' = [buf EXCEPT ![t] = <<Write("lock", 0)>>]
      BY <1>6, <2>1, <2>3, Buffers DEF Drain
    <3>3. PlainTypes' /\ mem'["lock"] = mem["lock"] /\ mem'["count"] = incs'
      <4>1. mem' \in [Cells -> Nat] /\ mem'["lock"] = mem["lock"] /\ mem'["count"] = incs
        BY <1>0, <3>1 DEF Cells
      <4>2. buf' \in [Threads -> Seq(Entries)]
        BY <1>0, <2>9, <3>1
      <4> QED BY <1>0, <1>6, <4>1, <4>2 DEF Drain
    <3>4. Holds(t)' /\ HolderStage(t)'
      BY <1>0, <1>6, <2>3, <2>9, <3>1, <3>3 DEF Drain, Holds, InCritical, HolderStage
    <3> QED BY <1>0, <1>6, <2>0, <3>1, <3>3, <3>4, OneThreadMoves DEF Drain
  <2>4. CASE pc[t] \in {"idle", "spin"} /\ buf[t] = <<Write("lock", 0)>> /\ mem["count"] = incs
    <3>1. mem' = [mem EXCEPT !["lock"] = 0] /\ buf' = [buf EXCEPT ![t] = <<>>]
      BY <1>6, <2>1, <2>4, Buffers DEF Drain
    <3>2. PlainTypes' /\ mem'["lock"] = 0 /\ mem'["count"] = incs'
      <4>1. mem' \in [Cells -> Nat] /\ mem'["lock"] = 0 /\ mem'["count"] = incs
        BY <1>0, <2>4, <3>1 DEF Cells
      <4>2. buf' \in [Threads -> Seq(Entries)]
        BY <1>0, <2>9, <3>1
      <4> QED BY <1>0, <1>6, <4>1, <4>2 DEF Drain
    <3>3. ~ Holds(t)'
      BY <1>0, <1>6, <2>4, <3>1 DEF Drain, Holds, InCritical
    <3> QED BY <1>0, <1>6, <2>0, <3>1, <3>2, <3>3, OneThreadMoves DEF Drain
  <2>5. buf[t] # <<>>
    BY <1>6 DEF Drain
  <2> QED BY <2>0, <2>2, <2>3, <2>4, <2>5 DEF HolderStage
<1>7. CASE UNCHANGED vars
  BY <1>7 DEF vars, LockInv, Holds, InCritical, HolderStage
<1> QED BY <1>1, <1>2, <1>3, <1>4, <1>5, <1>6, <1>7 DEF Next, Step

LEMMA LockInvariant == Spec => []LockInv
BY LockInit, LockStep, PTL DEF Spec

(* The types, and no buffer with more than the two stores of one round.    *)
THEOREM TypeCorrect == Spec => []TypeOK
<1>1. LockInv => TypeOK
  <2> SUFFICES ASSUME LockInv PROVE TypeOK
    OBVIOUS
  <2>1. PlainTypes
    BY DEF LockInv
  <2>2. ASSUME NEW t \in Threads PROVE Len(buf[t]) <= 2
    <3>1. Write("count", incs) \in Entries /\ Write("lock", 0) \in Entries
      BY <2>1, WriteIs DEF PlainTypes, Cells
    <3>2. buf[t] = <<>> \/ HolderStage(t)
      BY DEF LockInv, Holds
    <3>3. CASE buf[t] = <<>>
      BY <3>1, <3>3, Buffers
    <3>4. CASE buf[t] = <<Write("count", incs)>>
      BY <3>1, <3>4, Buffers
    <3>5. CASE buf[t] = <<Write("lock", 0)>>
      BY <3>1, <3>5, Buffers
    <3>6. CASE buf[t] = <<Write("count", incs), Write("lock", 0)>>
      BY <3>1, <3>6, Buffers
    <3> QED BY <3>2, <3>3, <3>4, <3>5, <3>6 DEF HolderStage
  <2> QED BY <2>1, <2>2 DEF TypeOK, PlainTypes
<1> QED BY <1>1, LockInvariant, PTL

(* At most one thread is past gate:spin.                                   *)
THEOREM SpinExcludes == Spec => []MutualExclusion
<1>1. LockInv => MutualExclusion
  BY DEF LockInv, MutualExclusion, Holds
<1> QED BY <1>1, LockInvariant, PTL

(* Releasing by a plain store publishes all the holder wrote.              *)
THEOREM ReleaseIsEnough == Spec => []ReleasePublishes
<1>1. LockInv => ReleasePublishes
  BY DEF LockInv, ReleasePublishes
<1> QED BY <1>1, LockInvariant, PTL

-----------------------------------------------------------------------------
LEMMA OwnerIs ==
  ASSUME LockInv, NEW t \in Threads, Holds(t)
  PROVE  Owner = t
BY DEF LockInv, Owner

LEMMA NoOwnerIs ==
  ASSUME LockInv, mem["lock"] = 0
  PROVE  Owner = NoOwner
BY DEF LockInv, Owner

LEMMA OwnerSame ==
  ASSUME \A t \in Threads : Holds(t)' <=> Holds(t)
  PROVE  Owner' = Owner
BY DEF Owner

LEMMA MutexStep ==
  ASSUME LockInv, LockInv', [Next]_vars
  PROVE  [Lock!Next]_<<Owner, incs>>
<1> USE DEF Lock!Next, Lock!Take, Lock!Work, Lock!Give
<1>1. ASSUME NEW t \in Threads, SpinAcquire(t) PROVE Lock!Take(t)
  <2>1. Owner = NoOwner
    BY <1>1, NoOwnerIs DEF SpinAcquire
  <2>2. Holds(t)'
    BY <1>1 DEF SpinAcquire, Goto, Holds, InCritical, LockInv, PlainTypes
  <2>3. Owner' = t
    BY <2>2 DEF LockInv, Owner
  <2> QED BY <1>1, <2>1, <2>3 DEF SpinAcquire
<1>2. ASSUME NEW t \in Threads, WriteCount(t) PROVE Lock!Work(t)
  <2>1. Holds(t) /\ Holds(t)'
    BY <1>2 DEF WriteCount, Goto, Holds, InCritical, LockInv, PlainTypes
  <2>2. Owner = t /\ Owner' = t
    BY <2>1 DEF LockInv, Owner
  <2> QED BY <1>2, <2>2 DEF WriteCount
<1>3. ASSUME NEW t \in Threads, Drain(t) PROVE Lock!Give(t) \/ UNCHANGED <<Owner, incs>>
  <2>1. Holds(t) /\ Owner = t /\ incs' = incs
    BY <1>3, OwnerIs DEF Drain, Holds
  <2>2. CASE Holds(t)'
    BY <2>1, <2>2 DEF LockInv, Owner
  <2>3. CASE ~ Holds(t)'
    <3>1. \A u \in Threads : ~ Holds(u)'
      BY <1>3, <2>1, <2>3 DEF Drain, LockInv, PlainTypes, Holds, InCritical
    <3>2. Owner' = NoOwner
      BY <3>1 DEF Owner
    <3> QED BY <2>1, <3>2
  <2> QED BY <2>2, <2>3
<1>4. ASSUME NEW t \in Threads, BeginSpin(t) \/ ReadCount(t) \/ Release(t)
      PROVE  UNCHANGED <<Owner, incs>>
  <2>1. \A u \in Threads : Holds(u)' <=> Holds(u)
    <3>1. CASE BeginSpin(t) \/ ReadCount(t)
      <4>1. buf' = buf /\ \A u \in Threads : InCritical(u)' <=> InCritical(u)
        BY <3>1 DEF BeginSpin, ReadCount, Goto, InCritical, LockInv, PlainTypes
      <4> QED BY <4>1 DEF Holds
    <3>2. CASE Release(t)
      <4>3. Append(buf[t], Write("lock", 0)) # <<>>
        <5>1. Write("lock", 0) \in Entries /\ buf[t] \in Seq(Entries)
          BY WriteIs DEF Cells, LockInv, PlainTypes
        <5> QED BY <5>1, AppendProperties
      <4> QED BY <3>2, <4>3 DEF Release, Store, Goto, Holds, InCritical, LockInv, PlainTypes
    <3> QED BY <1>4, <3>1, <3>2
  <2>2. Owner' = Owner
    BY <2>1, OwnerSame
  <2> QED BY <1>4, <2>2 DEF BeginSpin, ReadCount, Release
<1>5. CASE UNCHANGED vars
  BY <1>5, OwnerSame DEF vars, Holds, InCritical
<1> QED BY <1>1, <1>2, <1>3, <1>4, <1>5 DEF Next, Step

(* gate:spin, ram:write and the store buffers together implement Mutex.    *)
THEOREM SpinLockImplementsMutex == Spec => IsMutex
<1>1. Init => Lock!Init
  BY DEF Init, Lock!Init, Owner, Holds, InCritical
<1>2. LockInv /\ LockInv' /\ [Next]_vars => [Lock!Next]_<<Owner, incs>>
  BY MutexStep
<1> QED BY <1>1, <1>2, LockInvariant, PTL DEF Spec, IsMutex, Lock!Spec

-----------------------------------------------------------------------------
(* The ring.                                                               *)

Wrap(x) == IF x >= Slots THEN x - Slots ELSE x

LEMMA SlotsType == Slots \in Nat /\ Slots >= 2 /\ Mask = Slots - 1
BY RingAssumption DEF Mask

LEMMA ModSmall == ASSUME NEW n \in Nat \ {0}, NEW x \in 0..n-1 PROVE x % n = x
OBVIOUS

LEMMA ModOnce == ASSUME NEW n \in Nat \ {0}, NEW x \in n..2*n-1 PROVE x % n = x - n
OBVIOUS

(* The emitted "and" with the mask is a wrap-around.                       *)
LEMMA AndWraps ==
  ASSUME NEW x \in 0..2*Slots-1
  PROVE  And(x, Mask) = Wrap(x)
<1>1. And(x, Mask) = x % Slots
  <2>1. Mask + 1 = Slots
    BY SlotsType
  <2> QED BY <2>1 DEF And
<1>2. CASE x < Slots
  <2>1. Slots \in Nat \ {0} /\ x \in 0..Slots-1
    BY <1>2, SlotsType
  <2>2. x % Slots = x
    BY <2>1, ModSmall
  <2> QED BY <1>1, <1>2, <2>2, SlotsType DEF Wrap
<1>3. CASE x >= Slots
  <2>1. Slots \in Nat \ {0} /\ x \in Slots..2*Slots-1
    BY <1>3, SlotsType
  <2>2. x % Slots = x - Slots
    BY <2>1, ModOnce
  <2> QED BY <1>1, <1>3, <2>2, SlotsType DEF Wrap
<1> QED BY <1>2, <1>3, SlotsType

Next1(i) == IF i + 1 = Slots THEN 0 ELSE i + 1

LEMMA AndNext ==
  ASSUME NEW i \in Indices
  PROVE  And(i + 1, Mask) = Next1(i)
BY SlotsType, AndWraps DEF Indices, Wrap, Next1

Message(n) == [addr |-> n, len |-> n]
InInit == ppc \in {"init", "init_tail", "init_mask"}
Waiting == sent - received

\* Before the ring is initialised everything is zero and the consumer has
\* seen nothing else.
Blank ==
  /\ head = 0 /\ tail = 0 /\ mask = 0 /\ sent = 0 /\ received = 0
  /\ cpc \in {"idle", "tail", "check"} /\ chead = 0 /\ ctail = 0

\* The messages that wait are in the slots from tail to head.
Stored ==
  /\ Waiting \in 0..Slots-1
  /\ head = Wrap(tail + Waiting)
  /\ \A k \in 0..Waiting-1 : slot[Wrap(tail + k)] = Message(received + k + 1)

\* The producer knows head, and knows room once it has passed its check.
ProducerInv ==
  /\ ppc \in {"tail", "check", "addr", "len", "head"} => phead = head /\ sent < MaxPush
  /\ ppc = "check" => (Waiting = Slots - 1 => ptail = tail)
  /\ ppc \in {"addr", "len", "head"} => Waiting < Slots - 1
  /\ ppc \in {"len", "head"} => slot[head].addr = sent + 1
  /\ ppc = "head" => slot[head].len = sent + 1

\* The consumer knows tail, and knows of a message once past its check.
ConsumerInv ==
  /\ cpc \in {"check", "addr", "len", "free"} => ctail = tail
  /\ cpc \in {"tail", "check"} => (Waiting = 0 => chead = tail)
  /\ cpc \in {"addr", "len", "free"} => Waiting > 0
  /\ cpc \in {"len", "free"} => got.addr = received + 1
  /\ cpc = "free" => got.len = received + 1

\* The inductive invariant.
RingInv ==
  /\ RingTypeOK
  /\ InInit => Blank
  /\ ~ InInit => mask = Mask
  /\ Stored /\ ProducerInv /\ ConsumerInv

LEMMA RingBegins == RingInit => RingInv
<1> SUFFICES ASSUME RingInit PROVE RingInv
  OBVIOUS
<1> USE SlotsType
<1>1. RingTypeOK
  <2>1. Empty \in [addr : Nat, len : Nat] /\ 0 \in Indices
    BY DEF Empty, Indices
  <2> QED BY <2>1 DEF RingInit, RingTypeOK
<1>2. Waiting = 0 /\ head = 0 /\ tail = 0 /\ ppc = "init" /\ cpc = "idle" /\ InInit /\ Blank
  BY DEF RingInit, Waiting, InInit, Blank
<1>3. Stored /\ ProducerInv /\ ConsumerInv
  BY <1>2 DEF Stored, ProducerInv, ConsumerInv, Wrap
<1> QED BY <1>1, <1>2, <1>3 DEF RingInv

-----------------------------------------------------------------------------
LEMMA InitStep ==
  ASSUME RingInv, InitHead \/ InitTail \/ InitMask
  PROVE  RingInv'
BY SlotsType DEF InitHead, InitTail, InitMask, RingInv, RingTypeOK, InInit, Blank, Stored,
   ProducerInv, ConsumerInv, Indices, Waiting, Wrap, Message, cvars

LEMMA PushReadStep ==
  ASSUME RingInv, PushReadHead \/ PushReadTail
  PROVE  RingInv'
BY SlotsType DEF PushReadHead, PushReadTail, RingInv, RingTypeOK, InInit, Blank, Stored,
   ProducerInv, ConsumerInv, Indices, Waiting, Wrap, Message, cvars

LEMMA PushCheckStep ==
  ASSUME RingInv, PushCheck
  PROVE  RingInv'
<1> USE SlotsType DEF RingInv, RingTypeOK, InInit, cvars
<1>1. mask = Mask /\ phead = head
  BY DEF PushCheck, ProducerInv
<1>2. And(phead + 1, mask) = Next1(head)
  BY <1>1, AndNext
<1>3. ppc' = "addr" => Waiting < Slots - 1
  <2>1. ppc' = "addr" => Next1(head) # ptail
    BY <1>2 DEF PushCheck
  <2>2. Waiting = Slots - 1 => Next1(head) = tail
    BY DEF Stored, Wrap, Next1, Indices, Waiting
  <2> QED BY <2>1, <2>2 DEF PushCheck, ProducerInv, Stored, Waiting
<1>4. ProducerInv'
  BY <1>1, <1>3 DEF PushCheck, ProducerInv, Waiting
<1>5. RingTypeOK'
  BY DEF PushCheck
<1>6. Stored' /\ ConsumerInv'
  BY DEF PushCheck, Stored, ConsumerInv, Waiting
<1> QED BY <1>1, <1>4, <1>5, <1>6 DEF PushCheck

\* Writing the slot at head touches no waiting message.
LEMMA HeadSlotIsFree ==
  ASSUME RingInv, Waiting < Slots - 1
  PROVE  /\ head \in Indices
         /\ \A k \in 0..Waiting-1 : Wrap(tail + k) # head /\ Wrap(tail + k) \in Indices
BY SlotsType DEF RingInv, RingTypeOK, Stored, Indices, Wrap, Waiting

LEMMA PushStoreStep ==
  ASSUME RingInv, PushAddr \/ PushLen
  PROVE  RingInv'
<1> USE SlotsType DEF RingInv, RingTypeOK, InInit, cvars
<1>1. phead = head /\ Waiting < Slots - 1
  BY DEF PushAddr, PushLen, ProducerInv
<1>2. \A i \in Indices : i # head => slot'[i] = slot[i]
  BY <1>1 DEF PushAddr, PushLen
<1>3. RingTypeOK'
  BY <1>1 DEF PushAddr, PushLen
<1>4. Stored'
  BY <1>1, <1>2, HeadSlotIsFree DEF PushAddr, PushLen, Stored, Waiting
<1>5. ProducerInv'
  BY <1>1, HeadSlotIsFree DEF PushAddr, PushLen, ProducerInv, Waiting
<1>6. ConsumerInv'
  BY DEF PushAddr, PushLen, ConsumerInv, Waiting
<1> QED BY <1>3, <1>4, <1>5, <1>6 DEF PushAddr, PushLen

LEMMA PushHeadStep ==
  ASSUME RingInv, PushHead
  PROVE  RingInv'
<1> USE SlotsType DEF RingInv, RingTypeOK, InInit, cvars
<1>1. phead = head /\ Waiting < Slots - 1 /\ mask = Mask /\ slot[head] = Message(sent + 1)
  <2>1. slot[head].addr = sent + 1 /\ slot[head].len = sent + 1 /\ head \in Indices
    BY DEF PushHead, ProducerInv
  <2> QED BY <2>1 DEF PushHead, ProducerInv, Message
<1>2. head' = Next1(head) /\ sent' = sent + 1 /\ received' = received /\ tail' = tail /\ slot' = slot
  BY <1>1, AndNext DEF PushHead
<1>3. head' \in Indices
  BY <1>2 DEF Next1, Indices
<1>4. Waiting' = Waiting + 1 /\ Waiting \in 0..Slots-2
  BY <1>1, <1>2 DEF Waiting, Stored
<1>5. head' = Wrap(tail + Waiting + 1)
  BY <1>2, <1>4 DEF Stored, Wrap, Next1, Indices
<1>6. ASSUME NEW k \in 0..Waiting PROVE slot[Wrap(tail + k)] = Message(received + k + 1)
  <2>1. CASE k < Waiting
    BY <2>1, <1>4 DEF Stored
  <2>2. CASE k = Waiting
    <3>1. Wrap(tail + k) = head /\ received + k + 1 = sent + 1
      BY <2>2 DEF Stored, Waiting
    <3> QED BY <1>1, <3>1
  <2> QED BY <1>4, <2>1, <2>2
<1>7. Stored'
  BY <1>2, <1>4, <1>5, <1>6 DEF Stored, Wrap
<1>8. RingTypeOK' /\ ProducerInv'
  BY <1>2, <1>3 DEF PushHead, ProducerInv
<1>9. ConsumerInv'
  BY <1>2, <1>4 DEF PushHead, ConsumerInv
<1> QED BY <1>1, <1>7, <1>8, <1>9 DEF PushHead

-----------------------------------------------------------------------------
LEMMA PopReadStep ==
  ASSUME RingInv, PopReadHead \/ PopReadTail
  PROVE  RingInv'
<1> USE SlotsType DEF RingInv, RingTypeOK, InInit, pvars, PopReadHead, PopReadTail
<1>1. RingTypeOK' /\ Stored' /\ ProducerInv'
  BY DEF Stored, ProducerInv, Waiting
<1>2. Waiting = 0 => head = tail
  BY DEF Stored, Wrap, Indices
<1>3. ConsumerInv'
  BY <1>2 DEF ConsumerInv, Waiting
<1> QED BY <1>1, <1>3 DEF Blank

LEMMA PopCheckStep ==
  ASSUME RingInv, PopCheck
  PROVE  RingInv'
<1> USE SlotsType DEF RingInv, RingTypeOK, InInit, pvars, PopCheck
<1>1. RingTypeOK' /\ Stored' /\ ProducerInv'
  BY DEF Stored, ProducerInv, Waiting
<1>2. ConsumerInv'
  <2>1. cpc' = "addr" => Waiting # 0 /\ Waiting \in Nat
    BY DEF ConsumerInv, Stored
  <2> QED BY <2>1 DEF ConsumerInv, Waiting
<1> QED BY <1>1, <1>2 DEF Blank

LEMMA PopLoadStep ==
  ASSUME RingInv, PopAddr \/ PopLen
  PROVE  RingInv'
<1> USE SlotsType DEF RingInv, RingTypeOK, InInit, pvars
<1>1. ctail = tail /\ Waiting > 0 /\ slot[tail] = Message(received + 1)
  <2>1. ctail = tail /\ Waiting > 0
    BY DEF PopAddr, PopLen, ConsumerInv
  <2>2. 0 \in 0..Waiting-1 /\ Wrap(tail + 0) = tail
    BY <2>1 DEF Waiting, Wrap, Indices
  <2>3. slot[Wrap(tail + 0)] = Message(received + 0 + 1)
    BY <2>2 DEF Stored
  <2> QED BY <2>1, <2>2, <2>3
<1>2. ConsumerInv'
  BY <1>1 DEF PopAddr, PopLen, ConsumerInv, Waiting, Message
<1>3. RingTypeOK' /\ Stored' /\ ProducerInv'
  BY DEF PopAddr, PopLen, Stored, ProducerInv, Waiting
<1> QED BY <1>2, <1>3 DEF PopAddr, PopLen, Blank

LEMMA PopTailStep ==
  ASSUME RingInv, PopTail
  PROVE  RingInv'
<1> USE SlotsType DEF RingInv, RingTypeOK, InInit, pvars
<1>1. ctail = tail /\ Waiting > 0 /\ ~ InInit /\ mask = Mask
  BY DEF PopTail, ConsumerInv, Blank
<1>2. tail' = Next1(tail) /\ received' = received + 1 /\ sent' = sent /\ head' = head /\ slot' = slot
  BY <1>1, AndNext DEF PopTail
<1>3. tail' \in Indices
  BY <1>2 DEF Next1, Indices
<1>4. Waiting' = Waiting - 1 /\ Waiting \in 1..Slots-1
  BY <1>1, <1>2 DEF Waiting, Stored
<1>5. \A k \in 0..Waiting-1 : Wrap(tail' + k) = Wrap(tail + k + 1)
  BY <1>2, <1>4 DEF Wrap, Next1, Indices
<1>6. Stored'
  <2>1. head' = Wrap(tail' + Waiting')
    BY <1>2, <1>4 DEF Stored, Wrap, Next1, Indices
  <2>2. ASSUME NEW k \in 0..Waiting'-1
        PROVE slot'[Wrap(tail' + k)] = Message(received' + k + 1)
    <3>1. k + 1 \in 0..Waiting-1 /\ k \in 0..Waiting-1 /\ k \in Nat
      BY <1>4
    <3>2. slot[Wrap(tail + (k + 1))] = Message(received + (k + 1) + 1)
      BY <3>1 DEF Stored
    <3>3. tail + (k + 1) = tail + k + 1 /\ received + (k + 1) + 1 = received' + k + 1
      BY <1>2, <3>1 DEF Indices
    <3>4. Wrap(tail' + k) = Wrap(tail + k + 1)
      BY <1>5, <3>1
    <3>5. slot'[Wrap(tail' + k)] = slot[Wrap(tail + (k + 1))]
      BY <1>2, <3>3, <3>4
    <3> QED BY <3>2, <3>3, <3>5
  <2> QED BY <1>4, <2>1, <2>2 DEF Stored, Wrap
<1>7. ProducerInv'
  BY <1>2, <1>4 DEF PopTail, ProducerInv
<1>8. RingTypeOK' /\ ConsumerInv'
  BY <1>2, <1>3 DEF PopTail, ConsumerInv
<1> QED BY <1>1, <1>6, <1>7, <1>8 DEF PopTail

-----------------------------------------------------------------------------
LEMMA RingInvariant == RingSpec => []RingInv
<1>1. RingInv /\ UNCHANGED ringVars => RingInv'
  BY DEF ringVars, pvars, cvars, RingInv, RingTypeOK, InInit, Blank, Stored, ProducerInv, ConsumerInv,
     Waiting
<1>2. RingInv /\ [RingNext]_ringVars => RingInv'
  BY <1>1, InitStep, PushReadStep, PushCheckStep, PushStoreStep, PushHeadStep,
     PopReadStep, PopCheckStep, PopLoadStep, PopTailStep DEF RingNext, Producer, Consumer
<1> QED BY <1>2, RingBegins, PTL DEF RingSpec

(* The indices stay inside the ring.                                       *)
THEOREM RingTypeCorrect == RingSpec => []RingTypeOK
BY RingInvariant, PTL DEF RingInv

(* Each pop delivers the next descriptor, whole.                           *)
THEOREM RingDelivers == RingSpec => []DeliversNext
<1>1. RingInv => DeliversNext
  BY DEF RingInv, ConsumerInv, DeliversNext, RingTypeOK
<1> QED BY <1>1, RingInvariant, PTL

(* No slot is written while it is read.                                    *)
THEOREM SlotsExclusive == RingSpec => []NoSlotShared
<1>1. RingInv => NoSlotShared
  BY SlotsType DEF RingInv, NoSlotShared, ProducerInv, ConsumerInv, Stored, Wrap, RingTypeOK,
     Indices, Waiting
<1> QED BY <1>1, RingInvariant, PTL
-----------------------------------------------------------------------------
(* The queue the ring implements holds the messages after the last one     *)
(* received, up to the last one sent.                                      *)
Backlog(r, n) == [i \in 1..n |-> Message(r + i)]

LEMMA BacklogType ==
  ASSUME NEW r \in Nat, NEW n \in Nat
  PROVE  /\ Backlog(r, n) \in Seq([addr : Nat, len : Nat])
         /\ Len(Backlog(r, n)) = n
         /\ \A i \in 1..n : Backlog(r, n)[i] = Message(r + i)
<1>1. \A i \in 1..n : Message(r + i) \in [addr : Nat, len : Nat]
  BY DEF Message
<1> QED BY <1>1 DEF Backlog

LEMMA BacklogAppend ==
  ASSUME NEW r \in Nat, NEW n \in Nat
  PROVE  Backlog(r, n + 1) = Append(Backlog(r, n), Message(r + n + 1))
<1> DEFINE S == [addr : Nat, len : Nat]
           a == Append(Backlog(r, n), Message(r + n + 1))
           b == Backlog(r, n + 1)
<1>1. Message(r + n + 1) \in S
  BY DEF Message
<1>2. /\ a \in Seq(S) /\ Len(a) = n + 1 /\ a[n + 1] = Message(r + n + 1)
      /\ \A i \in 1..n : a[i] = Message(r + i)
  <2>1. Backlog(r, n) \in Seq(S) /\ Len(Backlog(r, n)) = n
        /\ \A i \in 1..n : Backlog(r, n)[i] = Message(r + i)
    BY BacklogType
  <2> HIDE DEF S
  <2>2. /\ a \in Seq(S) /\ Len(a) = Len(Backlog(r, n)) + 1
        /\ \A i \in 1..Len(Backlog(r, n)) : a[i] = Backlog(r, n)[i]
        /\ a[Len(Backlog(r, n)) + 1] = Message(r + n + 1)
    BY <1>1, <2>1, AppendProperties
  <2> HIDE DEF a
  <2> QED BY <2>1, <2>2
<1>3. /\ b \in Seq(S) /\ Len(b) = n + 1
      /\ \A i \in 1..n+1 : b[i] = Message(r + i)
  BY BacklogType
<1>4. ASSUME NEW i \in 1..n+1 PROVE a[i] = b[i]
  <2>1. CASE i = n + 1
    <3>1. r + i = r + n + 1
      BY <2>1
    <3> QED BY <1>2, <1>3, <2>1, <3>1
  <2>2. CASE i \in 1..n
    BY <1>2, <1>3, <2>2
  <2>3. i = n + 1 \/ i \in 1..n
    OBVIOUS
  <2> HIDE DEF a, b
  <2> QED BY <2>1, <2>2, <2>3
<1> HIDE DEF S, a, b
<1>5. a = b
  BY <1>2, <1>3, <1>4, SeqEqual
<1> QED BY <1>5 DEF a, b

LEMMA BacklogTail ==
  ASSUME NEW r \in Nat, NEW n \in Nat \ {0}
  PROVE  Backlog(r, n) # <<>> /\ Backlog(r + 1, n - 1) = Tail(Backlog(r, n))
<1> DEFINE S == [addr : Nat, len : Nat]
           a == Tail(Backlog(r, n))
           b == Backlog(r + 1, n - 1)
<1>1. Backlog(r, n) \in Seq(S) /\ Len(Backlog(r, n)) = n
  BY BacklogType
<1>2. Backlog(r, n) # <<>>
  BY <1>1, EmptySeq
<1>3. /\ a \in Seq(S) /\ Len(a) = n - 1
      /\ \A i \in 1..n-1 : a[i] = Backlog(r, n)[i + 1]
  BY <1>1, <1>2, HeadTailProperties
<1>4. /\ b \in Seq(S) /\ Len(b) = n - 1
      /\ \A i \in 1..n-1 : b[i] = Message(r + 1 + i)
  <2>1. r + 1 \in Nat /\ n - 1 \in Nat
    OBVIOUS
  <2> QED BY <2>1, BacklogType
<1>5. ASSUME NEW i \in 1..n-1 PROVE a[i] = b[i]
  <2>1. i + 1 \in 1..n /\ r + 1 + i = r + (i + 1)
    OBVIOUS
  <2>2. Backlog(r, n)[i + 1] = Message(r + (i + 1))
    BY <2>1, BacklogType
  <2> QED BY <1>3, <1>4, <2>1, <2>2
<1> HIDE DEF S, a, b
<1>6. a = b
  BY <1>3, <1>4, <1>5, SeqEqual
<1> QED BY <1>2, <1>6 DEF a, b

IsBacklog == Waiting \in 0..Slots-1 /\ received \in Nat /\ Contents = Backlog(received, Waiting)

LEMMA ContentsAre == RingInv => IsBacklog
<1> SUFFICES ASSUME RingInv PROVE IsBacklog
  OBVIOUS
<1> USE SlotsType DEF IsBacklog
<1>1. /\ Waiting \in 0..Slots-1 /\ head = Wrap(tail + Waiting)
      /\ head \in 0..Slots-1 /\ tail \in 0..Slots-1 /\ received \in Nat
  BY DEF RingInv, Stored, RingTypeOK, Indices
<1>2. Occupied = Waiting
  <2>1. head - tail + Slots \in 0..2*Slots-1
    BY <1>1
  <2>2. Occupied = Wrap(head - tail + Slots)
    BY <2>1, AndWraps DEF Occupied
  <2> QED BY <1>1, <2>2 DEF Wrap
<1>3. ASSUME NEW i \in 1..Waiting
      PROVE  slot[And(tail + i - 1, Mask)] = Message(received + i)
  <2>1. i - 1 \in 0..Waiting-1 /\ tail + i - 1 \in 0..2*Slots-1 /\ tail + (i - 1) = tail + i - 1
        /\ received + (i - 1) + 1 = received + i
    BY <1>1
  <2>2. slot[Wrap(tail + (i - 1))] = Message(received + (i - 1) + 1)
    BY <2>1 DEF RingInv, Stored
  <2> QED BY <2>1, <2>2, AndWraps
<1> QED BY <1>1, <1>2, <1>3 DEF Contents, Backlog

LEMMA QueueStep ==
  ASSUME RingInv, RingInv', [RingNext]_ringVars
  PROVE  [Queue!Next]_Contents
<1>0. IsBacklog /\ IsBacklog'
  <2>1. (RingInv => IsBacklog)'
    BY ContentsAre, PTL
  <2> QED BY <2>1, ContentsAre
<1>1. CASE PushHead
  <2>1. received' = received /\ sent' = sent + 1 /\ sent < MaxPush /\ Waiting < Slots - 1
    BY <1>1 DEF PushHead, RingInv, ProducerInv
  <2>2. Waiting' = Waiting + 1 /\ received + Waiting + 1 = sent + 1 /\ sent \in Nat
    BY <2>1 DEF Waiting, RingInv, RingTypeOK
  <2>3. Contents' = Append(Contents, Message(sent + 1))
    <3>1. Contents = Backlog(received, Waiting) /\ Contents' = Backlog(received, Waiting + 1)
          /\ Waiting \in Nat /\ received \in Nat
      BY <2>1, <2>2, <1>0 DEF IsBacklog, RingInv
    <3>2. Backlog(received, Waiting + 1) = Append(Backlog(received, Waiting), Message(received + Waiting + 1))
      BY <3>1, BacklogAppend
    <3> QED BY <2>2, <3>1, <3>2
  <2>4. Len(Contents) < Slots - 1
    <3>1. Contents = Backlog(received, Waiting) /\ Waiting \in Nat /\ received \in Nat
      BY <1>0 DEF IsBacklog
    <3>2. Len(Contents) = Waiting
      BY <3>1, BacklogType
    <3> QED BY <2>1, <3>2
  <2>5. Message(sent + 1) \in {[addr |-> n, len |-> n] : n \in 1..MaxPush}
    <3>1. sent + 1 \in 1..MaxPush
      BY <2>1, <2>2, RingAssumption
    <3> QED BY <3>1 DEF Message
  <2> QED BY <2>3, <2>4, <2>5 DEF Queue!Next, Queue!Enqueue
<1>2. CASE PopTail
  <2>1. received' = received + 1 /\ sent' = sent /\ Waiting > 0
    BY <1>2 DEF PopTail, RingInv, ConsumerInv
  <2>2. Waiting' = Waiting - 1 /\ Waiting \in Nat \ {0} /\ received \in Nat
    BY <2>1, <1>0 DEF IsBacklog, Waiting, RingInv, RingTypeOK
  <2>3. Contents = Backlog(received, Waiting) /\ Contents' = Backlog(received + 1, Waiting - 1)
    BY <2>1, <2>2, <1>0 DEF IsBacklog
  <2> QED BY <2>2, <2>3, BacklogTail DEF Queue!Next, Queue!Dequeue
<1>3. CASE received' = received /\ sent' = sent
  <2>1. Waiting' = Waiting
    BY <1>3 DEF Waiting
  <2> QED BY <1>3, <2>1, <1>0 DEF IsBacklog
<1>4. [RingNext]_ringVars /\ ~ PushHead /\ ~ PopTail => received' = received /\ sent' = sent
  BY DEF RingNext, Producer, Consumer, InitHead, InitTail, InitMask, PushReadHead, PushReadTail,
     PushCheck, PushAddr, PushLen, PopReadHead, PopReadTail, PopCheck, PopAddr, PopLen, ringVars
<1> QED BY <1>1, <1>2, <1>3, <1>4

(* The ring is a queue of Slots - 1 descriptors.                           *)
THEOREM RingImplementsQueue == RingSpec => IsQueue
<1>1. RingInit => Queue!Init
  <2> SUFFICES ASSUME RingInit PROVE Contents = <<>>
    BY DEF Queue!Init
  <2>1. RingInv /\ Waiting = 0
    BY RingBegins DEF RingInit, Waiting
  <2>2. Contents = Backlog(received, 0) /\ received \in Nat
    BY <2>1, ContentsAre DEF IsBacklog
  <2> QED BY <2>2, BacklogType, EmptySeq
<1>2. RingInv /\ RingInv' /\ [RingNext]_ringVars => [Queue!Next]_Contents
  BY QueueStep
<1> QED BY <1>1, <1>2, RingInvariant, PTL DEF RingSpec, IsQueue, Queue!Spec

-----------------------------------------------------------------------------
(* The ring under the lock.                                                *)

LEMMA LockedSteps ==
  LockedNext \/ UNCHANGED allVars => [Next]_vars /\ [RingNext]_ringVars
<1>1. Initialise => [Next]_vars /\ [RingNext]_ringVars
  BY DEF Initialise, RingNext, Producer
<1>2. Consumes => [Next]_vars /\ [RingNext]_ringVars
  BY DEF Consumes, RingNext
<1>3. ASSUME NEW t \in Threads, HolderPushes(t) PROVE [Next]_vars /\ [RingNext]_ringVars
  BY <1>3 DEF HolderPushes, Push, RingNext, Producer
<1>4. ASSUME NEW t \in Threads, ThreadStep(t) PROVE [Next]_vars /\ [RingNext]_ringVars
  BY <1>4 DEF ThreadStep, Next, Step
<1>5. ASSUME NEW t \in Threads, Drains(t) PROVE [Next]_vars /\ [RingNext]_ringVars
  BY <1>5 DEF Drains, Next
<1>6. UNCHANGED allVars => UNCHANGED vars /\ UNCHANGED ringVars
  BY DEF allVars
<1> QED BY <1>1, <1>2, <1>3, <1>4, <1>5, <1>6 DEF LockedNext

(* Threads that push under the lock keep the lock's promises, to each other *)
(* and about what it guards.                                               *)
THEOREM LockedIsLock == LockedSpec => Spec /\ []MutualExclusion /\ []ReleasePublishes /\ IsMutex
<1>1. LockedInit => Init
  BY DEF LockedInit
<1>2. LockedSpec => Spec
  BY <1>1, LockedSteps, PTL DEF LockedSpec, Spec
<1> QED BY <1>2, SpinExcludes, ReleaseIsEnough, SpinLockImplementsMutex

(* Pushed under the lock by any number of threads, descriptors are still   *)
(* delivered once, in order and whole: with the lock, several producers are *)
(* one (kernel:dma_ring_push itself reads head and writes the slot behind   *)
(* it without any).                                                         *)
THEOREM LockedIsRing == LockedSpec => RingSpec /\ []DeliversNext /\ []NoSlotShared /\ IsQueue
<1>1. LockedInit => RingInit
  BY DEF LockedInit
<1>2. LockedSpec => RingSpec
  BY <1>1, LockedSteps, PTL DEF LockedSpec, RingSpec
<1> QED BY <1>2, RingDelivers, SlotsExclusive, RingImplementsQueue
=============================================================================
