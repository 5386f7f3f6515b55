------------------------------- MODULE DmaRing -------------------------------
(***************************************************************************)
(* The descriptor ring of kernel:dma_ring_init / push / pop                *)
(* (ACLM/codegen.py, _kernel_dma_ring_init ... _kernel_dma_ring_pop): the  *)
(* block __dmaring holds head, tail and mask and then the slots, each an   *)
(* address and a length.  One producer initialises the ring and pushes,    *)
(* one consumer pops, from two contexts (a driver and an interrupt, or two *)
(* processors); one action is one access to the block, and memory is       *)
(* sequentially consistent.                                                *)
(*                                                                         *)
(* The descriptors pushed are numbered: the n-th one has address n and     *)
(* length n, so a lost, repeated, reordered or torn one shows.             *)
(***************************************************************************)
EXTENDS Integers, Sequences

CONSTANTS
  Requested,  \* the operand of dma_ring_init
  MaxPush     \* bound: how many descriptors are pushed

\* int.bit_length of Python.
BitLength(n) == CHOOSE k \in 0..n : 2^k > n /\ \A j \in 0..k-1 : 2^j <= n

IsPowerOf2(n) == \E k \in 0..n : n = 2^k

\* The parser's "force power of 2".
RoundSlots(n) ==
  IF n < 2 THEN 2
  ELSE IF IsPowerOf2(n) THEN n
  ELSE 2^BitLength(n)

Slots == RoundSlots(Requested)

\* The last conjunct is what the rounding is for.
ASSUME RingAssumption ==
  /\ Requested \in Nat /\ MaxPush \in Nat
  /\ Slots \in Nat /\ Slots >= 2

Mask == Slots - 1

\* x & mask, for the masks there are: 0 before the ring is initialised, and
\* one less than a power of two.
And(x, m) == x % (m + 1)

VARIABLES
  head, tail, mask,  \* the ring's control words
  slot,              \* slot[i]: the descriptor in slot i
  ppc, phead, ptail, \* the producer: where it is, and what it has read
  cpc, chead, ctail, \* the consumer
  got,               \* the descriptor the consumer has read
  full, empty,       \* reg1 of the last push and of the last pop
  sent, received     \* history: how many pushes and pops have succeeded

pvars == <<ppc, phead, ptail, full>>
cvars == <<cpc, chead, ctail, got, empty>>
ringVars == <<head, tail, mask, slot, pvars, cvars, sent, received>>

Indices == 0..Slots-1
Empty == [addr |-> 0, len |-> 0]

\* The data section is zero.
RingInit ==
  /\ head = 0 /\ tail = 0 /\ mask = 0
  /\ slot = [i \in Indices |-> Empty]
  /\ ppc = "init" /\ phead = 0 /\ ptail = 0 /\ full = FALSE
  /\ cpc = "idle" /\ chead = 0 /\ ctail = 0 /\ got = Empty /\ empty = FALSE
  /\ sent = 0 /\ received = 0

-----------------------------------------------------------------------------
(* dma_ring_init: head and tail are cleared by 8-byte stores, so the first  *)
(* clears both and the second also mask, which is then set.                *)
InitHead ==
  /\ ppc = "init"
  /\ head' = 0 /\ tail' = 0 /\ ppc' = "init_tail"
  /\ UNCHANGED <<mask, slot, phead, ptail, full, cvars, sent, received>>

InitTail ==
  /\ ppc = "init_tail"
  /\ tail' = 0 /\ mask' = 0 /\ ppc' = "init_mask"
  /\ UNCHANGED <<head, slot, phead, ptail, full, cvars, sent, received>>

\* Fault variant: the number of slots is stored as the mask.
InitMaskSlots ==
  /\ ppc = "init_mask"
  /\ mask' = Slots /\ ppc' = "idle"
  /\ UNCHANGED <<head, tail, slot, phead, ptail, full, cvars, sent, received>>

InitMask ==
  /\ ppc = "init_mask"
  /\ mask' = Mask /\ ppc' = "idle"
  /\ UNCHANGED <<head, tail, slot, phead, ptail, full, cvars, sent, received>>

-----------------------------------------------------------------------------
(* dma_ring_push *)
PushReadHead ==
  /\ ppc = "idle" /\ sent < MaxPush
  /\ phead' = head /\ ppc' = "tail"
  /\ UNCHANGED <<head, tail, mask, slot, ptail, full, cvars, sent, received>>

PushReadTail ==
  /\ ppc = "tail"
  /\ ptail' = tail /\ ppc' = "check"
  /\ UNCHANGED <<head, tail, mask, slot, phead, full, cvars, sent, received>>

\* Fault variant: a full ring is not noticed.
PushUnchecked ==
  /\ ppc = "check"
  /\ ppc' = "addr"
  /\ UNCHANGED <<head, tail, mask, slot, phead, ptail, full, cvars, sent, received>>

PushCheck ==
  /\ ppc = "check"
  /\ IF And(phead + 1, mask) = ptail
     THEN full' = TRUE /\ ppc' = "idle"
     ELSE ppc' = "addr" /\ UNCHANGED full
  /\ UNCHANGED <<head, tail, mask, slot, phead, ptail, cvars, sent, received>>

\* Fault variant: head is stored with the address, before the length.
PushAddrAndHead ==
  /\ ppc = "addr"
  /\ slot' = [slot EXCEPT ![phead].addr = sent + 1]
  /\ head' = And(phead + 1, mask)
  /\ ppc' = "len"
  /\ UNCHANGED <<tail, mask, phead, ptail, full, cvars, sent, received>>

PushAddr ==
  /\ ppc = "addr"
  /\ slot' = [slot EXCEPT ![phead].addr = sent + 1]
  /\ ppc' = "len"
  /\ UNCHANGED <<head, tail, mask, phead, ptail, full, cvars, sent, received>>

PushLen ==
  /\ ppc = "len"
  /\ slot' = [slot EXCEPT ![phead].len = sent + 1]
  /\ ppc' = "head"
  /\ UNCHANGED <<head, tail, mask, phead, ptail, full, cvars, sent, received>>

PushHead ==
  /\ ppc = "head"
  /\ head' = And(phead + 1, mask) /\ sent' = sent + 1
  /\ full' = FALSE /\ ppc' = "idle"
  /\ UNCHANGED <<tail, mask, slot, phead, ptail, cvars, received>>

-----------------------------------------------------------------------------
(* dma_ring_pop *)
PopReadHead ==
  /\ cpc = "idle"
  /\ chead' = head /\ cpc' = "tail"
  /\ UNCHANGED <<head, tail, mask, slot, pvars, ctail, got, empty, sent, received>>

PopReadTail ==
  /\ cpc = "tail"
  /\ ctail' = tail /\ cpc' = "check"
  /\ UNCHANGED <<head, tail, mask, slot, pvars, chead, got, empty, sent, received>>

\* Fault variant: the branch is taken the other way.
PopCheckInverted ==
  /\ cpc = "check"
  /\ IF chead # ctail
     THEN empty' = TRUE /\ cpc' = "idle"
     ELSE cpc' = "addr" /\ UNCHANGED empty
  /\ UNCHANGED <<head, tail, mask, slot, pvars, chead, ctail, got, sent, received>>

PopCheck ==
  /\ cpc = "check"
  /\ IF chead = ctail
     THEN empty' = TRUE /\ cpc' = "idle"
     ELSE cpc' = "addr" /\ UNCHANGED empty
  /\ UNCHANGED <<head, tail, mask, slot, pvars, chead, ctail, got, sent, received>>

PopAddr ==
  /\ cpc = "addr"
  /\ got' = [got EXCEPT !.addr = slot[ctail].addr]
  /\ cpc' = "len"
  /\ UNCHANGED <<head, tail, mask, slot, pvars, chead, ctail, empty, sent, received>>

PopLen ==
  /\ cpc = "len"
  /\ got' = [got EXCEPT !.len = slot[ctail].len]
  /\ cpc' = "free"
  /\ UNCHANGED <<head, tail, mask, slot, pvars, chead, ctail, empty, sent, received>>

PopTail ==
  /\ cpc = "free"
  /\ tail' = And(ctail + 1, mask) /\ received' = received + 1
  /\ cpc' = "idle"
  /\ UNCHANGED <<head, mask, slot, pvars, chead, ctail, got, empty, sent>>

-----------------------------------------------------------------------------
Producer == \/ InitHead \/ InitTail \/ InitMask
            \/ PushReadHead \/ PushReadTail \/ PushCheck \/ PushAddr \/ PushLen \/ PushHead
Consumer == PopReadHead \/ PopReadTail \/ PopCheck \/ PopAddr \/ PopLen \/ PopTail

RingNext == Producer \/ Consumer

RingSpec == RingInit /\ [][RingNext]_ringVars

\* Both contexts go on running; the consumer polls.
FairRingSpec == RingSpec /\ WF_ringVars(Producer) /\ WF_ringVars(Consumer)

-----------------------------------------------------------------------------
Occupied == And(head - tail + Slots, Mask)
Contents == [i \in 1..Occupied |-> slot[And(tail + i - 1, Mask)]]

(* Types; both indices stay inside the slots that dma_ring_init laid out.  *)
RingTypeOK ==
  /\ head \in Indices /\ tail \in Indices /\ mask \in {0, Mask}
  /\ slot \in [Indices -> [addr : Nat, len : Nat]]
  /\ ppc \in {"init", "init_tail", "init_mask", "idle", "tail", "check", "addr", "len", "head"}
  /\ cpc \in {"idle", "tail", "check", "addr", "len", "free"}
  /\ phead \in Indices /\ ptail \in Indices /\ chead \in Indices /\ ctail \in Indices
  /\ got \in [addr : Nat, len : Nat]
  /\ full \in BOOLEAN /\ empty \in BOOLEAN
  /\ sent \in Nat /\ received \in Nat

(* A pop that succeeds delivers exactly the descriptor that is next: none  *)
(* is lost, repeated or overtaken, and none is mixed from two.             *)
DeliversNext ==
  cpc = "free" => got = [addr |-> received + 1, len |-> received + 1]

(* The producer never writes the slot the consumer is reading.             *)
NoSlotShared ==
  ~ (ppc \in {"addr", "len", "head"} /\ cpc \in {"addr", "len", "free"} /\ phead = ctail)

(* What is pushed is popped: the consumer catches up with the producer.    *)
Delivered == \A n \in 1..MaxPush : sent >= n ~> received >= n

(* The ring implements the queue of Slots - 1 descriptors that its slots    *)
(* from tail to head hold.                                                  *)
Queue == INSTANCE BoundedQueue WITH
  Capacity <- Slots - 1,
  Descriptors <- {[addr |-> n, len |-> n] : n \in 1..MaxPush},
  queue <- Contents

IsQueue == Queue!Spec
=============================================================================
