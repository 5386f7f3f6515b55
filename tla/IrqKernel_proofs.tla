--------------------------- MODULE IrqKernel_proofs ---------------------------
(***************************************************************************)
(* Proofs about IrqKernel, for any number of vectors, any program of these *)
(* statements (idt_install on a live IDT too) and any interrupts: the      *)
(* program keeps its registers, the gates are what the statements say,     *)
(* handlers do not nest, and an interrupt goes astray only where           *)
(* NoEntryAstray says.                                                     *)
(*                                                                         *)
(* The argument is that a handler gives back what it took (MainReg), so    *)
(* that an installer may be followed as if it were not interrupted         *)
(* (Follows); that holds because no gate but the timer's ever leads into a *)
(* tick stub, even half written (LowParts).  For this the stubs may lie    *)
(* anywhere, in as many blocks of 64 KiB as they like, if no two have the  *)
(* same low half of an address; else a half-written gate of one stub could *)
(* be the address of another.                                              *)
(***************************************************************************)
EXTENDS IrqKernel, TLAPS

Low(h) == h % Page
High(h) == h \div Page

\* The stubs do not overlap, so this holds in an image of less than 64 KiB, and in a
\* larger one unless two of them lie exactly a multiple of 64 KiB apart.
LowsDistinct == \A g, h \in Handlers : Low(g) = Low(h) => g = h

\* The stubs that return.
Ticking == {Irq0, Irq0Full}

\* In a loaded IDT every gate is a handler's, but for the one that is being written.
Settled ==
  loaded => \A v \in Vectors :
    \/ \E h \in Handlers : gate[v] = GateOf(h)
    \/ pc \in HalfWritten \cup {"type"} /\ v = MainReg["rdi"]

\* Where an installer is, in terms of the registers it works with.
Follows ==
  /\ pc = "next" => MainReg = Ours /\ gate = installed
  /\ pc # "next" => saved = Ours
  /\ pc \in Filling =>
       /\ MainReg["rsi"] = Default /\ MainReg["rdi"] \in Vectors
       /\ \A v \in Vectors : v < MainReg["rdi"] => gate[v] = GateOf(Default)
  /\ pc = "lidt" => \A v \in Vectors : gate[v] = GateOf(Default)
  /\ pc = "type" => ~gate[MainReg["rdi"]].present
  /\ Settled
  /\ pc \in {"shift", "middle"} => gate[MainReg["rdi"]].lo = Low(Default) /\ gate[MainReg["rdi"]].present
  /\ pc \in Patching =>
       /\ MainReg["rsi"] \in Handlers /\ MainReg["rdi"] \in Vectors
       /\ MainReg["rsi"] \in Ticking => MainReg["rdi"] = Timer
       /\ \A v \in Vectors : v # MainReg["rdi"] => gate[v] = installed[v]
  /\ pc \in {"patch_shift", "patch_middle"} =>
       gate[MainReg["rdi"]].lo = Low(MainReg["rsi"]) /\ gate[MainReg["rdi"]].present
  /\ pc \in {"middle", "patch_middle"} => MainReg["rax"] = High(MainReg["rsi"])

\* The low halves of addresses in the gates.
LowParts ==
  \A v \in Vectors : gate[v].present =>
    \E h \in Handlers : gate[v].lo = Low(h) /\ (h \in Ticking => v = Timer)

\* The controller waits for the end of a tick handler.
NoNesting ==
  /\ hpc # "none" => ~iflag
  /\ stopped = "no" /\ hpc \in {"none", "restore"} => inService = {}
  /\ stopped = "no" /\ hpc \in {"save", "count", "eoi"} => inService \in {{Timer}, {Keyboard}}

\* The inductive invariant.
IInv ==
  /\ TypeOK
  /\ NoNesting
  /\ LowParts
  /\ (stopped = "no" \/ hpc = "none") => Follows
  /\ pc = "next" => gate = installed

-----------------------------------------------------------------------------
(* Addresses and gates.                                                    *)

LEMMA DivMod ==
  ASSUME NEW n \in Nat
  PROVE  /\ n % Page \in 0..(Page - 1) /\ n \div Page \in Nat
         /\ n = (n \div Page) * Page + (n % Page)
         /\ n < Page => n \div Page = 0 /\ n % Page = n
<1>0. Page \in Nat \ {0}
  BY DEF Page
<1>1. n % Page \in 0..(Page - 1)
  BY <1>0
<1>2. n \div Page \in Nat
  BY DEF Page
<1>3. n = (n \div Page) * Page + (n % Page)
  BY SMT DEF Page
<1>4. n < Page => n \div Page = 0
  BY SMT DEF Page
<1>5. n < Page => n % Page = n
  BY SMT DEF Page
<1> QED BY <1>1, <1>2, <1>3, <1>4, <1>5

LEMMA Bytes == Page \in Nat /\ Page > 0
BY DEF Page

LEMMA Parts ==
  ASSUME NEW h \in Handlers
  PROVE  /\ h \in Nat /\ Low(h) \in 0..(Page - 1) /\ High(h) \in 0..(Page - 1)
         /\ High(h) % Page = High(h)
         /\ h = High(h) * Page + Low(h)
         /\ h < Page => High(h) = 0
<1>1. h \in Nat /\ h \div Page < Page
  BY IrqAssumption
<1>2. /\ Low(h) \in 0..(Page - 1) /\ High(h) \in Nat /\ High(h) < Page
      /\ h = High(h) * Page + Low(h)
      /\ h < Page => High(h) = 0
  BY <1>1, DivMod DEF Low, High
<1>3. High(h) \in 0..(Page - 1)
  BY <1>2, Bytes
<1>4. High(h) % Page = High(h)
  BY <1>2, DivMod
<1> QED BY <1>1, <1>2, <1>3, <1>4

LEMMA VectorFacts ==
  /\ Timer \in Vectors /\ Keyboard \in Vectors /\ NmiVector \in Vectors /\ PfVector \in Vectors
  /\ Timer # NmiVector /\ Timer # PfVector
  /\ \A l \in Lines : l \in Vectors /\ l - Timer + BiosBase \in Vectors
  /\ LastVector \in Nat /\ Vectors \subseteq Nat
BY IrqAssumption DEF Vectors, Lines

LEMMA Stubs ==
  /\ Default \in Handlers /\ PfStub \in Handlers /\ NmiStub \in Handlers
  /\ Irq0 \in Handlers /\ Irq0Full \in Handlers
  /\ Default \notin Ticking /\ PfStub \notin Ticking /\ NmiStub \notin Ticking
  /\ Ticking \subseteq Handlers
BY IrqAssumption DEF Handlers, Ticking

LEMMA GateOfType ==
  ASSUME NEW h \in Handlers
  PROVE  /\ GateOf(h) = [lo |-> Low(h), hi |-> High(h), present |-> TRUE]
         /\ GateOf(h) \in [lo : 0..(Page - 1), hi : 0..(Page - 1), present : BOOLEAN]
BY Parts DEF GateOf, Low, High

LEMMA LowHalf ==
  ASSUME NEW q \in Nat, NEW r \in Nat, r < Page
  PROVE  (q * Page + r) % Page = r
BY SMTT(30) DEF Page

\* A half-written address can only be that of the stub with its low half.
LEMMA Lands ==
  ASSUME LowsDistinct, TypeOK, LowParts, NEW v \in Vectors, gate[v].present,
         Target(gate[v]) \in Ticking
  PROVE  v = Timer
<1> DEFINE t == Target(gate[v])
<1>1. PICK h \in Handlers : gate[v].lo = Low(h) /\ (h \in Ticking => v = Timer)
  BY DEF LowParts
<1>2. t \in Handlers
  BY Stubs
<1>3. /\ t = gate[v].hi * Page + Low(h) /\ Low(h) \in 0..(Page - 1)
      /\ gate[v].hi \in Nat
  BY <1>1, Parts, Bytes DEF Target, TypeOK
<1>4. Low(t) = Low(h)
  <2>1. gate[v].hi \in Nat /\ Low(h) \in Nat /\ Low(h) < Page
    BY <1>3, Bytes
  <2>2. (gate[v].hi * Page + Low(h)) % Page = Low(h)
    BY <2>1, LowHalf, Zenon
  <2> QED BY <1>3, <2>2 DEF Low
<1>5. t = h
  BY <1>2, <1>4 DEF LowsDistinct
<1> QED BY <1>1, <1>5

Patchers == {"tick_install", "irq_full_save_on", "pf_install", "nmi_install"}

\* Only the timer's gate is patched with a tick stub.
LEMMA Patches ==
  ASSUME NEW s \in Patchers
  PROVE  /\ PatchOf[s].handler \in Handlers /\ PatchOf[s].vector \in Vectors
         /\ PatchOf[s].handler \in Ticking => PatchOf[s].vector = Timer
BY Stubs, VectorFacts DEF PatchOf, Patchers, Ticking

-----------------------------------------------------------------------------
(* Types.                                                                  *)

Gates(highs) == [Vectors -> [lo : 0..(Page - 1), hi : highs, present : BOOLEAN]]

LEMMA TypeInit == Init => TypeOK
<1> SUFFICES ASSUME Init PROVE TypeOK
  OBVIOUS
<1> USE DEF Init
<1>1. NoGate \in [lo : 0..(Page - 1), hi : 0..(Page - 1), present : BOOLEAN]
  BY Bytes DEF NoGate
<1>2. NoGate \in [lo : 0..(Page - 1), hi : Nat, present : BOOLEAN]
  BY Bytes DEF NoGate
<1>3. Ours \in [Regs -> Nat] /\ gprs \in [Regs -> Nat]
  BY DEF Ours, Regs
<1>4. {reg, saved, hsaved, gprs} \subseteq [Regs -> Nat]
  BY <1>3
<1> QED BY <1>1, <1>2, <1>4 DEF TypeOK

LEMMA GateTypes ==
  ASSUME NEW x, NEW n \in Nat, NEW r \in Nat, gate \in Gates(0..(Page - 1))
  PROVE  /\ [gate EXCEPT ![x] = [lo |-> n % Page, hi |-> 0, present |-> FALSE]] \in Gates(0..(Page - 1))
         /\ [gate EXCEPT ![x].lo = n % Page, ![x].present = TRUE] \in Gates(0..(Page - 1))
         /\ [gate EXCEPT ![x].hi = r % Page] \in Gates(0..(Page - 1))
<1>1. /\ n % Page \in 0..(Page - 1) /\ r % Page \in 0..(Page - 1) /\ 0 \in 0..(Page - 1)
  BY DivMod, Bytes
<1> QED BY <1>1 DEF Gates

LEMMA GateOfNat ==
  ASSUME NEW n \in Nat
  PROVE  GateOf(n) \in [lo : 0..(Page - 1), hi : Nat, present : BOOLEAN]
BY DivMod DEF GateOf

LEMMA Address ==
  ASSUME NEW a \in Nat, NEW b \in Nat
  PROVE  a * Page + b \in Nat
BY SMT DEF Page

LEMMA TargetOfGate ==
  ASSUME NEW g \in [lo : 0..(Page - 1), hi : 0..(Page - 1), present : BOOLEAN]
  PROVE  Target(g) \in Nat
<1>1. g.hi \in Nat /\ g.lo \in Nat
  BY Bytes
<1> QED BY <1>1, Address DEF Target

LEMMA TypeStep == TypeOK /\ [Next]_vars => TypeOK'
<1> SUFFICES ASSUME TypeOK, [Next]_vars PROVE TypeOK'
  OBVIOUS
<1> USE DEF TypeOK, Filling, Patching
<1>0. /\ Handlers \subseteq Nat /\ Vectors \subseteq Nat /\ LastVector \in Nat
      /\ gate \in Gates(0..(Page - 1)) /\ Default \in Nat
  BY Parts, VectorFacts, Stubs DEF Gates
<1>1. CASE Sti
  BY <1>1 DEF Sti, pic, irq
<1>1b. CASE Cli
  BY <1>1b DEF Cli, pic, irq
<1>1c. CASE PicRemap
  BY <1>1c DEF PicRemap, irq
<1>2. CASE IdtInstall
  <2>1. reg' \in [Regs -> Nat]
    BY <1>2, <1>0 DEF IdtInstall
  <2> QED BY <1>2, <2>1 DEF IdtInstall, pic, irq
<1>3. CASE FillClear
  <2>1. gate' \in Gates(0..(Page - 1))
    BY <1>0, <1>3, GateTypes DEF FillClear, Regs
  <2> QED BY <1>3, <2>1 DEF FillClear, Gates, pic, irq
<1>4. ASSUME FillType \/ PatchType PROVE TypeOK'
  <2>1. gate' = [gate EXCEPT ![reg["rdi"]].lo = reg["rsi"] % Page, ![reg["rdi"]].present = TRUE]
    BY <1>4 DEF FillType, PatchType, WriteType
  <2>2. reg["rsi"] \in Nat
    BY DEF Regs
  <2>3. [gate EXCEPT ![reg["rdi"]].lo = reg["rsi"] % Page, ![reg["rdi"]].present = TRUE] \in Gates(0..(Page - 1))
    BY <1>0, <2>2, GateTypes
  <2> QED BY <1>4, <2>1, <2>3 DEF FillType, PatchType, WriteType, Gates, pic, irq
<1>5. ASSUME FillShift \/ PatchShift PROVE TypeOK'
  <2>1. reg["rsi"] \div Page \in Nat
    BY DivMod DEF Regs
  <2> QED BY <1>5, <2>1 DEF FillShift, PatchShift, ShiftAddress, pic, irq
<1>6. CASE FillMiddle
  <2>1. gate' \in Gates(0..(Page - 1))
    BY <1>0, <1>6, GateTypes DEF FillMiddle, WriteMiddle, Regs
  <2> QED BY <1>6, <2>1 DEF FillMiddle, Gates, pic, irq, Regs
<1>7. CASE Lidt
  <2>1. installed' \in Gates(Nat)
    BY <1>0, <1>7, GateOfNat DEF Lidt, Gates
  <2> QED BY <1>7, <2>1 DEF Lidt, Gates, pic, irq
<1>8. ASSUME NEW s \in Patchers, Install(s) PROVE TypeOK'
  <2>1. PatchOf[s].handler \in Nat /\ PatchOf[s].vector \in Nat
    BY <1>0, Patches
  <2>2. reg' \in [Regs -> Nat]
    BY <1>8, <2>1 DEF Install
  <2>3. saved' \in [Regs -> Nat] /\ (pc' = "patch_type" \/ pc' = pc)
    BY <1>8 DEF Install
  <2> QED BY <1>8, <2>2, <2>3 DEF Install, pic, irq
<1>9. CASE PatchMiddle
  <2>1. gate' \in Gates(0..(Page - 1))
    BY <1>0, <1>9, GateTypes DEF PatchMiddle, WriteMiddle, Regs
  <2>2. installed' \in [Vectors -> [lo : 0..(Page - 1), hi : Nat, present : BOOLEAN]]
    BY <1>9, GateOfNat DEF PatchMiddle, Regs
  <2> QED BY <1>9, <2>1, <2>2 DEF PatchMiddle, Gates, pic, irq
<1>10. ASSUME NEW v \in Vectors, Enter(v)
       PROVE  hpc' \in {"none", "save", "count", "eoi", "restore"} /\ handler' \in Nat
              /\ stopped' \in {"no", "fault", "halted", "wild"}
  <2>1. Target(gate[v]) \in Nat
    BY TargetOfGate
  <2> QED BY <1>10, <2>1 DEF Enter
<1>11. ASSUME NEW l \in Lines, Interrupt(l) PROVE TypeOK'
  <2>1. l \in Vectors /\ l - Timer + BiosBase \in Vectors
    BY VectorFacts
  <2>2. /\ hpc' \in {"none", "save", "count", "eoi", "restore"} /\ handler' \in Nat
        /\ stopped' \in {"no", "fault", "halted", "wild"}
    <3>1. CASE remapped
      BY <1>10, <1>11, <2>1, <3>1 DEF Interrupt
    <3>2. CASE ~remapped
      BY <1>10, <1>11, <2>1, <3>2 DEF Interrupt
    <3> QED BY <3>1, <3>2
  <2> QED BY <1>11, <2>2 DEF Interrupt, main
<1>12. CASE Nmi
  <2>1. /\ hpc' \in {"none", "save", "count", "eoi", "restore"} /\ handler' \in Nat
        /\ stopped' \in {"no", "fault", "halted", "wild"}
    BY <1>10, <1>12, VectorFacts DEF Nmi
  <2> QED BY <1>12, <2>1 DEF Nmi, main
<1>13. ASSUME NEW l \in Lines, Raise(l) PROVE TypeOK'
  BY <1>13 DEF Raise, main, irq
<1>14. CASE IrqSave
  <2>1. hsaved' \in [Regs -> Nat] /\ gprs' \in [Regs -> Nat] /\ reg' \in [Regs -> Nat]
    BY <1>14 DEF IrqSave, DataAddress, Regs
  <2> QED BY <1>14, <2>1 DEF IrqSave, pic, main
<1>15. CASE IrqCount
  <2>0. tick + 1 \in Nat
    OBVIOUS
  <2>1. reg' \in [Regs -> Nat] /\ tick' \in Nat
    BY <1>15, <2>0 DEF IrqCount, DataAddress
  <2> QED BY <1>15, <2>1 DEF IrqCount, pic, main
<1>16. CASE IrqEoi
  <2>1. reg' \in [Regs -> Nat]
    BY <1>16 DEF IrqEoi
  <2> QED BY <1>16, <2>1 DEF IrqEoi, main
<1>17. CASE IrqReturn
  <2>1. reg' \in [Regs -> Nat]
    BY <1>17 DEF IrqReturn, Regs
  <2> QED BY <1>17, <2>1 DEF IrqReturn, pic, main
<1>18. CASE UNCHANGED vars
  BY <1>18 DEF vars, pic, main, irq
<1> QED
  BY <1>1, <1>1b, <1>1c, <1>2, <1>3, <1>4, <1>5, <1>6, <1>7, <1>8, <1>9, <1>11, <1>12, <1>13,
     <1>14, <1>15, <1>16, <1>17, <1>18
  DEF Next, Main, Handler, TickInstall, IrqFullSaveOn, PfInstall, NmiInstall, Patchers

\* Gates hold 16-bit halves and registers natural numbers, whatever the statements and
\* the interrupts: the places of the installers and of the handlers are the ones listed.
THEOREM TypeCorrect == Spec => []TypeOK
BY TypeInit, TypeStep, PTL DEF Spec

-----------------------------------------------------------------------------
(* Entering a gate.                                                        *)

LEMMA EnterFacts ==
  ASSUME LowsDistinct, TypeOK, LowParts, stopped = "no", NEW v \in Vectors, Enter(v)
  PROVE  /\ stopped' = "no" => hpc' = "save" /\ v = Timer
         /\ stopped' # "no" => hpc' = hpc
<1>1. CASE ~loaded \/ ~gate[v].present
  BY <1>1 DEF Enter
<1>2. CASE loaded /\ gate[v].present /\ Target(gate[v]) \in Ticking
  BY <1>2, Lands DEF Enter, Ticking
<1>3. CASE loaded /\ gate[v].present /\ Target(gate[v]) \notin Ticking
  BY <1>3 DEF Enter, Ticking
<1> QED BY <1>1, <1>2, <1>3

\* A step that leaves the installers' business alone.
LEMMA Quiet ==
  ASSUME Follows, UNCHANGED <<gate, loaded, pc, saved, installed>>, MainReg' = MainReg
  PROVE  Follows'
BY DEF Follows, Settled

\* Only an interrupt of the controller enters a tick stub, and only when it is idle.
LEMMA NestStep ==
  ASSUME LowsDistinct, IInv, [Next]_vars
  PROVE  NoNesting'
<1> USE DEF NoNesting
<1>0. NoNesting /\ TypeOK /\ LowParts
  BY DEF IInv
<1>1. CASE Main \/ UNCHANGED vars
  <2>1. CASE Sti \/ Cli \/ PicRemap \/ UNCHANGED vars
    BY <1>0, <2>1 DEF Sti, Cli, PicRemap, Begin, Running, vars, irq, pic
  <2>2. CASE IdtInstall \/ FillClear \/ FillType \/ FillShift \/ FillMiddle \/ Lidt
    BY <1>0, <2>2 DEF IdtInstall, FillClear, FillType, FillShift, FillMiddle, Lidt, WriteType, ShiftAddress,
       Begin, Running, irq, pic
  <2>3. CASE TickInstall \/ IrqFullSaveOn \/ PfInstall \/ NmiInstall \/ PatchType \/ PatchShift \/ PatchMiddle
    BY <1>0, <2>3 DEF TickInstall, IrqFullSaveOn, PfInstall, NmiInstall, Install, PatchType, PatchShift, PatchMiddle,
       WriteType, ShiftAddress, Begin, Running, irq, pic
  <2> QED BY <1>1, <2>1, <2>2, <2>3 DEF Main
<1>2. CASE IrqSave
  BY <1>0, <1>2 DEF IrqSave, InHandler, pic
<1>3. CASE IrqCount
  BY <1>0, <1>3 DEF IrqCount, InHandler, pic
<1>4. CASE IrqEoi
  BY <1>0, <1>4 DEF IrqEoi, InHandler
<1>5. CASE IrqReturn
  BY <1>0, <1>5 DEF IrqReturn, InHandler, pic
<1>6. CASE Nmi
  <2>1. stopped' # "no" /\ hpc' = hpc
    BY <1>0, <1>6, EnterFacts, VectorFacts DEF Nmi
  <2> QED BY <1>0, <1>6, <2>1 DEF Nmi
<1>7. ASSUME NEW l \in Lines, Raise(l) PROVE NoNesting'
  BY <1>0, <1>7 DEF Raise, irq
<1>8. ASSUME NEW l \in Lines, Interrupt(l) PROVE NoNesting'
  <2>1. (stopped' = "no" => hpc' = "save") /\ (stopped' # "no" => hpc' = hpc)
    <3>1. CASE remapped
      BY <1>0, <1>8, <3>1, EnterFacts, VectorFacts DEF Interrupt, Running
    <3>2. CASE ~remapped
      BY <1>0, <1>8, <3>2, EnterFacts, VectorFacts DEF Interrupt, Running
    <3> QED BY <3>1, <3>2
  <2>2. inService = {} /\ inService' = {l} /\ iflag' = FALSE
    BY <1>0, <1>8 DEF Interrupt, Running
  <2> QED BY <1>8, <2>1, <2>2 DEF Interrupt, Running, Lines
<1> QED
  BY <1>1, <1>2, <1>3, <1>4, <1>5, <1>6, <1>7, <1>8 DEF Next, Handler

\* What the main program's own steps do to the gates and to its place.
LEMMA FillStep ==
  ASSUME LowsDistinct, IInv, hpc = "none", stopped = "no",
         FillClear \/ FillType \/ FillShift \/ FillMiddle \/ Lidt
  PROVE  LowParts' /\ Follows' /\ (pc' = "next" => gate' = installed')
<1> DEFINE x == reg["rdi"]
<1>0. /\ TypeOK /\ LowParts /\ Follows /\ MainReg = reg
      /\ x \in Nat /\ Default \in Handlers /\ Default \notin Ticking
  BY Stubs DEF IInv, MainReg, TypeOK, Regs
<1>t. reg \in [Regs -> Nat] /\ gate \in Gates(0..(Page - 1))
  BY <1>0 DEF TypeOK, Gates
<1>1. CASE FillClear
  <2>1. /\ pc = "clear" /\ pc' = "type" /\ MainReg' = reg /\ UNCHANGED <<loaded, saved, installed, reg>>
        /\ gate' = [gate EXCEPT ![x] = [lo |-> Default % Page, hi |-> 0, present |-> FALSE]]
    BY <1>0, <1>1 DEF FillClear, MainReg, irq, Follows, Filling
  <2>2. LowParts'
    BY <1>0, <1>t, <2>1 DEF LowParts, Gates
  <2>s. Settled'
    BY <1>0, <1>t, <2>1 DEF Follows, Settled, HalfWritten, Filling, Patching, Gates, Regs
  <2>3. Follows'
    BY <2>s, <1>0, <1>t, <2>1 DEF Follows, Filling, Patching, Gates, Vectors
  <2> QED BY <2>1, <2>2, <2>3
<1>2. CASE FillType
  <2>1. /\ pc = "type" /\ pc' = "shift" /\ MainReg' = reg /\ UNCHANGED <<loaded, saved, installed, reg>>
        /\ gate' = [gate EXCEPT ![x] = [gate[x] EXCEPT !.lo = Default % Page, !.present = TRUE]]
    BY <1>0, <1>2 DEF FillType, WriteType, MainReg, irq, Follows, Filling
  <2>2. LowParts'
    BY <1>0, <1>t, <2>1 DEF LowParts, Gates, Low
  <2>s. Settled'
    BY <1>0, <1>t, <2>1 DEF Follows, Settled, HalfWritten, Filling, Patching, Gates, Regs
  <2>3. Follows'
    BY <2>s, <1>0, <1>t, <2>1 DEF Follows, Filling, Patching, Gates, Vectors, Low
  <2> QED BY <2>1, <2>2, <2>3
<1>3. CASE FillShift
  <2>1. /\ pc = "shift" /\ pc' = "middle" /\ MainReg' = reg' /\ UNCHANGED <<loaded, gate, saved, installed>>
        /\ reg' = [reg EXCEPT !["rax"] = Default \div Page]
    BY <1>0, <1>3 DEF FillShift, ShiftAddress, MainReg, irq, Follows, Filling
  <2>2. LowParts'
    BY <1>0, <2>1 DEF LowParts
  <2>s. Settled'
    BY <1>0, <1>t, <2>1 DEF Follows, Settled, HalfWritten, Filling, Patching, Gates, Regs
  <2>3. Follows'
    BY <2>s, <1>0, <1>t, <2>1 DEF Follows, Filling, Patching, High, Regs
  <2> QED BY <2>1, <2>2, <2>3
<1>4. CASE FillMiddle
  <2>1. /\ pc = "middle" /\ MainReg' = reg' /\ UNCHANGED <<loaded, saved, installed>>
        /\ pc' = (IF x + 1 > LastVector THEN "lidt" ELSE "clear")
        /\ reg' = [reg EXCEPT !["rdi"] = x + 1]
        /\ gate' = [gate EXCEPT ![x] = [gate[x] EXCEPT !.hi = reg["rax"] % Page]]
    BY <1>0, <1>t, <1>4 DEF FillMiddle, WriteMiddle, MainReg, irq, Regs
  <2>2. /\ reg["rax"] % Page = High(Default) /\ gate[x].lo = Low(Default) /\ gate[x].present /\ x \in Vectors
        /\ reg["rsi"] = Default /\ \A v \in Vectors : v < x => gate[v] = GateOf(Default)
    BY <1>0, <2>1, Parts DEF Follows, Filling
  <2>3. LowParts'
    BY <1>0, <1>t, <2>1, <2>2 DEF LowParts, Gates
  <2>4. gate'[x] = GateOf(Default)
    BY <1>0, <1>t, <2>1, <2>2, GateOfType DEF Gates
  <2>5. \A v \in Vectors : v < x + 1 => gate'[v] = GateOf(Default)
    BY <1>t, <2>1, <2>2, <2>4 DEF Vectors, Gates
  <2>s. Settled'
    BY <1>0, <1>t, <2>1, <2>2, <2>4 DEF Follows, Settled, HalfWritten, Filling, Patching, Gates, Regs
  <2>6. Follows'
    BY <2>s, <1>0, <1>t, <2>1, <2>2, <2>5, VectorFacts DEF Follows, Filling, Patching, Regs, Vectors
  <2> QED BY <2>1, <2>3, <2>6
<1>5. CASE Lidt
  <2>1. /\ pc = "lidt" /\ pc' = "next" /\ MainReg' = saved /\ UNCHANGED <<gate, saved>>
        /\ installed' = [v \in Vectors |-> GateOf(Default)] /\ saved = Ours
    BY <1>0, <1>5 DEF Lidt, MainReg, irq, Follows
  <2>2. LowParts'
    BY <1>0, <2>1 DEF LowParts
  <2>3. gate' = installed'
    BY <1>0, <1>t, <2>1 DEF Follows, Gates
  <2>s. Settled'
    BY <1>0, <2>1 DEF Follows, Settled, HalfWritten, Filling, Patching, Gates, Regs
  <2>4. Follows'
    BY <2>s, <2>1, <2>3 DEF Follows, Filling, Patching
  <2> QED BY <2>1, <2>2, <2>3, <2>4
<1> QED BY <1>1, <1>2, <1>3, <1>4, <1>5

\* The same for the statements that patch one gate, and for the start of idt_install.
LEMMA PatchStep ==
  ASSUME LowsDistinct, IInv, hpc = "none", stopped = "no",
         IdtInstall \/ PatchType \/ PatchShift \/ PatchMiddle \/ (\E s \in Patchers : Install(s))
  PROVE  LowParts' /\ Follows' /\ (pc' = "next" => gate' = installed')
<1> DEFINE x == reg["rdi"]
           h == reg["rsi"]
<1>0. /\ TypeOK /\ LowParts /\ Follows /\ MainReg = reg
  BY DEF IInv, MainReg
<1>t. reg \in [Regs -> Nat] /\ gate \in Gates(0..(Page - 1)) /\ installed \in Gates(Nat)
  BY <1>0 DEF TypeOK, Gates
<1>p. pc \in Patching => /\ h \in Handlers /\ x \in Vectors /\ (h \in Ticking => x = Timer)
                         /\ saved = Ours /\ \A v \in Vectors : v # x => gate[v] = installed[v]
  BY <1>0 DEF Follows, Patching
<1>1. CASE IdtInstall
  <2>1. /\ pc = "next" /\ pc' = "clear" /\ MainReg' = reg' /\ saved' = Ours
        /\ reg' = [reg EXCEPT !["rsi"] = Default, !["rdi"] = 0] /\ UNCHANGED <<loaded, gate, installed>>
    BY <1>0, <1>1 DEF IdtInstall, Begin, MainReg, irq, Follows
  <2>2. LowParts'
    BY <1>0, <2>1 DEF LowParts
  <2>s. Settled'
    BY <1>0, <1>t, <2>1 DEF Follows, Settled, HalfWritten, Filling, Patching, Gates, Regs
  <2>3. Follows'
    BY <2>s, <1>t, <2>1, VectorFacts DEF Follows, Filling, Patching, Regs, Vectors
  <2> QED BY <2>1, <2>2, <2>3
<1>2. ASSUME NEW s \in Patchers, Install(s)
      PROVE  LowParts' /\ Follows' /\ (pc' = "next" => gate' = installed')
  <2>1. /\ pc = "next" /\ saved' = Ours /\ MainReg' = reg' /\ UNCHANGED <<loaded, gate, installed>>
        /\ reg = Ours /\ gate = installed
    BY <1>0, <1>2 DEF Install, Begin, MainReg, irq, Follows
  <2>2. LowParts'
    BY <1>0, <2>1 DEF LowParts
  <2>3. CASE declared
    <3>1. /\ pc' = "patch_type"
          /\ reg' = [reg EXCEPT !["rsi"] = PatchOf[s].handler, !["rdi"] = PatchOf[s].vector]
      BY <1>2, <2>3 DEF Install
    <3>s. Settled'
      BY <1>0, <1>2, <2>1, <3>1 DEF Follows, Settled, HalfWritten, Install
    <3> QED BY <1>t, <2>1, <2>2, <3>1, <3>s, Patches DEF Follows, Filling, Patching, Regs
  <2>4. CASE ~declared
    <3>1. pc' = "next" /\ reg' = reg
      BY <1>2, <2>1, <2>4 DEF Install
    <3>s. Settled'
      BY <1>0, <1>2, <2>1, <3>1 DEF Follows, Settled, HalfWritten, Install
    <3> QED BY <2>1, <2>2, <3>1, <3>s DEF Follows, Filling, Patching
  <2> QED BY <2>3, <2>4
<1>3. CASE PatchType
  <2>1. /\ pc = "patch_type" /\ pc' = "patch_shift" /\ MainReg' = reg /\ UNCHANGED <<loaded, saved, installed, reg>>
        /\ gate' = [gate EXCEPT ![x] = [gate[x] EXCEPT !.lo = h % Page, !.present = TRUE]]
    BY <1>0, <1>3 DEF PatchType, WriteType, MainReg, irq
  <2>2. LowParts'
    BY <1>0, <1>t, <1>p, <2>1 DEF LowParts, Gates, Low, Patching
  <2>s. Settled'
    BY <1>0, <1>t, <1>p, <2>1 DEF Follows, Settled, HalfWritten, Filling, Patching, Gates, Regs
  <2>3. Follows'
    BY <2>s, <1>t, <1>p, <2>1 DEF Follows, Filling, Patching, Gates, Low
  <2> QED BY <2>1, <2>2, <2>3
<1>4. CASE PatchShift
  <2>1. /\ pc = "patch_shift" /\ pc' = "patch_middle" /\ MainReg' = reg' /\ UNCHANGED <<loaded, gate, saved, installed>>
        /\ reg' = [reg EXCEPT !["rax"] = h \div Page]
    BY <1>0, <1>4 DEF PatchShift, ShiftAddress, MainReg, irq
  <2>2. LowParts'
    BY <1>0, <2>1 DEF LowParts
  <2>3. gate[x].lo = Low(h) /\ gate[x].present
    BY <1>0, <2>1 DEF Follows
  <2>s. Settled'
    BY <1>0, <1>t, <1>p, <2>1 DEF Follows, Settled, HalfWritten, Filling, Patching, Gates, Regs
  <2>4. Follows'
    BY <2>s, <1>t, <1>p, <2>1, <2>3 DEF Follows, Filling, Patching, High, Regs
  <2> QED BY <2>1, <2>2, <2>4
<1>5. CASE PatchMiddle
  <2>1. /\ pc = "patch_middle" /\ pc' = "next" /\ MainReg' = saved
        /\ gate' = [gate EXCEPT ![x] = [gate[x] EXCEPT !.hi = reg["rax"] % Page]]
        /\ installed' = [installed EXCEPT ![x] = GateOf(h)] /\ loaded' = loaded
    BY <1>0, <1>5 DEF PatchMiddle, WriteMiddle, MainReg, irq
  <2>2. reg["rax"] = High(h) /\ gate[x].lo = Low(h) /\ gate[x].present
    BY <1>0, <2>1 DEF Follows
  <2>3. reg["rax"] % Page = High(h) /\ h \in Handlers /\ x \in Vectors
    BY <1>p, <2>1, <2>2, Parts DEF Patching
  <2>4. LowParts'
    BY <1>0, <1>t, <1>p, <2>1, <2>2, <2>3 DEF LowParts, Gates
  <2>5. gate'[x] = GateOf(h)
    BY <1>t, <2>1, <2>2, <2>3, GateOfType DEF Gates
  <2>6. \A v \in Vectors : gate'[v] = installed'[v]
    BY <1>t, <1>p, <2>1, <2>3, <2>5 DEF Gates, Patching
  <2>7. gate' = installed'
    BY <1>t, <2>1, <2>6 DEF Gates
  <2>s. Settled'
    BY <1>0, <1>t, <1>p, <2>1, <2>3, <2>5 DEF Follows, Settled, HalfWritten, Filling, Patching, Gates, Regs
  <2>8. Follows'
    BY <2>s, <1>p, <2>1, <2>7 DEF Follows, Filling, Patching
  <2> QED BY <2>1, <2>4, <2>7, <2>8
<1> QED BY <1>1, <1>2, <1>3, <1>4, <1>5

\* A handler changes nothing the interrupted statement depends on.
LEMMA HandlerStep ==
  ASSUME LowsDistinct, IInv, Handler
  PROVE  /\ LowParts' /\ Follows' /\ (pc' = "next" => gate' = installed')
         /\ stopped = "no"
<1>0. /\ TypeOK /\ LowParts /\ (stopped = "no" => Follows) /\ (pc = "next" => gate = installed)
      /\ {reg, hsaved, gprs} \subseteq [Regs -> Nat]
  BY DEF IInv, TypeOK
<1>1. UNCHANGED <<gate, loaded, pc, saved, installed, stopped>> /\ stopped = "no"
  BY DEF Handler, IrqSave, IrqCount, IrqEoi, IrqReturn, InHandler, main
<1>2. MainReg' = MainReg
  <2>1. CASE IrqSave
    <3>1. MainReg = reg /\ handler' = handler /\ hpc' = "count"
      BY <2>1 DEF IrqSave, InHandler, MainReg
    <3>2. CASE handler = Irq0Full
      BY <1>0, <2>1, <3>1, <3>2 DEF IrqSave, MainReg, Regs
    <3>3. CASE handler # Irq0Full
      BY <1>0, <2>1, <3>1, <3>3 DEF IrqSave, MainReg, Regs
    <3> QED BY <3>2, <3>3
  <2>2. CASE IrqCount \/ IrqEoi
    <3>1. /\ hpc \in {"count", "eoi"} /\ hpc' \in {"eoi", "restore"} /\ UNCHANGED <<hsaved, handler, gprs>>
          /\ \E a, d : reg' = [reg EXCEPT !["rax"] = a, !["rdx"] = d]
      BY <2>2 DEF IrqCount, IrqEoi, InHandler
    <3> QED BY <1>0, <3>1 DEF MainReg, Regs
  <2>3. CASE IrqReturn
    BY <2>3 DEF IrqReturn, InHandler, MainReg
  <2> QED BY <2>1, <2>2, <2>3 DEF Handler
<1>3. LowParts'
  BY <1>0, <1>1 DEF LowParts
<1> QED BY <1>0, <1>1, <1>2, <1>3, Quiet

\* The steps that only let time pass for an installer.
LEMMA OtherStep ==
  ASSUME LowsDistinct, IInv,
         Sti \/ Cli \/ PicRemap \/ Nmi \/ UNCHANGED vars \/ (\E l \in Lines : Raise(l) \/ Interrupt(l))
  PROVE  /\ LowParts' /\ ((stopped' = "no" \/ hpc' = "none") => Follows')
         /\ (pc' = "next" => gate' = installed')
<1>0. /\ TypeOK /\ LowParts /\ ((stopped = "no" \/ hpc = "none") => Follows)
      /\ (pc = "next" => gate = installed)
  BY DEF IInv
<1>1. UNCHANGED <<gate, loaded, pc, saved, installed, reg>>
  BY DEF Sti, Cli, PicRemap, Nmi, Raise, Interrupt, vars, main
<1>2. LowParts' /\ (pc' = "next" => gate' = installed')
  BY <1>0, <1>1 DEF LowParts
<1>3. CASE Sti \/ Cli \/ PicRemap \/ UNCHANGED vars \/ (\E l \in Lines : Raise(l))
  <2>1. UNCHANGED <<hpc, hsaved, handler, gprs, stopped>>
    BY <1>3 DEF Sti, Cli, PicRemap, Raise, vars, irq
  <2> QED BY <1>0, <1>1, <1>2, <2>1, Quiet DEF MainReg
<1>4. ASSUME NEW v \in Vectors, Enter(v), stopped = "no", v # Timer \/ hpc = "none",
             UNCHANGED <<hsaved, gprs>>
      PROVE  (stopped' = "no" \/ hpc' = "none") => Follows'
  <2>1. (stopped' = "no" => hpc' = "save" /\ v = Timer) /\ (stopped' # "no" => hpc' = hpc)
    BY <1>0, <1>4, EnterFacts
  <2>2. ASSUME stopped' = "no" \/ hpc' = "none" PROVE Follows /\ MainReg' = MainReg
    BY <1>0, <1>1, <1>4, <2>1, <2>2 DEF MainReg
  <2> QED BY <1>1, <2>2, Quiet
<1>5. CASE Nmi
  BY <1>2, <1>4, <1>5, VectorFacts DEF Nmi
<1>6. CASE \E l \in Lines : Interrupt(l)
  <2>1. PICK l \in Lines : Interrupt(l)
    BY <1>6
  <2>2. PICK v \in Vectors : Enter(v)
    BY <2>1, VectorFacts DEF Interrupt
  <2> QED BY <1>2, <1>4, <2>1, <2>2 DEF Interrupt, Running
<1> QED BY <1>3, <1>5, <1>6

LEMMA InvInit == Init => IInv
<1> SUFFICES ASSUME Init PROVE IInv
  OBVIOUS
<1>1. TypeOK
  BY TypeInit
<1>2. NoNesting
  BY DEF Init, NoNesting
<1>3. LowParts
  BY DEF Init, LowParts, NoGate
<1>4. MainReg = Ours /\ gate = installed /\ pc = "next"
  BY DEF Init, MainReg
<1>5. Follows
  BY <1>4 DEF Init, Follows, Settled, Filling, Patching
<1> QED BY <1>1, <1>2, <1>3, <1>4, <1>5 DEF IInv

LEMMA InvStep ==
  ASSUME LowsDistinct, IInv, [Next]_vars
  PROVE  IInv'
<1>1. TypeOK' /\ NoNesting'
  BY TypeStep, NestStep DEF IInv
<1>2. CASE Handler
  BY <1>1, <1>2, HandlerStep DEF IInv
<1>3. CASE Sti \/ Cli \/ PicRemap \/ Nmi \/ UNCHANGED vars \/ (\E l \in Lines : Raise(l) \/ Interrupt(l))
  BY <1>1, <1>3, OtherStep DEF IInv
<1>4. CASE FillClear \/ FillType \/ FillShift \/ FillMiddle \/ Lidt
  <2>1. hpc = "none" /\ stopped = "no"
    BY <1>4 DEF FillClear, FillType, FillShift, FillMiddle, Lidt, Running
  <2> QED BY <1>1, <1>4, <2>1, FillStep DEF IInv
<1>5. CASE IdtInstall \/ PatchType \/ PatchShift \/ PatchMiddle \/ (\E s \in Patchers : Install(s))
  <2>1. hpc = "none" /\ stopped = "no"
    BY <1>5 DEF IdtInstall, PatchType, PatchShift, PatchMiddle, Install, Begin, Running
  <2> QED BY <1>1, <1>5, <2>1, PatchStep DEF IInv
<1> QED
  BY <1>2, <1>3, <1>4, <1>5 DEF Next, Main, TickInstall, IrqFullSaveOn, PfInstall, NmiInstall, Patchers

LEMMA Invariant == ASSUME LowsDistinct PROVE Spec => []IInv
<1>1. IInv /\ [Next]_vars => IInv'
  BY InvStep
<1> QED BY InvInit, <1>1, PTL DEF Spec

\* The stores of an installer take effect whole, whatever interrupts them: between
\* statements each gate is the one the statements before have asked for.
THEOREM GatesHold == ASSUME LowsDistinct PROVE Spec => []GatesAsInstalled
<1>1. IInv => GatesAsInstalled
  BY DEF IInv, GatesAsInstalled
<1> QED BY Invariant, <1>1, PTL

\* No statement and no interrupt changes a register of the program.
THEOREM RegistersKept == ASSUME LowsDistinct PROVE Spec => []Transparent
<1>1. IInv => Transparent
  BY DEF IInv, Transparent, Follows, MainReg
<1> QED BY Invariant, <1>1, PTL

\* Tick handlers run with IF off and one at a time.
THEOREM HandlersDoNotNest == ASSUME LowsDistinct PROVE Spec => []OneAtATime
<1>1. IInv => OneAtATime
  BY DEF IInv, OneAtATime, NoNesting
<1> QED BY Invariant, <1>1, PTL

-----------------------------------------------------------------------------
(* Where an interrupt goes.                                                *)

LEMMA EnterWhere ==
  ASSUME LowsDistinct, IInv, stopped = "no", NEW v \in Vectors, Enter(v)
  PROVE  /\ stopped' = "wild" => pc \in HalfWritten /\ handler' = Target(gate[MainReg["rdi"]])
         /\ stopped' = "fault" /\ loaded => pc = "type"
<1>0. Follows
  BY DEF IInv
<1>1. CASE ~loaded
  BY <1>1 DEF Enter
<1>2. CASE loaded /\ (\E h \in Handlers : gate[v] = GateOf(h))
  <2>1. PICK h \in Handlers : gate[v] = GateOf(h)
    BY <1>2
  <2>2. gate[v].present /\ Target(gate[v]) = h
    BY <2>1, Parts DEF Target, GateOf, Low, High
  <2> QED BY <1>2, <2>2 DEF Enter
<1>3. CASE loaded /\ pc \in HalfWritten \cup {"type"} /\ v = MainReg["rdi"]
  <2>1. pc = "type" => ~gate[v].present
    BY <1>0, <1>3 DEF Follows
  <2>2. pc \in HalfWritten => gate[v].present
    BY <1>0, <1>3 DEF Follows, HalfWritten
  <2> QED BY <1>3, <2>1, <2>2 DEF Enter, HalfWritten
<1> QED BY <1>0, <1>1, <1>2, <1>3 DEF Follows, Settled

LEMMA EntryStep ==
  ASSUME LowsDistinct, IInv, stopped = "no", [Next]_vars
  PROVE  /\ stopped' = "wild" => pc \in HalfWritten /\ handler' = Target(gate[MainReg["rdi"]])
         /\ stopped' = "fault" /\ loaded => pc = "type"
<1>1. CASE Main \/ Handler \/ (\E l \in Lines : Raise(l)) \/ UNCHANGED vars
  <2>1. stopped' = stopped
    <3>1. CASE Handler \/ (\E l \in Lines : Raise(l)) \/ UNCHANGED vars
      BY <3>1 DEF Handler, IrqSave, IrqCount, IrqEoi, IrqReturn, Raise, vars
    <3>2. CASE Main
      BY <3>2 DEF Main, Sti, Cli, PicRemap, IdtInstall, FillClear, FillType, FillShift, FillMiddle, Lidt,
         TickInstall, IrqFullSaveOn, PfInstall, NmiInstall, Install, PatchType, PatchShift, PatchMiddle,
         WriteType, ShiftAddress
    <3> QED BY <1>1, <3>1, <3>2
  <2> QED BY <2>1
<1>2. CASE Nmi
  BY <1>2, EnterWhere, VectorFacts DEF Nmi
<1>3. ASSUME NEW l \in Lines, Interrupt(l)
      PROVE  /\ stopped' = "wild" => pc \in HalfWritten /\ handler' = Target(gate[MainReg["rdi"]])
             /\ stopped' = "fault" /\ loaded => pc = "type"
  <2>1. PICK v \in Vectors : Enter(v)
    BY <1>3, VectorFacts DEF Interrupt
  <2> QED BY <2>1, EnterWhere
<1> QED BY <1>1, <1>2, <1>3 DEF Next

\* Whatever the program and wherever its stubs: an interrupt is entered at an address
\* that is no handler's only between the two stores of a gate's address and through that
\* gate, and in a loaded IDT it finds no gate only where idt_install has cleared one.
THEOREM OnlyHalfWrittenAstray == ASSUME LowsDistinct PROVE Spec => NoEntryAstray
<1>1. IInv /\ [Next]_vars =>
        [stopped = "no" =>
           /\ stopped' = "wild" => pc \in HalfWritten /\ handler' = Target(gate[MainReg["rdi"]])
           /\ stopped' = "fault" /\ loaded => pc = "type"]_vars
  BY EntryStep
<1> QED BY Invariant, <1>1, PTL DEF Spec, NoEntryAstray
=============================================================================
