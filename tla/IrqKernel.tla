------------------------------ MODULE IrqKernel ------------------------------
(***************************************************************************)
(* Interrupts in a freestanding kernel: kernel:idt_install, tick_install,  *)
(* irq_full_save_on, pf_install and nmi_install write gates of the IDT     *)
(* while it may already be in use, and the timer stubs they install count  *)
(* ticks on top of whatever they interrupt (ACLM/codegen.py,               *)
(* _kernel_idt_install, _kernel_tick_install, _kernel_irq_full_save_on,    *)
(* _kernel_pf_install, _kernel_nmi_install).                               *)
(*                                                                         *)
(* The main program is any straight-line sequence of these statements.     *)
(* The interrupt controller, and the way the processor enters a gate, are  *)
(* the environment.  Addresses are numbers; only their two low 16-bit      *)
(* parts are kept, since an image is far below 4 GiB.                      *)
(***************************************************************************)
EXTENDS Integers, FiniteSets, TLC

CONSTANTS
  Default, Irq0, Irq0Full, PfStub, NmiStub,  \* addresses of the handlers
  LastVector,   \* 255 in the code
  Timer, Keyboard,  \* the vectors of the two lines after pic_remap (32, 33)
  BiosBase,     \* where the lines are before it, relative to Timer
  Devices,      \* the lines that raise interrupts
  Reinstall,    \* may the program execute idt_install again, on a live IDT?
  MaxStmts,     \* bound: statements of the program
  MaxIrqs       \* bound: interrupts the devices raise

Page == 65536   \* what shr 16 divides by

Handlers == {Default, Irq0, Irq0Full, PfStub, NmiStub}
Vectors == 0..LastVector
NmiVector == 2
PfVector == 14
Lines == {Timer, Keyboard}

\* The controller numbers its lines from BiosBase before it is reprogrammed.
ASSUME IrqAssumption ==
  /\ \A h \in Handlers : h \in Nat /\ h \div Page < Page
  /\ {Default, PfStub, NmiStub} \cap {Irq0, Irq0Full} = {}
  /\ LastVector \in Nat
  /\ {NmiVector, PfVector, Timer, Keyboard} \subseteq Vectors /\ Timer \notin {NmiVector, PfVector}
  /\ \A l \in Lines : l - Timer + BiosBase \in Vectors
  /\ Devices \subseteq Lines /\ Reinstall \in BOOLEAN
  /\ MaxStmts \in Nat /\ MaxIrqs \in Nat

VARIABLES
  gate,      \* the IDT, one gate for each vector
  loaded,    \* lidt has been executed
  declared,  \* at compile time: is __idt in the data layout?
  iflag,     \* RFLAGS.IF
  remapped,  \* the interrupt controller has been reprogrammed
  pending, inService,  \* of the controller
  tick,      \* __tick
  reg,       \* the registers the code below uses
  pc, saved, \* the main program: where it is, and what it has pushed
  hpc, hsaved,  \* the handler: where it is, and what it has saved
  handler,   \* the address that was entered
  gprs,      \* __irq_gprs
  stopped,   \* why the processor executes nothing any more, or "no"
  stmts, raised,  \* bounds
  installed \* history: what the statements have put in each gate

main == <<pc, saved, stmts>>
irq  == <<hpc, hsaved, handler, gprs>>
pic  == <<remapped, pending, inService, raised>>
vars == <<gate, loaded, declared, iflag, pic, tick, reg, main, irq, stopped, installed>>

Regs == {"rax", "rdx", "rsi", "rdi", "r15"}
Ours == [rax |-> 1, rdx |-> 2, rsi |-> 3, rdi |-> 4, r15 |-> 5]  \* the program's values
NoGate == [lo |-> 0, hi |-> 0, present |-> FALSE]
GateOf(h) == [lo |-> h % Page, hi |-> h \div Page, present |-> TRUE]
Target(g) == g.hi * Page + g.lo

\* Stands for the address of __tick and of __irq_gprs, which the stubs load to reach them.
DataAddress == 0

\* Places inside idt_install, and inside the other installers.
Filling == {"clear", "type", "shift", "middle"}
Patching == {"patch_type", "patch_shift", "patch_middle"}

\* The trampoline has cleared IF; the data section is zero.
Init ==
  /\ gate = [v \in Vectors |-> NoGate] /\ installed = gate
  /\ loaded = FALSE /\ declared = FALSE /\ iflag = FALSE
  /\ remapped = FALSE /\ pending = {} /\ inService = {} /\ raised = 0
  /\ tick = 0
  /\ reg = Ours /\ saved = Ours /\ hsaved = Ours
  /\ gprs = [r \in Regs |-> 0]
  /\ pc = "next" /\ hpc = "none" /\ handler = 0
  /\ stopped = "no" /\ stmts = 0

-----------------------------------------------------------------------------
(* The main program *)

Running == stopped = "no" /\ hpc = "none"

Begin == /\ Running /\ pc = "next" /\ stmts < MaxStmts
         /\ stmts' = stmts + 1

Sti == /\ Begin /\ iflag' = TRUE
       /\ UNCHANGED <<gate, loaded, declared, pic, tick, reg, pc, saved, irq, stopped, installed>>

Cli == /\ Begin /\ iflag' = FALSE
       /\ UNCHANGED <<gate, loaded, declared, pic, tick, reg, pc, saved, irq, stopped, installed>>

\* ICW1 makes the controllers forget what they have seen; the last two outs
\* unmask every line.
PicRemap ==
  /\ Begin
  /\ remapped' = TRUE /\ pending' = {} /\ inService' = {}
  /\ UNCHANGED <<gate, loaded, declared, iflag, raised, tick, reg, pc, saved, irq, stopped, installed>>

\* idt_install saves registers and fills every gate with the default handler.
IdtInstall ==
  /\ Begin /\ (declared => Reinstall)
  /\ declared' = TRUE
  /\ saved' = reg
  /\ reg' = [reg EXCEPT !["rsi"] = Default, !["rdi"] = 0]
  /\ pc' = "clear"
  /\ UNCHANGED <<gate, loaded, iflag, pic, tick, irq, stopped, installed>>

\* The 8-byte store of the address over the gate; the present bit that is in
\* its way becomes bit 47 of the address.
FillClear ==
  /\ Running /\ pc = "clear"
  /\ gate' = [gate EXCEPT ![reg["rdi"]] = [lo |-> reg["rsi"] % Page, hi |-> 0, present |-> FALSE]]
  /\ pc' = "type"
  /\ UNCHANGED <<loaded, declared, iflag, pic, tick, reg, saved, stmts, irq, stopped, installed>>

\* Offset 0..15, selector and type.
WriteType(next) ==
  /\ gate' = [gate EXCEPT ![reg["rdi"]].lo = reg["rsi"] % Page, ![reg["rdi"]].present = TRUE]
  /\ pc' = next
  /\ UNCHANGED <<loaded, declared, iflag, pic, tick, reg, saved, stmts, irq, stopped, installed>>

\* Fault variant: the address is not shifted.
ShiftMissing(next) ==
  /\ reg' = [reg EXCEPT !["rax"] = reg["rsi"]]
  /\ pc' = next
  /\ UNCHANGED <<gate, loaded, declared, iflag, pic, tick, saved, stmts, irq, stopped, installed>>

\* mov rax, rsi; shr rax, 16
ShiftAddress(next) ==
  /\ reg' = [reg EXCEPT !["rax"] = reg["rsi"] \div Page]
  /\ pc' = next
  /\ UNCHANGED <<gate, loaded, declared, iflag, pic, tick, saved, stmts, irq, stopped, installed>>

\* Offset 16..31 (and the rest, which is zero).
WriteMiddle ==
  gate' = [gate EXCEPT ![reg["rdi"]].hi = reg["rax"] % Page]

FillType  == Running /\ pc = "type" /\ WriteType("shift")
FillShift == Running /\ pc = "shift" /\ ShiftAddress("middle")

FillMiddle ==
  /\ Running /\ pc = "middle"
  /\ WriteMiddle
  /\ reg' = [reg EXCEPT !["rdi"] = @ + 1]
  /\ pc' = IF reg'["rdi"] > LastVector THEN "lidt" ELSE "clear"
  /\ UNCHANGED <<loaded, declared, iflag, pic, tick, saved, stmts, irq, stopped, installed>>

Lidt ==
  /\ Running /\ pc = "lidt"
  /\ loaded' = TRUE
  /\ installed' = [v \in Vectors |-> GateOf(Default)]
  /\ reg' = saved /\ pc' = "next"
  /\ UNCHANGED <<gate, declared, iflag, pic, tick, saved, stmts, irq, stopped>>

\* The other installers emit their stub, and write one gate only if an
\* idt_install stands before them in the source.
PatchOf == [tick_install     |-> [vector |-> Timer, handler |-> Irq0],
            irq_full_save_on |-> [vector |-> Timer, handler |-> Irq0Full],
            pf_install       |-> [vector |-> PfVector, handler |-> PfStub],
            nmi_install      |-> [vector |-> NmiVector, handler |-> NmiStub]]

Install(s) ==
  /\ Begin
  /\ saved' = reg
  /\ IF declared
     THEN /\ reg' = [reg EXCEPT !["rsi"] = PatchOf[s].handler, !["rdi"] = PatchOf[s].vector]
          /\ pc' = "patch_type"
     ELSE UNCHANGED <<reg, pc>>
  /\ UNCHANGED <<gate, loaded, declared, iflag, pic, tick, irq, stopped, installed>>

TickInstall   == Install("tick_install")
IrqFullSaveOn == Install("irq_full_save_on")
PfInstall     == Install("pf_install")
NmiInstall    == Install("nmi_install")

PatchType  == Running /\ pc = "patch_type" /\ WriteType("patch_shift")
PatchShift == Running /\ pc = "patch_shift" /\ ShiftAddress("patch_middle")

\* Fault variant: the program's registers are not taken back.
PatchMiddleNoPop ==
  /\ Running /\ pc = "patch_middle"
  /\ WriteMiddle
  /\ installed' = [installed EXCEPT ![reg["rdi"]] = GateOf(reg["rsi"])]
  /\ pc' = "next"
  /\ UNCHANGED <<loaded, declared, iflag, pic, tick, reg, saved, stmts, irq, stopped>>

PatchMiddle ==
  /\ Running /\ pc = "patch_middle"
  /\ WriteMiddle
  /\ installed' = [installed EXCEPT ![reg["rdi"]] = GateOf(reg["rsi"])]
  /\ reg' = saved /\ pc' = "next"
  /\ UNCHANGED <<loaded, declared, iflag, pic, tick, saved, stmts, irq, stopped>>

-----------------------------------------------------------------------------
(* The environment: devices, the interrupt controller, and the processor's *)
(* entry through a gate.                                                   *)

Raise(l) ==
  /\ l \in Devices \ pending /\ raised < MaxIrqs
  /\ pending' = pending \cup {l} /\ raised' = raised + 1
  /\ UNCHANGED <<gate, loaded, declared, iflag, remapped, inService, tick, reg, main, irq, stopped, installed>>

\* The line the controller offers; the timer has the higher priority.
Offered(l) ==
  /\ l \in pending /\ l \notin inService /\ Timer \notin inService
  /\ l = Timer \/ (Timer \notin pending)

Enter(v) ==
  IF ~ loaded \/ ~ gate[v].present
  THEN stopped' = "fault" /\ UNCHANGED <<hpc, handler>>
  ELSE /\ handler' = Target(gate[v])
       /\ IF handler' \in {Irq0, Irq0Full}
          THEN hpc' = "save" /\ UNCHANGED stopped
          ELSE /\ stopped' = IF handler' \in Handlers THEN "halted" ELSE "wild"
               /\ UNCHANGED hpc

Interrupt(l) ==
  /\ Running /\ iflag /\ Offered(l)
  /\ pending' = pending \ {l} /\ inService' = inService \cup {l}
  /\ iflag' = FALSE
  /\ Enter(IF remapped THEN l ELSE l - Timer + BiosBase)
  /\ UNCHANGED <<gate, loaded, declared, remapped, raised, tick, reg, main, hsaved, gprs, installed>>

\* The non-maskable interrupt comes at any time, in a handler too.
Nmi ==
  /\ stopped = "no" /\ loaded /\ raised < MaxIrqs
  /\ raised' = raised + 1 /\ iflag' = FALSE
  /\ Enter(NmiVector)
  /\ UNCHANGED <<gate, loaded, declared, remapped, pending, inService, tick, reg, main, hsaved, gprs, installed>>

-----------------------------------------------------------------------------
(* __irq0_stub and __irq0_full *)

InHandler(l) == stopped = "no" /\ hpc = l

\* Fault variant: only one register is pushed.
IrqSaveLess ==
  /\ InHandler("save")
  /\ hsaved' = [r \in Regs |-> IF r = "rdx" THEN reg[r] ELSE hsaved[r]]
  /\ UNCHANGED <<gprs, gate, loaded, declared, iflag, pic, tick, reg, main, handler, stopped, installed>>
  /\ hpc' = "count"

\* The short stub pushes the two registers it uses; the full one pushes r15, copies
\* every register into __irq_gprs with r15 as the base, and the pushed r15 through rax.
IrqSave ==
  /\ InHandler("save")
  /\ IF handler = Irq0Full
     THEN /\ gprs' = reg
          /\ hsaved' = [hsaved EXCEPT !["r15"] = reg["r15"]]
          /\ reg' = [reg EXCEPT !["r15"] = DataAddress, !["rax"] = reg["r15"]]
     ELSE /\ hsaved' = [hsaved EXCEPT !["rax"] = reg["rax"], !["rdx"] = reg["rdx"]]
          /\ UNCHANGED <<gprs, reg>>
  /\ hpc' = "count"
  /\ UNCHANGED <<gate, loaded, declared, iflag, pic, tick, main, handler, stopped, installed>>

IrqCount ==
  /\ InHandler("count")
  /\ tick' = tick + 1
  /\ reg' = [reg EXCEPT !["rax"] = DataAddress, !["rdx"] = tick + 1]
  /\ hpc' = "eoi"
  /\ UNCHANGED <<gate, loaded, declared, iflag, pic, main, hsaved, handler, gprs, stopped, installed>>

\* Fault variant: the controller is not told.
IrqNoEoi ==
  /\ InHandler("eoi")
  /\ reg' = [reg EXCEPT !["rax"] = 32, !["rdx"] = 32]
  /\ hpc' = "restore"
  /\ UNCHANGED <<gate, loaded, declared, iflag, pic, tick, main, hsaved, handler, gprs, stopped, installed>>

\* The end-of-interrupt byte ends the interrupt of the highest priority.
IrqEoi ==
  /\ InHandler("eoi")
  /\ inService' = inService \ {IF Timer \in inService THEN Timer ELSE Keyboard}
  /\ reg' = [reg EXCEPT !["rax"] = 32, !["rdx"] = 32]
  /\ hpc' = "restore"
  /\ UNCHANGED <<gate, loaded, declared, iflag, remapped, pending, raised, tick, main, hsaved, handler, gprs, stopped, installed>>

\* The registers are taken back (the full stub's with r15 as the base again, then r15
\* from the stack); iretq restores IF with them.
IrqReturn ==
  /\ InHandler("restore")
  /\ reg' = IF handler = Irq0Full
            THEN [gprs EXCEPT !["r15"] = hsaved["r15"]]
            ELSE [reg EXCEPT !["rax"] = hsaved["rax"], !["rdx"] = hsaved["rdx"]]
  /\ iflag' = TRUE
  /\ hpc' = "none"
  /\ UNCHANGED <<gate, loaded, declared, pic, tick, main, hsaved, handler, gprs, stopped, installed>>

-----------------------------------------------------------------------------
Main ==
  \/ Sti \/ Cli \/ PicRemap
  \/ IdtInstall \/ FillClear \/ FillType \/ FillShift \/ FillMiddle \/ Lidt
  \/ TickInstall \/ IrqFullSaveOn \/ PfInstall \/ NmiInstall
  \/ PatchType \/ PatchShift \/ PatchMiddle

Handler == IrqSave \/ IrqCount \/ IrqEoi \/ IrqReturn

Next ==
  \/ Main \/ Handler \/ Nmi
  \/ \E l \in Lines : Raise(l) \/ Interrupt(l)

Spec == Init /\ [][Next]_vars

\* The processor goes on executing and takes an interrupt that goes on being
\* offered; nothing says that a device raises one.
FairSpec == Spec /\ WF_vars(Handler) /\ WF_vars(\E l \in Lines : Interrupt(l))

-----------------------------------------------------------------------------
TypeOK ==
  /\ gate \in [Vectors -> [lo : 0..(Page - 1), hi : 0..(Page - 1), present : BOOLEAN]]
  /\ installed \in [Vectors -> [lo : 0..(Page - 1), hi : Nat, present : BOOLEAN]]
  /\ loaded \in BOOLEAN /\ declared \in BOOLEAN /\ iflag \in BOOLEAN /\ remapped \in BOOLEAN
  /\ pending \subseteq Lines /\ inService \subseteq Lines
  /\ {reg, saved, hsaved, gprs} \subseteq [Regs -> Nat]
  /\ pc \in {"next", "lidt"} \cup Filling \cup Patching
  /\ hpc \in {"none", "save", "count", "eoi", "restore"}
  /\ handler \in Nat /\ tick \in Nat
  /\ stopped \in {"no", "fault", "halted", "wild"}

\* The registers as the main program will have them when the handler returns.
MainReg ==
  IF hpc \in {"none", "save"} THEN reg
  ELSE IF handler = Irq0Full THEN [gprs EXCEPT !["r15"] = hsaved["r15"]]
  ELSE [reg EXCEPT !["rax"] = hsaved["rax"], !["rdx"] = hsaved["rdx"]]

\* An installer has stored the low half of an address, and not yet the middle.
HalfWritten == {"shift", "middle", "patch_shift", "patch_middle"}

(* When an interrupt can go astray, wherever the handlers lie and however  *)
(* often the IDT is filled again.  It is entered at an address that is no  *)
(* handler's only between the two stores of an address, through the one    *)
(* gate that is being written, and in an IDT that has been loaded it finds *)
(* no gate only while idt_install has the present bit of one cleared; at   *)
(* every other point of every program each vector leads to a handler.      *)
NoEntryAstray ==
  [][stopped = "no" =>
       /\ stopped' = "wild" => pc \in HalfWritten /\ handler' = Target(gate[MainReg["rdi"]])
       /\ stopped' = "fault" /\ loaded => pc = "type"]_vars

(* A statement's stores take effect whole and in statement order, although *)
(* they take their operands from registers that handlers use too: between  *)
(* statements every gate is the one last asked for.  That the last         *)
(* statement wins is what the code does and not what its documents promise *)
(* of each: tick_install after irq_full_save_on puts the stub that saves   *)
(* two registers back, against docs/KERNEL_CONTRACT.md:122.                *)
GatesAsInstalled == pc = "next" => gate = installed

(* Neither a statement nor an interrupt changes a register of the program. *)
Transparent == pc = "next" /\ hpc = "none" => reg = Ours

(* Inside a tick handler, and only there, one interrupt is in service and  *)
(* IF is off, so that the static __irq_gprs is never in use twice.         *)
OneAtATime ==
  /\ hpc # "none" => ~ iflag
  /\ stopped = "no" /\ hpc \in {"none", "restore"} => inService = {}

(* Once the timer's gate holds a tick handler and the program lets          *)
(* interrupts in for good, every timer interrupt is counted or the machine  *)
(* has been stopped by another vector.                                      *)
TimerServed ==
  \A n \in 0..MaxIrqs :
    (tick = n /\ Timer \in pending /\ loaded /\ remapped /\ stmts = MaxStmts /\ iflag /\ pc = "next"
       /\ Target(gate[Timer]) \in {Irq0, Irq0Full})
      ~> (tick > n \/ stopped # "no")

=============================================================================
