------------------------------- MODULE Lowering -------------------------------
(***************************************************************************)
(* Lowering: the code that ACLM/codegen.py emits for one statement, run on *)
(* a Processor, against what the statement promises to do.                 *)
(*                                                                         *)
(* Every statement has to bring its operands, which may be any registers   *)
(* of the user, into fixed registers through a few temporaries, and give   *)
(* back what it borrowed.  Written says which registers a lowering has     *)
(* already overwritten when it reads an operand; Apart says that no        *)
(* operand of a statement is one of those, nor its result one of those     *)
(* restored after it is written.                                           *)
(***************************************************************************)
EXTENDS Processor, FiniteSets

CONSTANTS
  Ops,          \* the statements executed
  Operands(_),  \* the operands of statements that have that many
  Dests,        \* the registers that receive results
  Start, StartMem  \* what registers and memory hold before the statement

VARIABLES stmt, code  \* the statement, and what is emitted for it

vars == <<cpu, stmt, code>>

UserRegs == Regs \ {"r11", "r15", "rbp"}   \* regs.py reserves the others
Temp == "r15"                       \* SCRATCH

-----------------------------------------------------------------------------
(* Operands: a register, a number (or the address of a data label), or the *)
(* sum of two registers.                                                   *)

Reg(r) == [kind |-> "reg", a |-> r, b |-> r, n |-> 0]
Num(v) == [kind |-> "num", a |-> "none", b |-> "none", n |-> v]
Sum(p, q) == [kind |-> "sum", a |-> p, b |-> q, n |-> 0]

IsOperand(o) ==
  \/ \E r \in UserRegs : o = Reg(r)
  \/ o = Num(o.n) /\ o.n \in Int
  \/ \E p, q \in UserRegs : o = Sum(p, q)

RegsOf(o) == {o.a, o.b} \ {"none"}
IsSum(o) == o.kind = "sum"

Copy(d, s) == IF d = s THEN <<>> ELSE <<Mov(d, s)>>

Eval(o, d) ==
  CASE o.kind = "num" -> <<Imm(d, o.n)>>
    [] o.kind = "reg" -> Copy(d, o.a)
    [] o.kind = "sum" -> Copy("r11", o.a) \o <<Push("r11")>> \o Copy("r12", o.b)
                           \o <<Pop("r11"), Add("r11", "r12")>> \o Copy(d, "r11")

\* Through SCRATCH, as most statements do.
Via(o, d) == Eval(o, Temp) \o <<Mov(d, Temp)>>

\* Operands into registers one after another.
Gather(args, targets) == FlattenSeq([k \in DOMAIN args |-> Eval(args[k], targets[k])])
Moves(ds, ss) == [k \in DOMAIN ds |-> Mov(ds[k], ss[k])]
Save(rs) == [k \in DOMAIN rs |-> Push(rs[k])]
RestoreInOrder(rs) == [k \in DOMAIN rs |-> Pop(rs[k])]

Restore(rs) == [k \in DOMAIN rs |-> Pop(Reverse(rs)[k])]

-----------------------------------------------------------------------------
(* What each statement pushes first and pops last.                         *)

Helpers == <<"r11", "r12", "r13">>
Fours == <<"r12", "r13", "r14", "rbx">>

Saved(op) ==
  CASE op \in {"blast_fill", "blast_copy", "rep_fill", "rep_copy", "wire_cmp"} -> Helpers
    [] op = "wire_copy" -> <<"r11", "r12">>
    [] op \in {"wire_len", "wire_emit", "cmp"} -> <<"r11">>
    [] op \in {"cell_map", "cell_protect", "net_poll"} -> <<"r12", "r13", "r14">>
    [] op \in {"cell_mapfile", "epoll_ctl", "epoll_wait"} -> Fours
    [] op \in {"mem_store", "heap_alloc", "printk"} -> <<"r12">>
    [] op = "serial_putc" -> <<"rax", "rdx">>
    [] op = "kbd_poll" -> <<"rdx">>
    [] op \in {"nic_bar", "preempt_arm"} -> <<"rax">>
    [] op = "nic_read" -> <<"rdx", "rsi">>
    [] op = "nic_write" -> <<"rax", "rdx", "rcx">>
    [] OTHER -> <<>>

-----------------------------------------------------------------------------
(* Arithmetic and memory.                                                  *)

Compared(x, y) ==
  Via(x, "r11") \o <<Push("r11")>> \o Eval(y, Temp) \o <<Pop("r11"), Cmp("r11", Temp)>>

ShiftByAnywhere(d, v) ==
  IF v.kind = "num" THEN <<ShlImm(d, v.n)>>
  ELSE <<Push("rcx"), Mov("rcx", Temp), Shl(d), Pop("rcx")>>

\* A shift by a register needs it in cl; the destination may be rcx itself.
ShiftBy(d, v) ==
  IF v.kind = "num" THEN <<ShlImm(d, v.n)>>
  ELSE IF d = "rcx"
  THEN <<Push("rax"), Mov("rax", "rcx"), Mov("rcx", Temp), Shl("rax"), Mov("rcx", "rax"), Pop("rax")>>
  ELSE <<Push("rcx"), Mov("rcx", Temp), Shl(d), Pop("rcx")>>

DivideBy(d, result) ==
  <<Push("rax"), Push("rdx"), Mov("rax", d), Idiv(Temp), Mov(Temp, result),
    Pop("rdx"), Pop("rax"), Mov(d, Temp)>>

CpuBin(op, d, v) ==
  IF op = "cpu_set" THEN Eval(v, d)
  ELSE Eval(v, Temp) \o
    CASE op = "cpu_add" -> <<Add(d, Temp)>>
      [] op = "cpu_shl" -> ShiftBy(d, v)
      [] op = "cpu_div" -> DivideBy(d, "rax")
      [] op = "cpu_mod" -> DivideBy(d, "rdx")

CpuUnary(op, d) ==
  CASE op = "cpu_not" -> <<Not(d)>>
    [] op = "cpu_neg" -> <<Neg(d)>>
    [] op = "cpu_inc" -> <<AddImm(d, 1)>>
    [] op = "cpu_dec" -> <<AddImm(d, -1)>>

\* A label without an index is an address by itself.
CpuLea(d, args) ==
  IF Len(args) = 1 THEN Eval(args[1], d)
  ELSE IF args[1].kind = "reg" THEN <<Lea(d, args[1].a, args[2].a, 1)>>
  ELSE <<Imm("r12", args[1].n), Lea(d, "r12", args[2].a, 1)>>

\* A base that is a data label is loaded into r11; an index that is a number is
\* a displacement, on top of the one each address has here.
BaseReg(o) == IF o.kind = "reg" THEN o.a ELSE "r11"
BaseLoad(o) == IF o.kind = "reg" THEN <<>> ELSE <<Imm("r11", o.n)>>
IndexReg(o) == IF o.kind = "reg" THEN o.a ELSE "none"

MemLoad(d, base, index) ==
  BaseLoad(base) \o <<Load(d, BaseReg(base), IndexReg(index), index.n + 1)>>

MemStore(value, base, index) ==
  Eval(value, "r12") \o BaseLoad(base) \o <<Store(BaseReg(base), IndexReg(index), index.n + 1, "r12")>>

-----------------------------------------------------------------------------
(* Blocks and strings.                                                     *)

Loop(test, body) ==
  <<At("loop")>> \o test \o <<Je("done")>> \o body \o <<Jmp("loop"), At("done")>>

BlastFill(d, v, n) ==
  <<Mov("r11", d)>> \o Via(v, "r12") \o Via(n, "r13")
    \o Loop(<<Test("r13")>>,
            <<Store("r11", "none", 0, "r12"), AddImm("r11", 1), AddImm("r13", -1)>>)

BlastCopy(d, s, n) ==
  <<Mov("r11", d)>> \o Via(s, "r12") \o Via(n, "r13")
    \o Loop(<<Test("r13")>>,
            <<Load(Temp, "r12", "none", 0), Store("r11", "none", 0, Temp),
              AddImm("r11", 1), AddImm("r12", 1), AddImm("r13", -1)>>)

BlastRepFill(d, v, n) ==
  <<Mov("r11", d)>> \o Via(v, "r12") \o Via(n, "r13")
    \o <<Mov("rdi", "r11"), Mov("rax", "r12"), Mov("rcx", "r13"), RepStosb, Mov(d, "r11")>>

BlastRepCopy(d, s, n) ==
  <<Mov("r11", d)>> \o Via(s, "r12") \o Via(n, "r13")
    \o <<Mov("rdi", "r11"), Mov("rsi", "r12"), Mov("rcx", "r13"), RepMovsb, Mov(d, "r11")>>

\* Counts the cells from r11 to the next zero in register d.
CountTo(d) ==
  <<Imm(d, 0)>> \o Loop(<<Load(Temp, "r11", "none", 0), Test(Temp)>>, <<AddImm(d, 1), AddImm("r11", 1)>>)

WireLen(d, s) == Via(s, "r11") \o CountTo(d)

WireCmpInPlace(d, x, y) ==
  Via(x, "r11") \o Via(y, "r12")
    \o <<At("loop"), Load("r13", "r11", "none", 0), Load(Temp, "r12", "none", 0),
         Cmp("r13", Temp), Jne("ne"), Test("r13"), Je("eq"), Jmp("loop"),
         At("eq"), Imm(d, 0), Jmp("done"), At("ne"), Imm(d, 1), At("done")>>

WireCmp(d, x, y) ==
  Via(x, "r11") \o Via(y, "r12")
    \o <<At("loop"), Load("r13", "r11", "none", 0), Load(Temp, "r12", "none", 0),
         Cmp("r13", Temp), Jne("ne"), Test("r13"), Je("eq"),
         AddImm("r11", 1), AddImm("r12", 1), Jmp("loop"),
         At("eq"), Imm(d, 0), Jmp("done"), At("ne"), Imm(d, 1), At("done")>>

WireCopy(d, s) ==
  Via(d, "r11") \o Via(s, "r12")
    \o Loop(<<Load(Temp, "r12", "none", 0), Store("r11", "none", 0, Temp), Test(Temp)>>,
            <<AddImm("r11", 1), AddImm("r12", 1)>>)

WireEmit(args) ==
  Via(args[1], "r11")
    \o (IF Len(args) = 2 THEN Via(args[2], "rdx") ELSE CountTo("rdx") \o Via(args[1], "r11"))
    \o <<Imm("rax", 1), Imm("rdi", 1), Mov("rsi", "r11"), Syscall>>

-----------------------------------------------------------------------------
(* System calls.                                                           *)

Null == -1

\* Arguments through the stack, as sys:call and call have them.
Stacked(args, targets) ==
  FlattenSeq([k \in DOMAIN args |-> Eval(args[k], Temp) \o <<Push(Temp)>>])
    \o Restore(SubSeq(targets, 1, Len(args)))

SysCall(args) ==
  Stacked(args, SysArgs) \o <<Imm("rax", 39)>> \o Save(<<"rcx", "r11">>) \o <<Syscall>> \o Restore(<<"rcx", "r11">>)

CallArgs == <<"rdi", "rsi", "rdx", "rcx", "r8", "r9">>

Call(args) == Stacked(args, CallArgs)

\* Where a statement that names no value takes it from.
OrElse(args, k, v) == IF k <= Len(args) THEN args[k] ELSE Num(v)

CellMap(args) ==
  Gather(<<args[1], OrElse(args, 2, 3), OrElse(args, 3, 34)>>, <<"r12", "r13", "r14">>)
    \o <<Imm("rdi", 0)>> \o Moves(<<"rsi", "rdx", "r10">>, <<"r12", "r13", "r14">>)
    \o <<Imm("r8", Null), Imm("r9", 0), Imm("rax", 9), Syscall>>

CellMapFile(args) ==
  Gather(<<args[1], args[2], OrElse(args, 3, 0), OrElse(args, 4, 3)>>, Fours)
    \o <<Imm("rdi", 0)>> \o Moves(<<"rsi", "rdx">>, <<"r12", "rbx">>) \o <<Imm("r10", 2)>>
    \o Moves(<<"r8", "r9">>, <<"r13", "r14">>) \o <<Imm("rax", 9), Syscall>>

CellFree(args) ==
  Eval(args[1], Temp) \o <<Push(Temp)>> \o Via(args[2], "rsi") \o <<Pop("rdi"), Imm("rax", 11), Syscall>>

\* Operands into temporaries, temporaries into the argument registers.
Marshalled(args, temps, targets, nr) ==
  Gather(args, temps) \o Moves(targets, temps) \o <<Imm("rax", nr), Syscall>>

\* Operands into the argument registers at once.
Direct(args, nr) == Gather(args, <<"rdi", "rsi", "rdx">>) \o <<Imm("rax", nr), Syscall>>

NetTransfer(args, nr) ==
  Gather(args, <<"rdi", "rsi", "rdx">>) \o <<Imm("r10", 0), Imm("rax", nr), Syscall>>

Timespec == 20  \* the address of __timespec

PulseSleep(ns) ==
  <<Imm("rdi", Timespec), Imm("rax", 0), Store("rdi", "none", 0, "rax")>> \o Eval(ns, "rax")
    \o <<Store("rdi", "none", 1, "rax"), Imm("rsi", 0), Imm("rax", 35), Syscall>>

-----------------------------------------------------------------------------
(* Locks and the kernel heap.                                              *)

GateCas(addr, expected, desired) ==
  LET keepsRax == addr # "rax" /\ expected # "rax"
      moved == desired \in {"rax", "r11", "r13"}
  IN <<Mov("r11", addr)>>
       \o (IF keepsRax THEN <<Mov("r13", "rax")>> ELSE <<>>)
       \o (IF moved THEN <<Mov("r12", desired)>> ELSE <<>>)
       \o Copy("rax", expected)
       \o <<LockCmpxchg("r11", IF moved THEN "r12" ELSE desired)>>
       \o Copy(expected, "rax")
       \o (IF addr = "rax" THEN <<Mov("rax", "r11")>>
           ELSE IF keepsRax THEN <<Mov("rax", "r13")>> ELSE <<>>)

HeapPtr == 22  \* the address of __kheap_ptr

HeapAlloc(d, size) ==
  <<Imm("r12", HeapPtr), Load(Temp, "r12", "none", 0), Mov(d, Temp)>> \o Eval(size, "r11")
    \o <<Add(Temp, "r11"), Store("r12", "none", 0, Temp)>>

-----------------------------------------------------------------------------
(* Ports, the clock, the network card and contexts.                        *)

PulseNow(d) ==
  <<Imm("rdi", 1), Imm("rsi", Timespec), Imm("rax", 228), Syscall,
    Imm("r11", Timespec), Load(d, "r11", "none", 0)>>

KbdPoll(d) ==
  <<Imm("rdx", KeyStatus), In, AndBit("rax", 1), Test("rax"), Jne("ok"), Imm(d, 0), Jmp("done"),
    At("ok"), Imm("rdx", KeyData), In>> \o Copy(d, "rax") \o <<At("done")>>

\* The byte in rax, once the line is ready for it.
Transmit ==
  <<Push("rax"), At("wait"), Imm("rdx", LineStatus), In, AndBit("rax", 32), Test("rax"), Je("wait"),
    Pop("rax"), Imm("rdx", Serial), Out>>

SerialPutc(v) == Eval(v, "rax") \o Transmit

PrintkStr(v) ==
  Eval(v, "r12")
    \o Loop(<<Load(Temp, "r12", "none", 0), Test(Temp)>>,
            Save(<<"rax", "rdx">>) \o <<Mov("rax", Temp)>> \o Transmit \o Restore(<<"rax", "rdx">>)
              \o <<AddImm("r12", 1)>>)

Ring == 0  \* what mov ax, cs and the mask leave in a kernel

TickCell == 17     \* the addresses of __tick,
PreemptCell == 19  \* __preempt_req
NicCell == 23      \* and __nic_bar

TickRead(d) == <<Imm(Temp, TickCell), Load(d, Temp, "none", 0)>>
CsRing(d) == <<Imm("rax", Ring)>> \o Copy(d, "rax")
PreemptArm(ctx) == <<Imm("rax", PreemptCell), Store("rax", "none", 0, ctx)>>

NicBar(v) == Eval(v, "rax") \o <<Imm(Temp, NicCell), Store(Temp, "none", 0, "rax")>>

NicRead(d, offset) ==
  <<Imm("rsi", NicCell), Load("rsi", "rsi", "none", 0)>> \o Eval(offset, "rdx")
    \o <<Add("rsi", "rdx"), Load(d, "rsi", "none", 0)>>

NicWrite(offset, v) ==
  <<Imm("rax", NicCell), Load("rax", "rax", "none", 0)>> \o Eval(offset, "rdx") \o <<Add("rax", "rdx")>>
    \o Eval(v, "rcx") \o <<Store("rax", "none", 0, "rcx")>>

\* A context: sixteen cells, the last one for rsp.
Context ==
  <<"rax", "rbx", "rcx", "rdx", "rsi", "rdi", "r8", "r9", "r10", "r11", "r12", "r13", "r14", "r15", "rbp">>

\* r15 holds the base by now, r11 gets it from the stack.
CtxSave(base) ==
  <<Push(base), Mov(Temp, base)>>
    \o [i \in DOMAIN Context |-> Store(Temp, "none", i - 1, Context[i])]
    \o <<Mov("r11", base), Store(Temp, "none", 15, "rsp"), Pop(base)>>

\* The last load goes through the r15 just loaded.
CtxLoad(base) ==
  <<Mov(Temp, base)>> \o [i \in DOMAIN Context |-> Load(Context[i], Temp, "none", i - 1)]

Pushed(o) == Eval(o, "rax") \o <<Push("rax")>>

\* Selectors 0x23 and 0x1b, flags 0x202.
EnterUser(newStack, entry) ==
  <<Push("rax")>> \o Eval(newStack, "rax") \o <<SetStack("rax")>>
    \o Pushed(Num(35)) \o Pushed(newStack) \o Pushed(Num(514)) \o Pushed(Num(27)) \o Pushed(entry)
    \o <<Iretq>>

-----------------------------------------------------------------------------
(* The statements, and the code of each.                                   *)

Arity ==
  [cmp |-> {2}, cpu_set |-> {1}, cpu_add |-> {1}, cpu_shl |-> {1}, cpu_div |-> {1}, cpu_mod |-> {1},
   mem_load |-> {2}, mem_store |-> {3}, syscall |-> {1, 3}, call |-> {3},
   blast_fill |-> {3}, blast_copy |-> {3}, rep_fill |-> {3}, rep_copy |-> {3},
   wire_len |-> {1}, wire_cmp |-> {2}, wire_copy |-> {2}, wire_emit |-> {1, 2},
   cell_map |-> {1, 2, 3}, cell_mapfile |-> {2, 3, 4}, cell_free |-> {2}, cell_protect |-> {3},
   net_socket |-> {3}, net_connect |-> {3}, net_send |-> {3}, net_recv |-> {3}, net_close |-> {1},
   net_poll |-> {3}, epoll_create |-> {1}, epoll_ctl |-> {4}, epoll_wait |-> {4},
   pulse_sleep |-> {1}, gate_cas |-> {3}, heap_alloc |-> {1},
   cpu_not |-> {0}, cpu_neg |-> {0}, cpu_inc |-> {0}, cpu_dec |-> {0}, cpu_lea |-> {1, 2},
   pulse_now |-> {0}, kbd_poll |-> {0}, serial_putc |-> {1}, printk |-> {1}, tick_read |-> {0}, cs_ring |-> {0},
   preempt_arm |-> {1}, nic_bar |-> {1}, nic_read |-> {1}, nic_write |-> {2},
   ctx_save |-> {1}, ctx_load |-> {1}, coop_switch |-> {2},
   enter_user |-> {2}]

CpuOps == {"cpu_set", "cpu_add", "cpu_shl", "cpu_div", "cpu_mod"}
UnaryOps == {"cpu_not", "cpu_neg", "cpu_inc", "cpu_dec"}
BlockOps == {"blast_fill", "blast_copy", "rep_fill", "rep_copy"}
ReturnOps == {"cell_map", "cell_mapfile", "net_socket", "epoll_create", "epoll_wait"}
SystemOps == ReturnOps \cup
  {"syscall", "wire_emit", "cell_free", "cell_protect", "net_connect", "net_send", "net_recv", "net_close",
   "net_poll", "epoll_ctl", "pulse_sleep", "pulse_now"}
ResultOps == CpuOps \cup UnaryOps \cup ReturnOps \cup
  {"mem_load", "wire_len", "wire_cmp", "heap_alloc", "cpu_lea", "pulse_now", "kbd_poll", "tick_read", "cs_ring",
   "nic_read"}

\* Operands the grammar wants to be registers.
RegisterArgs(op) ==
  CASE op \in BlockOps \cup {"preempt_arm", "ctx_save", "ctx_load"} -> {1}
    [] op = "coop_switch" -> {1, 2}
    [] op = "cpu_lea" -> {2}
    [] op = "gate_cas" -> {1, 2, 3}
    [] OTHER -> {}

Body(s) ==
  LET d == s.dest  a == s.arg IN
  CASE s.op = "cmp" -> Compared(a[1], a[2])
    [] s.op \in CpuOps -> CpuBin(s.op, d, a[1])
    [] s.op = "mem_load" -> MemLoad(d, a[1], a[2])
    [] s.op = "mem_store" -> MemStore(a[1], a[2], a[3])
    [] s.op = "syscall" -> SysCall(a)
    [] s.op = "call" -> Call(a)
    [] s.op = "blast_fill" -> BlastFill(a[1].a, a[2], a[3])
    [] s.op = "blast_copy" -> BlastCopy(a[1].a, a[2], a[3])
    [] s.op = "rep_fill" -> BlastRepFill(a[1].a, a[2], a[3])
    [] s.op = "rep_copy" -> BlastRepCopy(a[1].a, a[2], a[3])
    [] s.op = "wire_len" -> WireLen(d, a[1])
    [] s.op = "wire_cmp" -> WireCmp(d, a[1], a[2])
    [] s.op = "wire_copy" -> WireCopy(a[1], a[2])
    [] s.op = "wire_emit" -> WireEmit(a)
    [] s.op = "cell_map" -> CellMap(a)
    [] s.op = "cell_mapfile" -> CellMapFile(a)
    [] s.op = "cell_free" -> CellFree(a)
    [] s.op = "cell_protect" -> Marshalled(a, <<"r12", "r13", "r14">>, <<"rdi", "rsi", "rdx">>, 10)
    [] s.op = "net_socket" -> Direct(a, 41)
    [] s.op = "net_connect" -> Direct(a, 42)
    [] s.op = "net_send" -> NetTransfer(a, 44)
    [] s.op = "net_recv" -> NetTransfer(a, 45)
    [] s.op = "net_close" -> Direct(a, 3)
    [] s.op = "net_poll" -> Marshalled(a, <<"r12", "r13", "r14">>, <<"rdi", "rsi", "rdx">>, 7)
    [] s.op = "epoll_create" -> Direct(a, 291)
    [] s.op = "epoll_ctl" -> Marshalled(a, Fours, <<"rdi", "rsi", "rdx", "r10">>, 233)
    [] s.op = "epoll_wait" -> Marshalled(a, Fours, <<"rdi", "rsi", "rdx", "r10">>, 232)
    [] s.op = "pulse_sleep" -> PulseSleep(a[1])
    [] s.op = "gate_cas" -> GateCas(a[1].a, a[2].a, a[3].a)
    [] s.op = "heap_alloc" -> HeapAlloc(d, a[1])
    [] s.op \in UnaryOps -> CpuUnary(s.op, d)
    [] s.op = "cpu_lea" -> CpuLea(d, a)
    [] s.op = "pulse_now" -> PulseNow(d)
    [] s.op = "kbd_poll" -> KbdPoll(d)
    [] s.op = "serial_putc" -> SerialPutc(a[1])
    [] s.op = "printk" -> PrintkStr(a[1])
    [] s.op = "tick_read" -> TickRead(d)
    [] s.op = "cs_ring" -> CsRing(d)
    [] s.op = "preempt_arm" -> PreemptArm(a[1].a)
    [] s.op = "nic_bar" -> NicBar(a[1])
    [] s.op = "nic_read" -> NicRead(d, a[1])
    [] s.op = "nic_write" -> NicWrite(a[1], a[2])
    [] s.op = "ctx_save" -> CtxSave(a[1].a)
    [] s.op = "ctx_load" -> CtxLoad(a[1].a)
    [] s.op = "coop_switch" -> CtxSave(a[1].a) \o CtxLoad(a[2].a)
    [] s.op = "enter_user" -> EnterUser(a[1], a[2])

Emit(s) ==
  Save(Saved(s.op)) \o Body(s)
    \o (IF s.op \in ReturnOps THEN Copy(s.dest, "rax") ELSE <<>>)
    \o Restore(Saved(s.op))

-----------------------------------------------------------------------------
(* Which operands a lowering can take.                                     *)

\* Registers overwritten before the first operand is read, and by reading each.
First(s) ==
  CASE s.op = "pulse_sleep" -> {"rdi", "rax"}
    [] s.op = "heap_alloc" -> {"r12", s.dest}
    [] s.op = "wire_emit" /\ Len(s.arg) = 1 -> {"rdx"}
    [] s.op = "gate_cas" -> {"r12", "r13"}
    [] s.op \in {"nic_write", "preempt_arm", "enter_user"} -> {"rax"}
    [] s.op = "nic_read" -> {"rsi"}
    [] OTHER -> {}

Targets(op) ==
  CASE op \in BlockOps -> Helpers
    [] op \in {"wire_cmp", "wire_copy"} -> <<"r11", "r12">>
    [] op = "wire_emit" -> <<"r11", "rdx">>
    [] op \in {"cell_map", "cell_protect", "net_poll"} -> <<"r12", "r13", "r14">>
    [] op \in {"cell_mapfile", "epoll_ctl", "epoll_wait"} -> Fours
    [] op \in {"net_socket", "net_connect", "net_send", "net_recv"} -> <<"rdi", "rsi", "rdx">>
    [] op = "mem_store" -> <<"r12", "r11", "r11">>
    [] op = "cpu_lea" -> <<"r12", "none">>
    [] op = "nic_write" -> <<"rdx", "rcx">>
    [] OTHER -> [k \in 1..4 |-> Temp]

Live(s, k) == First(s) \cup {Targets(s.op)[j] : j \in 1..(k - 1)}

Written(s, k) ==
  Live(s, k) \cup {r \in {"r12"} : \E j \in 1..(k - 1) : IsSum(s.arg[j])}

Intact(s, k) ==
  /\ RegsOf(s.arg[k]) \cap Written(s, k) = {}
  /\ IsSum(s.arg[k]) => Live(s, k) \cap {"r11", "r12"} = {}

\* The destination of an arithmetic statement is an operand as well.
ReadsResult(s) == s.op \in CpuOps \ {"cpu_set"}

Apart(s) ==
  /\ \A k \in DOMAIN s.arg : (k = 1 /\ s.op \in BlockOps \cup {"gate_cas"}) \/ Intact(s, k)
  /\ s.op \in ResultOps => s.dest \notin {Saved(s.op)[k] : k \in DOMAIN Saved(s.op)}
  /\ ReadsResult(s) => (IsSum(s.arg[1]) => s.dest # "r12")
  /\ s.op = "gate_cas" => s.arg[1] # s.arg[2]
  \* The stack, and a text without its length, are evaluated twice.
  /\ s.op = "enter_user" \/ (s.op = "wire_emit" /\ Len(s.arg) = 1) =>
       ~IsSum(s.arg[1]) \/ "r12" \notin RegsOf(s.arg[1])

-----------------------------------------------------------------------------
Value(o) ==
  CASE o.kind = "num" -> o.n
    [] o.kind = "reg" -> Start[o.a]
    [] o.kind = "sum" -> Start[o.a] + Start[o.b]

\* Cells to the next zero.
StrLen(m, a) == CHOOSE n \in 0..MemSize : m[Cell(a + n)] = 0 /\ \A k \in 0..(n - 1) : m[Cell(a + k)] # 0
ContextCells(a) == {Cell(a + k) : k \in 0..15}
StrCells(a, n) == {Cell(a + k) : k \in 0..n}

WellFormed(s) ==
  /\ \A k \in RegisterArgs(s.op) \cap DOMAIN s.arg : s.arg[k].kind = "reg"
  /\ s.op \in {"mem_load", "mem_store"} => ~IsSum(s.arg[Len(s.arg) - 1]) /\ ~IsSum(s.arg[Len(s.arg)])
  \* The strings of wire:copy do not overlap.
  /\ s.op = "wire_copy" =>
       LET n == StrLen(StartMem, Value(s.arg[2]))
       IN StrCells(Value(s.arg[1]), n) \cap StrCells(Value(s.arg[2]), n) = {}
  /\ s.op = "cpu_lea" => ~IsSum(s.arg[1])
  \* The length of a block is a count.
  /\ s.op \in BlockOps => Value(s.arg[3]) >= 0
  \* What is loaded is a context that was saved there, earlier or just now.
  /\ s.op \in {"ctx_load", "coop_switch"} =>
       LET from == Value(s.arg[Len(s.arg)])  to == Value(s.arg[1]) IN
         \/ /\ StartMem[Cell(from + 13)] = from
            /\ s.op = "ctx_load" \/ ContextCells(to) \cap ContextCells(from) = {}
         \/ s.op = "coop_switch" /\ to = from
  \* cqo; idiv faults on zero and rounds towards it; a shift counts to 63.
  /\ s.op \in {"cpu_div", "cpu_mod"} => Value(s.arg[1]) > 0 /\ Start[s.dest] >= 0
  /\ s.op = "cpu_shl" => Value(s.arg[1]) \in 0..63

\* The cells the statements name by a label are in memory, and every string ends.
ASSUME LoweringAssumption ==
  /\ Ops \subseteq DOMAIN Arity
  /\ \A n \in 0..4 : \A o \in Operands(n) : IsOperand(o)
  /\ Dests \subseteq UserRegs
  /\ Start \in [Regs -> Int]
  /\ StartMem \in [Cells -> Int]
  /\ MemSize > NicCell
  /\ \E c \in Cells : StartMem[c] = 0

ChooseStatement ==
  \E op \in Ops : \E n \in Arity[op] :
    \E a \in [1..n -> Operands(n)], d \in IF op \in ResultOps THEN Dests ELSE {"rax"} :
      /\ stmt = [op |-> op, dest |-> d, arg |-> a]
      /\ WellFormed(stmt)
      /\ Apart(stmt)

Init ==
  /\ ChooseStatement /\ code = Emit(stmt)
  /\ reg = Start /\ mem = StartMem
  /\ stack = <<>> /\ calls = <<>>
  /\ zf \in BOOLEAN
  /\ pc = 1

Next == Execute(code) /\ UNCHANGED <<stmt, code>>

Spec == Init /\ [][Next]_vars
FairSpec == Spec /\ WF_vars(Next)

-----------------------------------------------------------------------------
(* What a statement promises, in terms of what its operands are worth when *)
(* it starts.                                                              *)

V(k) == Value(stmt.arg[k])
VOr(k, v) == IF k <= Len(stmt.arg) THEN V(k) ELSE v
Result == reg[stmt.dest]

\* The system call a statement makes, as far as its arguments matter.
Request ==
  CASE stmt.op = "syscall" -> [nr |-> 39, args |-> [k \in DOMAIN stmt.arg |-> V(k)]]
    [] stmt.op = "wire_emit" -> [nr |-> 1, args |-> <<1, V(1), VOr(2, StrLen(StartMem, V(1)))>>]
    [] stmt.op = "cell_map" -> [nr |-> 9, args |-> <<0, V(1), VOr(2, 3), VOr(3, 34), Null, 0>>]
    [] stmt.op = "cell_mapfile" -> [nr |-> 9, args |-> <<0, V(1), VOr(4, 3), 2, V(2), VOr(3, 0)>>]
    [] stmt.op = "cell_free" -> [nr |-> 11, args |-> <<V(1), V(2)>>]
    [] stmt.op = "cell_protect" -> [nr |-> 10, args |-> <<V(1), V(2), V(3)>>]
    [] stmt.op = "net_socket" -> [nr |-> 41, args |-> <<V(1), V(2), V(3)>>]
    [] stmt.op = "net_connect" -> [nr |-> 42, args |-> <<V(1), V(2), V(3)>>]
    [] stmt.op = "net_send" -> [nr |-> 44, args |-> <<V(1), V(2), V(3), 0>>]
    [] stmt.op = "net_recv" -> [nr |-> 45, args |-> <<V(1), V(2), V(3), 0>>]
    [] stmt.op = "net_close" -> [nr |-> 3, args |-> <<V(1)>>]
    [] stmt.op = "net_poll" -> [nr |-> 7, args |-> <<V(1), V(2), V(3)>>]
    [] stmt.op = "epoll_create" -> [nr |-> 291, args |-> <<V(1)>>]
    [] stmt.op = "epoll_ctl" -> [nr |-> 233, args |-> <<V(1), V(2), V(3), V(4)>>]
    [] stmt.op = "epoll_wait" -> [nr |-> 232, args |-> <<V(1), V(2), V(3), V(4)>>]
    [] stmt.op = "pulse_sleep" -> [nr |-> 35, args |-> <<Timespec, 0>>]
    [] stmt.op = "pulse_now" -> [nr |-> 228, args |-> <<1, Timespec>>]

RequestMade ==
  /\ Len(calls) = 1 /\ calls[1].nr = Request.nr
  /\ IsPrefix(Request.args, calls[1].args)

\* The bytes sent over the serial line.
SentBy(cs) ==
  LET bytes[k \in Nat] ==
        IF k = 0 THEN <<>>
        ELSE IF cs[k].nr = Serial THEN Append(bytes[k - 1], cs[k].args[1])
        ELSE bytes[k - 1]
  IN bytes[Len(cs)]
Sent == SentBy(calls)
StringsEqual(a, b) == \A k \in 0..StrLen(StartMem, a) : StartMem[Cell(a + k)] = StartMem[Cell(b + k)]
StringAt(a) == [k \in 1..StrLen(StartMem, a) |-> StartMem[Cell(a + k - 1)] % 256]

ContextLoaded(a) == \A i \in DOMAIN Context : reg[Context[i]] = mem[Cell(a + i - 1)]

\* The value a statement computes, from that of its result register before.
Answer(old) ==
  CASE stmt.op = "cpu_set" -> V(1)
    [] stmt.op = "cpu_add" -> old + V(1)
    [] stmt.op = "cpu_shl" -> old * 2 ^ V(1)
    [] stmt.op = "cpu_div" -> old \div V(1)
    [] stmt.op = "cpu_mod" -> old % V(1)
    [] stmt.op = "cpu_not" -> -old - 1
    [] stmt.op = "cpu_neg" -> -old
    [] stmt.op = "cpu_inc" -> old + 1
    [] stmt.op = "cpu_dec" -> old - 1
    [] stmt.op = "cpu_lea" -> V(1) + (IF Len(stmt.arg) = 2 THEN V(2) + 1 ELSE 0)
    [] stmt.op = "mem_load" -> StartMem[Cell(V(1) + V(2) + 1)]
    [] stmt.op = "heap_alloc" -> StartMem[HeapPtr]
    [] stmt.op = "pulse_now" -> StartMem[Timespec]
    [] stmt.op = "tick_read" -> StartMem[TickCell]
    [] stmt.op = "cs_ring" -> Ring
    [] stmt.op = "nic_read" -> StartMem[Cell(StartMem[NicCell] + V(1))]
    [] stmt.op = "wire_len" -> StrLen(StartMem, V(1))
    [] stmt.op = "wire_cmp" -> IF StringsEqual(V(1), V(2)) THEN 0 ELSE 1
    [] stmt.op = "kbd_poll" -> IF calls[1] = [nr |-> KeyStatus, args |-> <<1>>] THEN Scancode ELSE 0
    [] stmt.op \in ReturnOps -> SysResult

Effect(old) ==
  /\ stmt.op \in ResultOps => Result = Answer(old)
  /\ stmt.op \in SystemOps => RequestMade
  /\ stmt.op \in SystemOps \ ResultOps => reg["rax"] = SysResult
  /\ stmt.op = "cmp" => zf = (V(1) = V(2))
  /\ stmt.op = "call" => \A k \in DOMAIN stmt.arg : reg[CallArgs[k]] = V(k)
  /\ stmt.op = "gate_cas" => reg[stmt.arg[2].a] = StartMem[Cell(V(1))]
  /\ stmt.op = "serial_putc" => Sent = <<V(1) % 256>>
  /\ stmt.op = "printk" => Sent = StringAt(V(1))
  /\ stmt.op \in {"ctx_load", "coop_switch"} => ContextLoaded(V(Len(stmt.arg)))
  /\ stmt.op = "enter_user" => calls = <<[nr |-> ToUser, args |-> <<35, V(1), 514, 27, V(2)>>]>>

\* What a block holds for rsp nothing reads, and for r15 its own address.
WithContext(a) ==
  [c \in Cells |->
     IF c = Cell(a + 15) THEN mem[c]
     ELSE IF c = Cell(a + 13) THEN a
     ELSE IF c \in ContextCells(a)
     THEN Start[CHOOSE r \in Range(Context) : \E i \in DOMAIN Context : Context[i] = r /\ c = Cell(a + i - 1)]
     ELSE StartMem[c]]

Memory ==
  CASE stmt.op = "mem_store" -> [StartMem EXCEPT ![Cell(V(2) + V(3) + 1)] = V(1)]
    [] stmt.op \in {"blast_fill", "rep_fill"} -> Filled(StartMem, V(1), V(3), V(2))
    [] stmt.op \in {"blast_copy", "rep_copy"} -> Copied(StartMem, V(1), V(3), V(2))
    [] stmt.op = "wire_copy" -> Copied(StartMem, V(1), StrLen(StartMem, V(2)) + 1, V(2))
    [] stmt.op = "gate_cas" ->
         [StartMem EXCEPT ![Cell(V(1))] = IF @ = V(2) THEN V(3) ELSE @]
    [] stmt.op = "heap_alloc" -> [StartMem EXCEPT ![HeapPtr] = @ + V(1)]
    [] stmt.op = "pulse_sleep" -> [StartMem EXCEPT ![Timespec] = 0, ![Timespec + 1] = V(1)]
    [] stmt.op = "nic_bar" -> [StartMem EXCEPT ![NicCell] = V(1)]
    [] stmt.op = "nic_write" -> [StartMem EXCEPT ![Cell(StartMem[NicCell] + V(1))] = V(2)]
    [] stmt.op = "preempt_arm" -> [StartMem EXCEPT ![PreemptCell] = V(1)]
    [] stmt.op \in {"ctx_save", "coop_switch"} -> WithContext(V(1))
    [] OTHER -> StartMem

\* Registers a statement may leave changed, its result included: a sum is computed in
\* r12, which only blast and wire statements have to give back.
CallClobbered == {"rax", "rcx", "rdx", "rsi", "rdi", "r8", "r9", "r10"}
WireOps == {"wire_len", "wire_cmp", "wire_copy", "wire_emit"}

SavedBy(op) == {Saved(op)[k] : k \in DOMAIN Saved(op)}
HasSum == \E k \in DOMAIN stmt.arg : IsSum(stmt.arg[k])

Spoiled ==
  (IF stmt.op \in ResultOps THEN {stmt.dest} ELSE {}) \cup
  (IF HasSum /\ stmt.op \notin WireOps THEN {"r12"} \ SavedBy(stmt.op) ELSE {}) \cup
  CASE stmt.op = "syscall" -> {"rax"} \cup {SysArgs[k] : k \in DOMAIN stmt.arg}
    [] stmt.op = "call" -> {CallArgs[k] : k \in DOMAIN stmt.arg}
    [] stmt.op = "rep_fill" -> {"rax", "rcx", "rdi"} \ {stmt.arg[1].a}
    [] stmt.op = "rep_copy" -> {"rsi", "rcx", "rdi"} \ {stmt.arg[1].a}
    [] stmt.op = "gate_cas" -> {stmt.arg[2].a}
    [] stmt.op \in SystemOps \ {"syscall"} -> CallClobbered
    [] stmt.op \in {"kbd_poll", "cs_ring", "enter_user"} -> {"rax"}
    [] stmt.op = "cpu_lea" -> {"r12"}
    [] stmt.op \in {"ctx_load", "coop_switch"} -> UserRegs
    [] OTHER -> {}

\* Registers the code overwrites all the same, against docs/SUPPORTED_v0.1.md:77 and :67:
\* gate:cas takes r12 and r13 as temporaries, and a wire statement that does not save
\* r12 computes sums in it.
Overwritten ==
  CASE stmt.op = "gate_cas" -> {"r12", "r13"}
    [] stmt.op \in WireOps /\ HasSum -> {"r12"} \ SavedBy(stmt.op)
    [] OTHER -> {}

-----------------------------------------------------------------------------
(* Properties.                                                             *)

Done == pc = Len(code) + 1

\* A statement whose operands are Apart computes, stores and asks the system for what it
\* says, from what its operands were worth when it began: no operand is overwritten before
\* it is read, no result is restored away (_eval and every lowering that uses it).
Faithful == Done => Effect(Start[stmt.dest]) /\ mem = Memory

Disturbed == {r \in UserRegs \ Spoiled : reg[r] # Start[r]}

\* The stack is level after a statement, and whatever its lowering borrowed it has given
\* back, in the right order.  No register of the user is disturbed, but by gate:cas, and
\* by wire:len and wire:emit of a sum, and by these only the registers in Overwritten.
Keeps == Done => stack = <<>> /\ Disturbed \subseteq Overwritten

\* What the documents say: a statement leaves the user's registers alone, but for its
\* result and, when it goes through the system, the registers that calls may change.
\* "r11-r13 saved/restored around blast/wire helpers" and "gate:cas ... preserves
\* non-involved regs" (docs/SUPPORTED_v0.1.md:67 and :77).
KeepsAsDocumented == Done => Disturbed = {}

\* Every loop that a lowering emits ends, and no pop finds the stack empty.
Ends == <>Done
=============================================================================
