------------------------------ MODULE Processor ------------------------------
(***************************************************************************)
(* The part of an x86-64 processor, and of the kernel behind syscall, that *)
(* the code emitted for one statement can tell apart: the general          *)
(* registers, the stack, memory, the zero flag, and what is asked of the    *)
(* system and the ports.                                                   *)
(* The instructions are those the emitter methods of ACLM/x64enc.py        *)
(* encode; encodings and widths are left out, registers hold numbers, and  *)
(* memory is a ring of cells.                                              *)
(***************************************************************************)
EXTENDS Integers, Sequences, SequencesExt

CONSTANTS
  MemSize,    \* cells of memory
  SysResult,  \* what a system call returns in rax
  Junk,       \* what it leaves in rcx and r11
  Scancode    \* what the keyboard's data port holds

ASSUME ProcessorAssumption ==
  MemSize \in Nat \ {0} /\ SysResult \in Int /\ Junk \in Int /\ Scancode \in Int

VARIABLES reg, stack, mem, zf, calls, pc

cpu == <<reg, stack, mem, zf, calls, pc>>

Regs == {"rax", "rbx", "rcx", "rdx", "rsi", "rdi", "r8", "r9", "r10", "r11",
         "r12", "r13", "r14", "r15", "rbp"}
SysArgs == <<"rdi", "rsi", "rdx", "r10", "r8", "r9">>
Cells == 0..(MemSize - 1)
Cell(a) == a % MemSize

StackTop == 1000  \* the address of the empty stack
Worth(r) == IF r = "rsp" THEN StackTop - Len(stack) ELSE reg[r]

KeyStatus == 100  \* 0x64
KeyData == 96
LineStatus == 1021  \* 0x3FD
Serial == 1016

-----------------------------------------------------------------------------
(* Instructions.                                                           *)

Mov(d, s) == [op |-> "mov", d |-> d, s |-> s]
Imm(d, n) == [op |-> "imm", d |-> d, n |-> n]
Add(d, s) == [op |-> "add", d |-> d, s |-> s]
AddImm(d, n) == [op |-> "addimm", d |-> d, n |-> n]
Shl(d) == [op |-> "shl", d |-> d]
ShlImm(d, n) == [op |-> "shlimm", d |-> d, n |-> n]
Idiv(s) == [op |-> "idiv", s |-> s]
Load(d, b, x, n) == [op |-> "load", d |-> d, b |-> b, x |-> x, n |-> n]
Store(b, x, n, s) == [op |-> "store", b |-> b, x |-> x, n |-> n, s |-> s]
Push(s) == [op |-> "push", s |-> s]
Pop(d) == [op |-> "pop", d |-> d]
Test(s) == [op |-> "test", s |-> s]
Cmp(d, s) == [op |-> "cmp", d |-> d, s |-> s]
At(l) == [op |-> "label", l |-> l]
Jmp(l) == [op |-> "jmp", l |-> l]
Je(l) == [op |-> "je", l |-> l]
Jne(l) == [op |-> "jne", l |-> l]
LockCmpxchg(b, s) == [op |-> "cmpxchg", b |-> b, s |-> s]
RepStosb == [op |-> "stosb"]
RepMovsb == [op |-> "movsb"]
Syscall == [op |-> "syscall"]
Neg(d) == [op |-> "neg", d |-> d]
Not(d) == [op |-> "not", d |-> d]
AndBit(d, n) == [op |-> "andbit", d |-> d, n |-> n]
Lea(d, b, x, n) == [op |-> "lea", d |-> d, b |-> b, x |-> x, n |-> n]
In == [op |-> "in"]
Out == [op |-> "out"]
SetStack(s) == [op |-> "setstack", s |-> s]
Iretq == [op |-> "iretq"]

Index(x) == IF x = "none" THEN 0 ELSE reg[x]
Address(i) == Cell(reg[i.b] + Index(i.x) + i.n)

\* n cells from address d, in ascending order: a cell may read one just written.
Filled(m, d, n, v) ==
  LET upTo[k \in Nat] ==
        IF k = 0 THEN m
        ELSE LET w == upTo[k - 1] IN [w EXCEPT ![Cell(d + k - 1)] = v]
  IN upTo[n]

Copied(m, d, n, s) ==
  LET upTo[k \in Nat] ==
        IF k = 0 THEN m
        ELSE LET w == upTo[k - 1] IN [w EXCEPT ![Cell(d + k - 1)] = w[Cell(s + k - 1)]]
  IN upTo[n]

-----------------------------------------------------------------------------
(* Execution of instruction i of a code sequence.                          *)

ResultOf(i) ==
  CASE i.op = "mov" -> reg[i.s]
    [] i.op = "imm" -> i.n
    [] i.op = "add" -> reg[i.d] + reg[i.s]
    [] i.op = "addimm" -> reg[i.d] + i.n
    [] i.op = "shl" -> reg[i.d] * 2 ^ reg["rcx"]
    [] i.op = "shlimm" -> reg[i.d] * 2 ^ i.n
    [] i.op = "load" -> mem[Address(i)]
    [] i.op = "lea" -> reg[i.b] + Index(i.x) + i.n
    [] i.op = "neg" -> -reg[i.d]
    [] i.op = "not" -> -reg[i.d] - 1
    [] i.op = "andbit" -> ((reg[i.d] \div i.n) % 2) * i.n

Compute(i) ==
  /\ i.op \in {"mov", "imm", "add", "addimm", "shl", "shlimm", "load", "lea", "neg", "not", "andbit"}
  /\ reg' = [reg EXCEPT ![i.d] = ResultOf(i)]
  /\ pc' = pc + 1
  /\ UNCHANGED <<stack, mem, zf, calls>>

\* cqo; idiv
Divide(i) ==
  /\ i.op = "idiv"
  /\ reg' = [reg EXCEPT !["rax"] = reg["rax"] \div reg[i.s], !["rdx"] = reg["rax"] % reg[i.s]]
  /\ pc' = pc + 1
  /\ UNCHANGED <<stack, mem, zf, calls>>

WriteMemory(i) ==
  /\ i.op = "store"
  /\ mem' = [mem EXCEPT ![Address(i)] = Worth(i.s)]
  /\ pc' = pc + 1
  /\ UNCHANGED <<reg, stack, zf, calls>>

PushRegister(i) ==
  /\ i.op = "push"
  /\ stack' = Append(stack, reg[i.s])
  /\ pc' = pc + 1
  /\ UNCHANGED <<reg, mem, zf, calls>>

PopRegister(i) ==
  /\ i.op = "pop"
  /\ stack # <<>>
  /\ reg' = [reg EXCEPT ![i.d] = Last(stack)]
  /\ stack' = Front(stack)
  /\ pc' = pc + 1
  /\ UNCHANGED <<mem, zf, calls>>

Compare(i) ==
  /\ i.op \in {"test", "cmp"}
  /\ zf' = IF i.op = "test" THEN reg[i.s] = 0 ELSE reg[i.d] = reg[i.s]
  /\ pc' = pc + 1
  /\ UNCHANGED <<reg, stack, mem, calls>>

Branch(i, c) ==
  /\ i.op \in {"label", "jmp", "je", "jne"}
  /\ LET taken == \/ i.op = "jmp"
                  \/ i.op = "je" /\ zf
                  \/ i.op = "jne" /\ ~zf
     IN pc' = IF taken
              THEN CHOOSE k \in DOMAIN c : c[k].op = "label" /\ c[k].l = i.l
              ELSE pc + 1
  /\ UNCHANGED <<reg, stack, mem, zf, calls>>

CompareExchange(i) ==
  LET a == Cell(reg[i.b]) IN
  /\ i.op = "cmpxchg"
  /\ zf' = (mem[a] = reg["rax"])
  /\ IF mem[a] = reg["rax"]
     THEN mem' = [mem EXCEPT ![a] = reg[i.s]] /\ UNCHANGED reg
     ELSE reg' = [reg EXCEPT !["rax"] = mem[a]] /\ UNCHANGED mem
  /\ pc' = pc + 1
  /\ UNCHANGED <<stack, calls>>

\* With the direction flag clear.
Repeat(i) ==
  LET n == reg["rcx"] IN
  /\ \/ /\ i.op = "stosb"
        /\ mem' = Filled(mem, reg["rdi"], n, reg["rax"])
        /\ reg' = [reg EXCEPT !["rdi"] = @ + n, !["rcx"] = 0]
     \/ /\ i.op = "movsb"
        /\ mem' = Copied(mem, reg["rdi"], n, reg["rsi"])
        /\ reg' = [reg EXCEPT !["rdi"] = @ + n, !["rsi"] = @ + n, !["rcx"] = 0]
  /\ pc' = pc + 1
  /\ UNCHANGED <<stack, zf, calls>>

EnterKernel(i) ==
  /\ i.op = "syscall"
  /\ calls' = Append(calls, [nr |-> reg["rax"], args |-> [k \in 1..6 |-> reg[SysArgs[k]]]])
  /\ reg' = [reg EXCEPT !["rax"] = SysResult, !["rcx"] = Junk, !["r11"] = Junk]
  /\ pc' = pc + 1
  /\ UNCHANGED <<stack, mem, zf>>

\* in al, dx.  The keyboard may or may not have a key; the serial line is ready
\* the second time it is asked.
Offered(port) ==
  CASE port = KeyStatus -> {0, 1}
    [] port = KeyData -> {Scancode}
    [] port = LineStatus -> {IF calls # <<>> /\ Last(calls).nr = port THEN 32 ELSE 0}

ReadPort(i) ==
  /\ i.op = "in"
  /\ \E v \in Offered(reg["rdx"]) :
       /\ reg' = [reg EXCEPT !["rax"] = (@ \div 256) * 256 + v]
       /\ calls' = Append(calls, [nr |-> reg["rdx"], args |-> <<v>>])
  /\ pc' = pc + 1
  /\ UNCHANGED <<stack, mem, zf>>

WritePort(i) ==
  /\ i.op = "out"
  /\ calls' = Append(calls, [nr |-> reg["rdx"], args |-> <<reg["rax"] % 256>>])
  /\ pc' = pc + 1
  /\ UNCHANGED <<reg, stack, mem, zf>>

\* mov rsp, s: another stack, whose own top is left out.
SwitchStack(i) ==
  /\ i.op = "setstack"
  /\ stack' = <<>>
  /\ pc' = pc + 1
  /\ UNCHANGED <<reg, mem, zf, calls>>

ToUser == -1

\* iretq to another ring takes ss, rsp, the flags, cs and rip from the stack.
LeaveKernel(i) ==
  /\ i.op = "iretq"
  /\ calls' = Append(calls, [nr |-> ToUser, args |-> stack])
  /\ stack' = <<>>
  /\ pc' = pc + 1
  /\ UNCHANGED <<reg, mem, zf>>

Execute(c) ==
  /\ pc <= Len(c)
  /\ LET i == c[pc] IN
       \/ Compute(i) \/ Divide(i) \/ WriteMemory(i)
       \/ PushRegister(i) \/ PopRegister(i)
       \/ Compare(i) \/ Branch(i, c)
       \/ CompareExchange(i) \/ Repeat(i) \/ EnterKernel(i)
       \/ ReadPort(i) \/ WritePort(i) \/ SwitchStack(i) \/ LeaveKernel(i)
=============================================================================
