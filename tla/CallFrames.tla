------------------------------ MODULE CallFrames ------------------------------
(***************************************************************************)
(* Functions of a compiled program: the call statement, the prologue and   *)
(* epilogue around a fn body, its locals, parameters, and stack:push and   *)
(* stack:pop, one instruction at a time (ACLM/codegen.py, A.Call in _emit, *)
(* _emit_fn, _fn_epilogue, _cpu_bin on a local).                           *)
(*                                                                         *)
(* What the body of a function does is chosen statement by statement.      *)
(* The environment may interrupt between any two instructions and uses the *)
(* stack of the program: a signal handler of a Linux process leaves a red  *)
(* zone below rsp alone, an interrupt gate of the kernel target does not.  *)
(* Addresses and sizes count 8-byte words.                                 *)
(***************************************************************************)
EXTENDS Integers, Sequences, SequencesExt

CONSTANTS
  Fns,         \* the functions
  LocalSizes,  \* for each of them, the sizes of its locals
  Arity,       \* and the number of its arguments
  CodeOf,      \* where each function's code is; a return address names the function
  Values,      \* the numbers statements use
  Operands,    \* the operands of calls and returns
  Touched,     \* the registers statements assign
  Start,       \* what the registers hold at the start
  RedZone,     \* words below rsp that an interruption leaves alone (16 on Linux)
  IrqWords,    \* words it uses
  StackTop,    \* bound: the words of the stack
  MaxDepth, MaxStmts, MaxIrqs  \* bounds

Callee == <<"rbx", "r12", "r13", "r14">>   \* callee in _emit_fn
ArgRegs == <<"rdi", "rsi">>                \* the first of the six
Regs == Range(Callee) \cup Range(ArgRegs) \cup {"rax", "r11", "rbp"}
Saved == Range(Callee) \cup {"rbp"}
Main == "main"
Words == 0..(StackTop - 1)

ASSUME FrameAssumption ==
  /\ Main \notin Fns
  /\ \A f \in Fns : LocalSizes[f] \in Seq(Nat \ {0}) /\ Arity[f] \in 0..Len(ArgRegs)
  /\ RedZone \in Nat /\ IrqWords \in Nat /\ StackTop \in Nat \ {0}
  /\ Start \in [Regs -> Nat]
  /\ Values \subseteq Nat /\ Touched \subseteq Regs \ {"rbp"}
  /\ CodeOf \in [Fns \cup {Main} -> Nat]
  /\ \A f, g \in Fns \cup {Main} : CodeOf[f] = CodeOf[g] => f = g
  /\ \A o \in Operands :
       /\ o.kind \in {"reg", "num", "local", "sum"} /\ o.n \in Nat
       /\ o.kind \in {"reg", "sum"} => o.a \in Regs

VARIABLES
  mem, rsp, reg,
  pc,      \* the function executed and the place in its code
  todo,    \* the callee and the operands of the call statement under way
  frames,  \* history: for each activation, what its caller relies on
  stmts, irqs

vars == <<mem, rsp, reg, pc, todo, frames, stmts, irqs>>

-----------------------------------------------------------------------------
(* The frame that _emit_fn lays out.                                       *)

At(f, place) == [fn |-> f, at |-> place, k |-> 0]
Step(f, place, k) == [fn |-> f, at |-> place, k |-> k]

ReturnAddress(f) == CodeOf[f]
Junk == 99

Total(sizes) == FoldLeft(+, 0, sizes)

\* fn_locals[name] // 8: below the four saved registers.
LocalOffset(f, i) == -(Len(Callee) + Total(SubSeq(LocalSizes[f], 1, i)))

\* The size of the locals rounded up to 16 bytes.
LocalWords(f) == ((Total(LocalSizes[f]) + 1) \div 2) * 2

\* What each local gets is its own, and between the saved registers and rsp.
ASSUME LayoutAssumption ==
  \A f \in Fns :
    /\ LocalWords(f) \in Nat
    /\ \A i \in DOMAIN LocalSizes[f] :
         /\ LocalOffset(f, i) \in (-Len(Callee) - LocalWords(f))..(-Len(Callee) - 1)
         /\ \A j \in DOMAIN LocalSizes[f] : LocalOffset(f, i) = LocalOffset(f, j) => i = j

Locals(f) == IF f = Main THEN {} ELSE DOMAIN LocalSizes[f]
LocalAt(f, i, bp) == bp + LocalOffset(f, i)

Current == pc.fn
Top == Last(frames)

\* Operands: a register, a number, a local, or a sum of a register and 1.
ValueOf(o) ==
  CASE o.kind = "reg" -> reg[o.a]
    [] o.kind = "num" -> o.n
    [] o.kind = "local" -> mem[LocalAt(Current, o.n, reg["rbp"])]
    [] o.kind = "sum" -> reg[o.a] + 1

Usable(o) == o.kind = "local" => o.n \in Locals(Current)

\* A sum is computed in r11 and r12.
Evaluated(o, d) ==
  IF o.kind = "sum" THEN [reg EXCEPT !["r11"] = ValueOf(o), !["r12"] = 1, ![d] = ValueOf(o)]
  ELSE [reg EXCEPT ![d] = ValueOf(o)]

Init ==
  /\ mem = [a \in Words |-> 0] /\ rsp = StackTop
  /\ reg = Start
  /\ pc = At(Main, "body")
  /\ todo = [fn |-> Main, args |-> <<>>, given |-> <<>>]
  /\ frames = <<>> /\ stmts = 0 /\ irqs = 0

-----------------------------------------------------------------------------
(* Statements of a body.                                                   *)

Begin ==
  /\ pc.at = "body" /\ stmts < MaxStmts
  /\ stmts' = stmts + 1

NoteLocal(i, v) == frames' = [frames EXCEPT ![Len(frames)].locals[i] = v]

SetRegister(r, v) ==
  /\ Begin
  /\ reg' = [reg EXCEPT ![r] = v]
  /\ UNCHANGED <<mem, rsp, pc, todo, frames, irqs>>

\* cpu:set on a local goes through r11.
SetLocal(i, v) ==
  /\ Begin /\ i \in Locals(Current)
  /\ reg' = [reg EXCEPT !["r11"] = v]
  /\ mem' = [mem EXCEPT ![LocalAt(Current, i, reg["rbp"])] = v]
  /\ NoteLocal(i, v)
  /\ UNCHANGED <<rsp, pc, todo, irqs>>

\* cpu:add on a local takes its operand through r12.
AddLocal(i, v) ==
  LET a == LocalAt(Current, i, reg["rbp"]) IN
  /\ Begin /\ i \in Locals(Current)
  /\ reg' = [reg EXCEPT !["r11"] = mem[a] + v, !["r12"] = v]
  /\ mem' = [mem EXCEPT ![a] = @ + v]
  /\ NoteLocal(i, mem[a] + v)
  /\ UNCHANGED <<rsp, pc, todo, irqs>>

Room == rsp > RedZone + IrqWords + 1

PushWord(v) ==
  /\ Room
  /\ rsp' = rsp - 1
  /\ mem' = [mem EXCEPT ![rsp - 1] = v]

PopInto(r) ==
  /\ reg' = [reg EXCEPT ![r] = mem[rsp]]
  /\ rsp' = rsp + 1

StackPush(v) ==
  /\ Begin /\ frames # <<>>
  /\ PushWord(v)
  /\ reg' = [reg EXCEPT !["r11"] = v]
  /\ frames' = [frames EXCEPT ![Len(frames)].pushed = Append(@, v)]
  /\ UNCHANGED <<pc, todo, irqs>>

\* A body pops no more than it has pushed.
StackPop(r) ==
  /\ Begin /\ frames # <<>> /\ Top.pushed # <<>>
  /\ PopInto(r)
  /\ frames' = [frames EXCEPT ![Len(frames)].pushed = Front(@)]
  /\ UNCHANGED <<mem, pc, todo, irqs>>

-----------------------------------------------------------------------------
(* The call statement: every operand is pushed, then popped into its place. *)

\* A sum is computed in r12, so an operand read after one is not r12.
Apart(args) ==
  \A i, j \in DOMAIN args : i < j /\ args[i].kind = "sum" => args[j].a # "r12"

CallStart(f, args) ==
  /\ Begin /\ Len(frames) < MaxDepth
  /\ Len(args) = Arity[f] /\ Apart(args)
  /\ \A i \in DOMAIN args : Usable(args[i])
  /\ todo' = [fn |-> f, args |-> args, given |-> [i \in DOMAIN args |-> ValueOf(args[i])]]
  /\ pc' = Step(Current, "arg", 1)
  /\ UNCHANGED <<mem, rsp, reg, frames, irqs>>

PushArg ==
  /\ pc.at = "arg" /\ pc.k <= Len(todo.args)
  /\ LET o == todo.args[pc.k] IN
       /\ reg' = Evaluated(o, "r11")
       /\ PushWord(ValueOf(o))
  /\ pc' = Step(Current, "arg", pc.k + 1)
  /\ UNCHANGED <<todo, frames, stmts, irqs>>

ArgsPushed ==
  /\ pc.at = "arg" /\ pc.k > Len(todo.args)
  /\ pc' = Step(Current, "pop_arg", Len(todo.args))
  /\ UNCHANGED <<mem, rsp, reg, todo, frames, stmts, irqs>>

\* Fault variant: the first popped goes into the first register.
PopArgInOrder ==
  /\ pc.at = "pop_arg" /\ pc.k > 0
  /\ PopInto(ArgRegs[Len(todo.args) + 1 - pc.k])
  /\ pc' = Step(Current, "pop_arg", pc.k - 1)
  /\ UNCHANGED <<mem, todo, frames, stmts, irqs>>

PopArg ==
  /\ pc.at = "pop_arg" /\ pc.k > 0
  /\ PopInto(ArgRegs[pc.k])
  /\ pc' = Step(Current, "pop_arg", pc.k - 1)
  /\ UNCHANGED <<mem, todo, frames, stmts, irqs>>

\* call pushes the return address.
CallFn ==
  /\ pc.at = "pop_arg" /\ pc.k = 0
  /\ PushWord(ReturnAddress(Current))
  /\ frames' = Append(frames,
       [fn |-> todo.fn, caller |-> Current, sp |-> rsp - 1, given |-> todo.given,
        regs |-> [r \in Saved |-> reg[r]],
        locals |-> [i \in Locals(todo.fn) |-> Junk], pushed |-> <<>>])
  /\ pc' = At(todo.fn, "entry")
  /\ UNCHANGED <<reg, todo, stmts, irqs>>

-----------------------------------------------------------------------------
(* Prologue.                                                               *)

PushBase ==
  /\ pc.at = "entry"
  /\ PushWord(reg["rbp"])
  /\ pc' = At(Current, "frame")
  /\ UNCHANGED <<reg, todo, frames, stmts, irqs>>

SetBase ==
  /\ pc.at = "frame"
  /\ reg' = [reg EXCEPT !["rbp"] = rsp]
  /\ pc' = Step(Current, "save", 1)
  /\ UNCHANGED <<mem, rsp, todo, frames, stmts, irqs>>

SaveRegister ==
  /\ pc.at = "save" /\ pc.k <= Len(Callee)
  /\ PushWord(reg[Callee[pc.k]])
  /\ pc' = Step(Current, "save", pc.k + 1)
  /\ UNCHANGED <<reg, todo, frames, stmts, irqs>>

\* Fault variant: the stack pointer stays above the locals.
AllocateNothing ==
  /\ pc.at = "save" /\ pc.k > Len(Callee)
  /\ rsp > LocalWords(Current) + RedZone + IrqWords
  /\ frames' = [frames EXCEPT ![Len(frames)].locals =
                  [i \in Locals(Current) |-> mem[LocalAt(Current, i, reg["rbp"])]]]
  /\ pc' = At(Current, "body")
  /\ UNCHANGED <<mem, rsp, reg, todo, stmts, irqs>>

\* What the words of the locals hold now is what they read as until assigned.
Allocate ==
  /\ pc.at = "save" /\ pc.k > Len(Callee)
  /\ rsp > LocalWords(Current) + RedZone + IrqWords
  /\ rsp' = rsp - LocalWords(Current)
  /\ frames' = [frames EXCEPT ![Len(frames)].locals =
                  [i \in Locals(Current) |-> mem[LocalAt(Current, i, reg["rbp"])]]]
  /\ pc' = At(Current, "body")
  /\ UNCHANGED <<mem, reg, todo, stmts, irqs>>

-----------------------------------------------------------------------------
(* ret, or the end of the body: the epilogue of _fn_epilogue.              *)

ReturnValue(o) ==
  /\ Begin /\ frames # <<>> /\ Usable(o)
  /\ reg' = Evaluated(o, "rax")
  /\ pc' = At(Current, "unwind")
  /\ UNCHANGED <<mem, rsp, todo, frames, irqs>>

EndOfBody ==
  /\ pc.at = "body" /\ frames # <<>>
  /\ pc' = At(Current, "unwind")
  /\ UNCHANGED <<mem, rsp, reg, todo, frames, stmts, irqs>>

\* mov rsp, rbp: for one instruction the saved registers lie below rsp.
Unwind ==
  /\ pc.at = "unwind"
  /\ rsp' = reg["rbp"]
  /\ pc' = At(Current, "skip")
  /\ UNCHANGED <<mem, reg, todo, frames, stmts, irqs>>

\* sub rsp, 32
SkipSaved ==
  /\ pc.at = "skip"
  /\ rsp' = rsp - Len(Callee)
  /\ pc' = Step(Current, "restore", Len(Callee))
  /\ UNCHANGED <<mem, reg, todo, frames, stmts, irqs>>

\* Fault variant: restored in the order in which they were saved.
RestoreInOrder ==
  /\ pc.at = "restore" /\ pc.k > 0
  /\ PopInto(Callee[Len(Callee) + 1 - pc.k])
  /\ pc' = Step(Current, "restore", pc.k - 1)
  /\ UNCHANGED <<mem, todo, frames, stmts, irqs>>

RestoreRegister ==
  /\ pc.at = "restore" /\ pc.k > 0
  /\ PopInto(Callee[pc.k])
  /\ pc' = Step(Current, "restore", pc.k - 1)
  /\ UNCHANGED <<mem, todo, frames, stmts, irqs>>

PopBase ==
  /\ pc.at = "restore" /\ pc.k = 0
  /\ PopInto("rbp")
  /\ pc' = At(Current, "ret")
  /\ UNCHANGED <<mem, todo, frames, stmts, irqs>>

\* Execution goes on wherever the word on the stack says.
Return ==
  /\ pc.at = "ret"
  /\ rsp' = rsp + 1
  /\ pc' = IF \E f \in Fns \cup {Main} : ReturnAddress(f) = mem[rsp]
           THEN At(CHOOSE f \in Fns \cup {Main} : ReturnAddress(f) = mem[rsp], "body")
           ELSE At(Current, "wild")
  /\ frames' = Front(frames)
  /\ UNCHANGED <<mem, reg, todo, stmts, irqs>>

-----------------------------------------------------------------------------
(* The environment.                                                        *)

Interruption ==
  /\ irqs < MaxIrqs
  /\ irqs' = irqs + 1
  /\ mem' = [a \in Words |->
       IF a \in (rsp - RedZone - IrqWords)..(rsp - RedZone - 1) THEN Junk ELSE mem[a]]
  /\ UNCHANGED <<rsp, reg, pc, todo, frames, stmts>>

Statement ==
  \/ \E r \in Touched, v \in Values : SetRegister(r, v)
  \/ \E i \in Locals(Current), v \in Values : SetLocal(i, v) \/ AddLocal(i, v)
  \/ \E v \in Values : StackPush(v)
  \/ \E r \in Touched : StackPop(r)
  \/ \E f \in Fns, n \in 0..Len(ArgRegs) : \E args \in [1..n -> Operands] : CallStart(f, args)
  \/ \E o \in Operands : ReturnValue(o)
  \/ EndOfBody

Call == PushArg \/ ArgsPushed \/ PopArg \/ CallFn
Prologue == PushBase \/ SetBase \/ SaveRegister \/ Allocate
Epilogue == Unwind \/ SkipSaved \/ RestoreRegister \/ PopBase \/ Return

Next == Statement \/ Call \/ Prologue \/ Epilogue \/ Interruption

Spec == Init /\ [][Next]_vars

-----------------------------------------------------------------------------
(* Properties.                                                             *)

TypeOK ==
  /\ rsp \in 0..StackTop /\ reg \in [Regs -> Nat] /\ mem \in [Words -> Nat]
  /\ pc.fn \in Fns \cup {Main} /\ Len(frames) <= MaxDepth
  /\ stmts \in 0..MaxStmts /\ irqs \in 0..MaxIrqs

\* When a function is about to return, the stack is as the call left it, the return
\* address is on top, and the registers that CONTRACT.md lists as preserved, and the
\* frame pointer, are the caller's again, whatever the body has called, pushed,
\* assigned or left on the stack, and wherever it was interrupted.
CalleeSaved ==
  pc.at = "ret" =>
    /\ rsp = Top.sp /\ mem[rsp] = ReturnAddress(Top.caller)
    /\ \A r \in Saved : reg[r] = Top.regs[r]

\* The operands of a call arrive in the argument registers, all as they were
\* when the statement began, also when one operand is another's register.
ArgsArrive ==
  pc.at = "entry" => \A i \in DOMAIN Top.given : reg[ArgRegs[i]] = Top.given[i]

\* While a function is active, or waits for another, its locals hold what it has
\* last assigned, and the words it has pushed are on the stack below them.
FrameBase(i) == frames[i].sp - 1
InBody(i) == i < Len(frames) \/ pc.at \in {"body", "arg", "pop_arg"}
FramesKeep ==
  \A i \in DOMAIN frames : InBody(i) =>
    LET f == frames[i]
        low == FrameBase(i) - Len(Callee) - LocalWords(f.fn)
    IN /\ \A l \in Locals(f.fn) : mem[LocalAt(f.fn, l, FrameBase(i))] = f.locals[l]
       /\ \A k \in DOMAIN f.pushed : mem[low - k] = f.pushed[k]
=============================================================================
