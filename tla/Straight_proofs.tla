-------------------------- MODULE Straight_proofs ---------------------------
(***************************************************************************)
(* What the code of a statement that runs straight through does, for the   *)
(* 42 kinds of such a statement and any operands that WellFormed and Apart *)
(* allow.  An instruction is a function of the state (Do); a piece of code *)
(* without branches leads from one state to another (Leads); the body of a *)
(* statement, with the registers it borrows saved around it, leads to a    *)
(* state that has what the statement says (Works).                         *)
(***************************************************************************)
EXTENDS Lowering, TLAPS

-----------------------------------------------------------------------------
(* What an instruction does, as a function of the state.                   *)

Requests == [nr : Int, args : Seq(Int)]

State == [reg : [Regs -> Int], stack : Seq(Int), mem : [Cells -> Int], zf : BOOLEAN,
          calls : Seq(Requests)]

Config(r, k, m, z, c) == [reg |-> r, stack |-> k, mem |-> m, zf |-> z, calls |-> c]

Now == Config(reg, stack, mem, zf, calls)

\* States that differ from s in one part.
WithRegs(s, r) == Config(r, s.stack, s.mem, s.zf, s.calls)
WithMem(s, m) == Config(s.reg, s.stack, m, s.zf, s.calls)
WithStack(s, k) == Config(s.reg, k, s.mem, s.zf, s.calls)
WithFlag(s, z) == Config(s.reg, s.stack, s.mem, z, s.calls)
WithCalls(s, c) == Config(s.reg, s.stack, s.mem, s.zf, c)

IndexIn(s, x) == IF x = "none" THEN 0 ELSE s.reg[x]
AddressIn(s, i) == Cell(s.reg[i.b] + IndexIn(s, i.x) + i.n)
WorthIn(s, r) == IF r = "rsp" THEN StackTop - Len(s.stack) ELSE s.reg[r]

ResultIn(s, i) ==
  CASE i.op = "mov" -> s.reg[i.s]
    [] i.op = "imm" -> i.n
    [] i.op = "add" -> s.reg[i.d] + s.reg[i.s]
    [] i.op = "addimm" -> s.reg[i.d] + i.n
    [] i.op = "shl" -> s.reg[i.d] * 2 ^ s.reg["rcx"]
    [] i.op = "shlimm" -> s.reg[i.d] * 2 ^ i.n
    [] i.op = "load" -> s.mem[AddressIn(s, i)]
    [] i.op = "lea" -> s.reg[i.b] + IndexIn(s, i.x) + i.n
    [] i.op = "neg" -> -s.reg[i.d]
    [] i.op = "not" -> -s.reg[i.d] - 1
    [] i.op = "andbit" -> ((s.reg[i.d] \div i.n) % 2) * i.n

Computing == {"mov", "imm", "add", "addimm", "shl", "shlimm", "load", "lea", "neg", "not", "andbit"}

Exchange(s, i) ==
  LET a == Cell(s.reg[i.b]) IN
  Config(IF s.mem[a] = s.reg["rax"] THEN s.reg ELSE [s.reg EXCEPT !["rax"] = s.mem[a]], s.stack,
         IF s.mem[a] = s.reg["rax"] THEN [s.mem EXCEPT ![a] = s.reg[i.s]] ELSE s.mem,
         s.mem[a] = s.reg["rax"], s.calls)

Computed(s, i) == WithRegs(s, [s.reg EXCEPT ![i.d] = ResultIn(s, i)])
Divided(s, i) == WithRegs(s, [s.reg EXCEPT !["rax"] = s.reg["rax"] \div s.reg[i.s],
                                           !["rdx"] = s.reg["rax"] % s.reg[i.s]])
Stored(s, i) == WithMem(s, [s.mem EXCEPT ![AddressIn(s, i)] = WorthIn(s, i.s)])
PushDone(s, i) == WithStack(s, Append(s.stack, s.reg[i.s]))
PopDone(s, i) == Config([s.reg EXCEPT ![i.d] = Last(s.stack)], Front(s.stack), s.mem, s.zf, s.calls)
BlockFilled(s) ==
  Config([s.reg EXCEPT !["rdi"] = s.reg["rdi"] + s.reg["rcx"], !["rcx"] = 0],
         s.stack, Filled(s.mem, s.reg["rdi"], s.reg["rcx"], s.reg["rax"]), s.zf, s.calls)
BlockCopied(s) ==
  Config([s.reg EXCEPT !["rdi"] = s.reg["rdi"] + s.reg["rcx"], !["rsi"] = s.reg["rsi"] + s.reg["rcx"],
                       !["rcx"] = 0],
         s.stack, Copied(s.mem, s.reg["rdi"], s.reg["rcx"], s.reg["rsi"]), s.zf, s.calls)
Asked(s) == [nr |-> s.reg["rax"], args |-> [k \in 1..6 |-> s.reg[SysArgs[k]]]]
Answered(s) ==
  Config([s.reg EXCEPT !["rax"] = SysResult, !["rcx"] = Junk, !["r11"] = Junk],
         s.stack, s.mem, s.zf, Append(s.calls, Asked(s)))
Left(s) == Config(s.reg, <<>>, s.mem, s.zf, Append(s.calls, [nr |-> ToUser, args |-> s.stack]))
Sending(s) == WithCalls(s, Append(s.calls, [nr |-> s.reg["rdx"], args |-> <<s.reg["rax"] % 256>>]))

Do(i, s) ==
  CASE i.op \in Computing -> Computed(s, i)
    [] i.op = "idiv" -> Divided(s, i)
    [] i.op = "store" -> Stored(s, i)
    [] i.op = "push" -> PushDone(s, i)
    [] i.op = "pop" -> PopDone(s, i)
    [] i.op = "test" -> WithFlag(s, s.reg[i.s] = 0)
    [] i.op = "cmp" -> WithFlag(s, s.reg[i.d] = s.reg[i.s])
    [] i.op = "cmpxchg" -> Exchange(s, i)
    [] i.op = "stosb" -> BlockFilled(s)
    [] i.op = "movsb" -> BlockCopied(s)
    [] i.op = "syscall" -> Answered(s)
    [] i.op = "setstack" -> WithStack(s, <<>>)
    [] i.op = "iretq" -> Left(s)
    [] i.op = "out" -> Sending(s)
    [] i.op = "label" -> s

Straight == Computing \cup
  {"idiv", "store", "push", "pop", "test", "cmp", "cmpxchg", "stosb", "movsb", "syscall", "setstack", "iretq",
   "out"}

LEMMA DoIs ==
  ASSUME NEW s, NEW i
  PROVE  /\ i.op \in Computing => Do(i, s) = Computed(s, i)
         /\ i.op = "idiv" => Do(i, s) = Divided(s, i)
         /\ i.op = "store" => Do(i, s) = Stored(s, i)
         /\ i.op = "push" => Do(i, s) = PushDone(s, i)
         /\ i.op = "pop" => Do(i, s) = PopDone(s, i)
         /\ i.op = "test" => Do(i, s) = WithFlag(s, s.reg[i.s] = 0)
         /\ i.op = "cmp" => Do(i, s) = WithFlag(s, s.reg[i.d] = s.reg[i.s])
         /\ i.op = "cmpxchg" => Do(i, s) = Exchange(s, i)
         /\ i.op = "stosb" => Do(i, s) = BlockFilled(s)
         /\ i.op = "movsb" => Do(i, s) = BlockCopied(s)
         /\ i.op = "syscall" => Do(i, s) = Answered(s)
         /\ i.op = "setstack" => Do(i, s) = WithStack(s, <<>>)
         /\ i.op = "iretq" => Do(i, s) = Left(s)
         /\ i.op = "out" => Do(i, s) = Sending(s)
         /\ i.op = "label" => Do(i, s) = s
BY DEF Do, Computing

LEMMA NowParts ==
  /\ Now.reg = reg /\ Now.stack = stack /\ Now.mem = mem /\ Now.zf = zf /\ Now.calls = calls
  /\ Now' = Config(reg', stack', mem', zf', calls')
BY DEF Now, Config

\* One step of the processor.
LEMMA ExecuteDoes ==
  ASSUME Execute(code), code[pc].op \in Straight
  PROVE  pc' = pc + 1 /\ Now' = Do(code[pc], Now)
<1> DEFINE i == code[pc]
<1>0. pc <= Len(code) /\ i.op \in Straight
  BY DEF Execute
<1> SUFFICES pc' = pc + 1 /\ Now' = Do(i, Now)
  OBVIOUS
<1> HIDE DEF i
<1> USE NowParts
<1>1. CASE Compute(i)
  <2>1. i.op \in Computing
    BY <1>1 DEF Compute, Computing
  <2>2. ResultIn(Now, i) = ResultOf(i)
    BY DEF ResultIn, ResultOf, IndexIn, AddressIn, Index, Address
  <2>3. Do(i, Now) = Computed(Now, i)
    BY <2>1, DoIs
  <2> QED BY <1>1, <2>2, <2>3 DEF Compute, Computed, WithRegs
<1>2. CASE Divide(i)
  <2>1. Do(i, Now) = Divided(Now, i)
    BY <1>2, DoIs DEF Divide
  <2> QED BY <1>2, <2>1 DEF Divide, Divided, WithRegs
<1>3. CASE WriteMemory(i)
  <2>1. AddressIn(Now, i) = Address(i) /\ WorthIn(Now, i.s) = Worth(i.s)
    BY DEF AddressIn, Address, IndexIn, Index, WorthIn, Worth
  <2>2. Do(i, Now) = Stored(Now, i)
    BY <1>3, DoIs DEF WriteMemory
  <2> QED BY <1>3, <2>1, <2>2 DEF WriteMemory, Stored, WithMem
<1>4. CASE PushRegister(i)
  <2>1. Do(i, Now) = PushDone(Now, i)
    BY <1>4, DoIs DEF PushRegister
  <2> QED BY <1>4, <2>1 DEF PushRegister, PushDone, WithStack
<1>5. CASE PopRegister(i)
  <2>1. Do(i, Now) = PopDone(Now, i)
    BY <1>5, DoIs DEF PopRegister
  <2> QED BY <1>5, <2>1 DEF PopRegister, PopDone
<1>6. CASE Compare(i)
  <2>1. Do(i, Now) = WithFlag(Now, IF i.op = "test" THEN reg[i.s] = 0 ELSE reg[i.d] = reg[i.s])
    BY <1>6, DoIs DEF Compare
  <2> QED BY <1>6, <2>1 DEF Compare, WithFlag
<1>7. CASE Branch(i, code)
  BY <1>0, <1>7 DEF Branch, Straight, Computing
<1>8. CASE CompareExchange(i)
  <2> DEFINE a == Cell(reg[i.b])
             r == IF mem[a] = reg["rax"] THEN reg ELSE [reg EXCEPT !["rax"] = mem[a]]
             m == IF mem[a] = reg["rax"] THEN [mem EXCEPT ![a] = reg[i.s]] ELSE mem
  <2>1. /\ i.op = "cmpxchg" /\ pc' = pc + 1 /\ UNCHANGED <<stack, calls>>
        /\ zf' = (mem[a] = reg["rax"]) /\ reg' = r /\ mem' = m
    BY <1>8 DEF CompareExchange
  <2>2. Exchange(Now, i) = Config(r, stack, m, mem[a] = reg["rax"], calls)
    BY DEF Exchange
  <2>3. Now' = Config(r, stack, m, mem[a] = reg["rax"], calls)
    BY <2>1
  <2>4. Do(i, Now) = Exchange(Now, i)
    BY <2>1, DoIs
  <2> QED BY <2>1, <2>2, <2>3, <2>4
<1>9. CASE Repeat(i)
  <2>1. CASE i.op = "stosb"
    <3>1. /\ mem' = Filled(mem, reg["rdi"], reg["rcx"], reg["rax"])
          /\ reg' = [reg EXCEPT !["rdi"] = @ + reg["rcx"], !["rcx"] = 0]
          /\ pc' = pc + 1 /\ UNCHANGED <<stack, zf, calls>>
      BY <1>9, <2>1 DEF Repeat
    <3>2. reg' = [reg EXCEPT !["rdi"] = reg["rdi"] + reg["rcx"], !["rcx"] = 0]
      BY <3>1
    <3>3. BlockFilled(Now) = Config([reg EXCEPT !["rdi"] = reg["rdi"] + reg["rcx"], !["rcx"] = 0],
                                    stack, Filled(mem, reg["rdi"], reg["rcx"], reg["rax"]), zf, calls)
      BY Zenon DEF BlockFilled
    <3>4. Now' = BlockFilled(Now)
      BY <3>1, <3>2, <3>3, Zenon
    <3>5. Do(i, Now) = BlockFilled(Now)
      BY <2>1, DoIs
    <3> QED BY <3>1, <3>4, <3>5
  <2>2. CASE i.op = "movsb"
    <3>1. /\ mem' = Copied(mem, reg["rdi"], reg["rcx"], reg["rsi"])
          /\ reg' = [reg EXCEPT !["rdi"] = @ + reg["rcx"], !["rsi"] = @ + reg["rcx"], !["rcx"] = 0]
          /\ pc' = pc + 1 /\ UNCHANGED <<stack, zf, calls>>
      BY <1>9, <2>2 DEF Repeat
    <3>2. reg' = [reg EXCEPT !["rdi"] = reg["rdi"] + reg["rcx"], !["rsi"] = reg["rsi"] + reg["rcx"],
                             !["rcx"] = 0]
      BY <3>1
    <3>3. BlockCopied(Now) =
            Config([reg EXCEPT !["rdi"] = reg["rdi"] + reg["rcx"], !["rsi"] = reg["rsi"] + reg["rcx"],
                               !["rcx"] = 0],
                   stack, Copied(mem, reg["rdi"], reg["rcx"], reg["rsi"]), zf, calls)
      BY Zenon DEF BlockCopied
    <3>4. Now' = BlockCopied(Now)
      BY <3>1, <3>2, <3>3, Zenon
    <3>5. Do(i, Now) = BlockCopied(Now)
      BY <2>2, DoIs
    <3> QED BY <3>1, <3>4, <3>5
  <2> QED BY <1>9, <2>1, <2>2 DEF Repeat
<1>10. CASE EnterKernel(i)
  <2>1. Do(i, Now) = Answered(Now)
    BY <1>10, DoIs DEF EnterKernel
  <2> QED BY <1>10, <2>1 DEF EnterKernel, Answered, Asked
<1>11. CASE ReadPort(i)
  BY <1>0, <1>11 DEF ReadPort, Straight, Computing
<1>12. CASE WritePort(i)
  <2>1. Do(i, Now) = Sending(Now)
    BY <1>12, DoIs DEF WritePort
  <2> QED BY <1>12, <2>1 DEF WritePort, Sending, WithCalls
<1>13. CASE SwitchStack(i)
  <2>1. Do(i, Now) = WithStack(Now, <<>>)
    BY <1>13, DoIs DEF SwitchStack
  <2> QED BY <1>13, <2>1 DEF SwitchStack, WithStack
<1>14. CASE LeaveKernel(i)
  <2>1. Do(i, Now) = Left(Now)
    BY <1>14, DoIs DEF LeaveKernel
  <2> QED BY <1>14, <2>1 DEF LeaveKernel, Left
<1> QED
  BY <1>1, <1>2, <1>3, <1>4, <1>5, <1>6, <1>7, <1>8, <1>9, <1>10, <1>11, <1>12, <1>13, <1>14
  DEF Execute, i

-----------------------------------------------------------------------------
(* Running code from its first instruction to its last.                    *)

IsCode(c) == \E S : c \in Seq(S)

Leads(c, s, t) ==
  \E run : /\ run[0] = s /\ run[Len(c)] = t
           /\ \A k \in 1..Len(c) : run[k] = Do(c[k], run[k - 1])

LEMMA CodeParts ==
  ASSUME NEW a, IsCode(a), NEW b, IsCode(b)
  PROVE  /\ Len(a) \in Nat /\ Len(b) \in Nat
         /\ IsCode(a \o b) /\ Len(a \o b) = Len(a) + Len(b)
         /\ \A k \in 1..Len(a) : (a \o b)[k] = a[k]
         /\ \A k \in 1..Len(b) : (a \o b)[Len(a) + k] = b[k]
<1>1. PICK S : a \in Seq(S)
  BY DEF IsCode
<1>2. PICK T : b \in Seq(T)
  BY DEF IsCode
<1>3. a \in Seq(S \cup T) /\ b \in Seq(S \cup T)
  BY <1>1, <1>2
<1> QED BY <1>3 DEF IsCode

\* What leads through a sequence leads through its parts.
LEMMA LeadsThrough ==
  ASSUME NEW a, IsCode(a), NEW b, IsCode(b), NEW s, NEW t, Leads(a \o b, s, t)
  PROVE  \E u : Leads(a, s, u) /\ Leads(b, u, t)
<1>0. /\ Len(a) \in Nat /\ Len(b) \in Nat /\ Len(a \o b) = Len(a) + Len(b)
      /\ \A k \in 1..Len(a) : (a \o b)[k] = a[k]
      /\ \A k \in 1..Len(b) : (a \o b)[Len(a) + k] = b[k]
  BY CodeParts
<1>1. PICK run : /\ run[0] = s /\ run[Len(a \o b)] = t
                 /\ \A k \in 1..Len(a \o b) : run[k] = Do((a \o b)[k], run[k - 1])
  BY DEF Leads
<1>2. Leads(a, s, run[Len(a)])
  <2>1. ASSUME NEW k \in 1..Len(a) PROVE run[k] = Do(a[k], run[k - 1])
    <3>1. k \in 1..Len(a \o b)
      BY <1>0
    <3> QED BY <1>0, <1>1, <3>1
  <2> QED BY <1>1, <2>1 DEF Leads
<1>3. Leads(b, run[Len(a)], t)
  <2> DEFINE rest == [k \in 0..Len(b) |-> run[Len(a) + k]]
  <2>1. rest[0] = run[Len(a)] /\ rest[Len(b)] = t
    BY <1>0, <1>1
  <2>2. ASSUME NEW k \in 1..Len(b) PROVE rest[k] = Do(b[k], rest[k - 1])
    <3>1. Len(a) + k \in 1..Len(a \o b)
      BY <1>0
    <3>2. run[Len(a) + k] = Do((a \o b)[Len(a) + k], run[Len(a) + k - 1])
      BY <1>1, <3>1
    <3>3. (a \o b)[Len(a) + k] = b[k] /\ Len(a) + k - 1 = Len(a) + (k - 1) /\ k - 1 \in 0..Len(b)
            /\ k \in 0..Len(b)
      BY <1>0
    <3> QED BY <3>2, <3>3
  <2> HIDE DEF rest
  <2> QED BY <2>1, <2>2 DEF Leads
<1> QED BY <1>2, <1>3

LEMMA LeadsOne ==
  ASSUME NEW i, NEW s, NEW t, Leads(<<i>>, s, t)
  PROVE  t = Do(i, s)
BY DEF Leads

LEMMA LeadsNone ==
  ASSUME NEW s, NEW t, Leads(<<>>, s, t)
  PROVE  t = s
BY DEF Leads

\* Short sequences.
LEMMA LeadsFew ==
  ASSUME NEW s, NEW t
  PROVE  /\ \A i, j : Leads(<<i, j>>, s, t) => t = Do(j, Do(i, s))
         /\ \A i, j, k : Leads(<<i, j, k>>, s, t) => t = Do(k, Do(j, Do(i, s)))
         /\ \A i, j, k, l : Leads(<<i, j, k, l>>, s, t) => t = Do(l, Do(k, Do(j, Do(i, s))))
         /\ \A i, j, k, l, m :
              Leads(<<i, j, k, l, m>>, s, t) => t = Do(m, Do(l, Do(k, Do(j, Do(i, s)))))
<1>1. ASSUME NEW i, NEW j, Leads(<<i, j>>, s, t) PROVE t = Do(j, Do(i, s))
  BY <1>1 DEF Leads
<1>2. ASSUME NEW i, NEW j, NEW k, Leads(<<i, j, k>>, s, t) PROVE t = Do(k, Do(j, Do(i, s)))
  BY <1>2 DEF Leads
<1>3. ASSUME NEW i, NEW j, NEW k, NEW l, Leads(<<i, j, k, l>>, s, t)
      PROVE  t = Do(l, Do(k, Do(j, Do(i, s))))
  BY <1>3 DEF Leads
<1>4. ASSUME NEW i, NEW j, NEW k, NEW l, NEW m, Leads(<<i, j, k, l, m>>, s, t)
      PROVE  t = Do(m, Do(l, Do(k, Do(j, Do(i, s)))))
  BY <1>4 DEF Leads
<1> QED BY <1>1, <1>2, <1>3, <1>4

LEMMA Tuples ==
  /\ IsCode(<<>>)
  /\ \A i : IsCode(<<i>>)
  /\ \A i, j : IsCode(<<i, j>>)
  /\ \A i, j, k : IsCode(<<i, j, k>>)
  /\ \A i, j, k, l : IsCode(<<i, j, k, l>>)
  /\ \A i, j, k, l, m : IsCode(<<i, j, k, l, m>>)
<1>1. IsCode(<<>>)
  <2>1. <<>> \in Seq({0})
    OBVIOUS
  <2> QED BY <2>1, Zenon DEF IsCode
<1>2. ASSUME NEW i, NEW j, NEW k, NEW l, NEW m
      PROVE  IsCode(<<i>>) /\ IsCode(<<i, j>>) /\ IsCode(<<i, j, k>>) /\ IsCode(<<i, j, k, l>>)
             /\ IsCode(<<i, j, k, l, m>>)
  <2> DEFINE S == {i, j, k, l, m}
  <2>1. <<i>> \in Seq(S) /\ <<i, j>> \in Seq(S) /\ <<i, j, k>> \in Seq(S) /\ <<i, j, k, l>> \in Seq(S)
        /\ <<i, j, k, l, m>> \in Seq(S)
    OBVIOUS
  <2> QED BY <2>1, Zenon DEF IsCode
<1> QED BY <1>1, <1>2

-----------------------------------------------------------------------------
(* Single instructions.                                                    *)

Put(s, d, v) == WithRegs(s, [s.reg EXCEPT ![d] = v])
Place(s, b, x, n) == Cell(s.reg[b] + IndexIn(s, x) + n)
PutAt(s, a, v) == WithMem(s, [s.mem EXCEPT ![a] = v])

LEMMA DoEach ==
  ASSUME NEW s
  PROVE  /\ \A d, r : Do(Mov(d, r), s) = Put(s, d, s.reg[r])
         /\ \A d, n : Do(Imm(d, n), s) = Put(s, d, n)
         /\ \A d, r : Do(Add(d, r), s) = Put(s, d, s.reg[d] + s.reg[r])
         /\ \A d, n : Do(AddImm(d, n), s) = Put(s, d, s.reg[d] + n)
         /\ \A d : Do(Shl(d), s) = Put(s, d, s.reg[d] * 2 ^ s.reg["rcx"])
         /\ \A d, n : Do(ShlImm(d, n), s) = Put(s, d, s.reg[d] * 2 ^ n)
         /\ \A d, b, x, n : Do(Load(d, b, x, n), s) = Put(s, d, s.mem[Place(s, b, x, n)])
         /\ \A d, b, x, n : Do(Lea(d, b, x, n), s) = Put(s, d, s.reg[b] + IndexIn(s, x) + n)
         /\ \A d : Do(Neg(d), s) = Put(s, d, -s.reg[d]) /\ Do(Not(d), s) = Put(s, d, -s.reg[d] - 1)
         /\ \A r : Do(Idiv(r), s) =
                     Put(Put(s, "rax", s.reg["rax"] \div s.reg[r]), "rdx", s.reg["rax"] % s.reg[r])
         /\ \A b, x, n, r : Do(Store(b, x, n, r), s) = PutAt(s, Place(s, b, x, n), WorthIn(s, r))
         /\ \A r : Do(Push(r), s) = WithStack(s, Append(s.stack, s.reg[r]))
         /\ \A d : Do(Pop(d), s) = WithStack(Put(s, d, Last(s.stack)), Front(s.stack))
         /\ \A d, r : Do(Cmp(d, r), s) = WithFlag(s, s.reg[d] = s.reg[r])
<1> USE DoIs
<1>1. \A d, r : Do(Mov(d, r), s) = Put(s, d, s.reg[r])
  BY DEF Mov, Computing, Computed, ResultIn, Put
<1>2. \A d, n : Do(Imm(d, n), s) = Put(s, d, n)
  BY DEF Imm, Computing, Computed, ResultIn, Put
<1>3. \A d, r : Do(Add(d, r), s) = Put(s, d, s.reg[d] + s.reg[r])
  BY DEF Add, Computing, Computed, ResultIn, Put
<1>4. \A d, n : Do(AddImm(d, n), s) = Put(s, d, s.reg[d] + n)
  BY DEF AddImm, Computing, Computed, ResultIn, Put
<1>5. \A d : Do(Shl(d), s) = Put(s, d, s.reg[d] * 2 ^ s.reg["rcx"])
  BY DEF Shl, Computing, Computed, ResultIn, Put
<1>6. \A d, n : Do(ShlImm(d, n), s) = Put(s, d, s.reg[d] * 2 ^ n)
  BY DEF ShlImm, Computing, Computed, ResultIn, Put
<1>7. \A d, b, x, n : Do(Load(d, b, x, n), s) = Put(s, d, s.mem[Place(s, b, x, n)])
  BY DEF Load, Computing, Computed, ResultIn, Put, AddressIn, Place
<1>8. \A d, b, x, n : Do(Lea(d, b, x, n), s) = Put(s, d, s.reg[b] + IndexIn(s, x) + n)
  BY DEF Lea, Computing, Computed, ResultIn, Put
<1>9. \A d : Do(Neg(d), s) = Put(s, d, -s.reg[d]) /\ Do(Not(d), s) = Put(s, d, -s.reg[d] - 1)
  BY DEF Neg, Not, Computing, Computed, ResultIn, Put
<1>10. ASSUME NEW r
       PROVE  Do(Idiv(r), s) = Put(Put(s, "rax", s.reg["rax"] \div s.reg[r]), "rdx", s.reg["rax"] % s.reg[r])
  <2>1. Do(Idiv(r), s) = Divided(s, Idiv(r)) /\ Idiv(r).s = r
    BY DEF Idiv
  <2> QED BY <2>1 DEF Divided, Put, WithRegs, Config
<1>11. \A b, x, n, r : Do(Store(b, x, n, r), s) = PutAt(s, Place(s, b, x, n), WorthIn(s, r))
  BY DEF Store, Stored, PutAt, AddressIn, Place
<1>12. \A r : Do(Push(r), s) = WithStack(s, Append(s.stack, s.reg[r]))
  BY DEF Push, PushDone
<1>13. \A d : Do(Pop(d), s) = WithStack(Put(s, d, Last(s.stack)), Front(s.stack))
  BY DEF Pop, PopDone, WithStack, Put, WithRegs, Config
<1>14. \A d, r : Do(Cmp(d, r), s) = WithFlag(s, s.reg[d] = s.reg[r])
  BY DEF Cmp
<1> QED BY <1>1, <1>2, <1>3, <1>4, <1>5, <1>6, <1>7, <1>8, <1>9, <1>10, <1>11, <1>12, <1>13, <1>14

\* What a changed state holds.
LEMMA PutParts ==
  ASSUME NEW s \in State, NEW d \in Regs, NEW v \in Int
  PROVE  /\ Put(s, d, v) \in State
         /\ Put(s, d, v).reg[d] = v
         /\ \A q \in Regs \ {d} : Put(s, d, v).reg[q] = s.reg[q]
         /\ Put(s, d, v).stack = s.stack /\ Put(s, d, v).mem = s.mem
         /\ Put(s, d, v).zf = s.zf /\ Put(s, d, v).calls = s.calls
BY DEF Put, WithRegs, Config, State

LEMMA PutAtParts ==
  ASSUME NEW s \in State, NEW a \in Cells, NEW v \in Int
  PROVE  /\ PutAt(s, a, v) \in State
         /\ PutAt(s, a, v).mem = [s.mem EXCEPT ![a] = v]
         /\ PutAt(s, a, v).reg = s.reg /\ PutAt(s, a, v).stack = s.stack
         /\ PutAt(s, a, v).zf = s.zf /\ PutAt(s, a, v).calls = s.calls
BY DEF PutAt, WithMem, Config, State

LEMMA StackParts ==
  ASSUME NEW s \in State, NEW k \in Seq(Int)
  PROVE  /\ WithStack(s, k) \in State /\ WithStack(s, k).stack = k
         /\ WithStack(s, k).reg = s.reg /\ WithStack(s, k).mem = s.mem
         /\ WithStack(s, k).zf = s.zf /\ WithStack(s, k).calls = s.calls
BY DEF WithStack, Config, State

LEMMA FlagParts ==
  ASSUME NEW s \in State, NEW z \in BOOLEAN
  PROVE  /\ WithFlag(s, z) \in State /\ WithFlag(s, z).zf = z
         /\ WithFlag(s, z).reg = s.reg /\ WithFlag(s, z).mem = s.mem
         /\ WithFlag(s, z).stack = s.stack /\ WithFlag(s, z).calls = s.calls
BY DEF WithFlag, Config, State

LEMMA StateParts ==
  ASSUME NEW s \in State
  PROVE  /\ \A r \in Regs : s.reg[r] \in Int
         /\ \A a \in Cells : s.mem[a] \in Int
         /\ s.stack \in Seq(Int) /\ s.calls \in Seq(Requests)
         /\ s.zf \in BOOLEAN
         /\ s.reg \in [Regs -> Int] /\ s.mem \in [Cells -> Int]
BY DEF State

LEMMA CellParts ==
  ASSUME NEW a \in Int
  PROVE  /\ Cell(a) \in Cells
         /\ a \in Cells => Cell(a) = a
BY ProcessorAssumption DEF Cell, Cells

LEMMA PushPop ==
  ASSUME NEW k \in Seq(Int), NEW v \in Int
  PROVE  /\ Append(k, v) \in Seq(Int)
         /\ Last(Append(k, v)) = v
         /\ Front(Append(k, v)) = k
BY DEF Last, Front

-----------------------------------------------------------------------------
(* Operands.                                                               *)

\* Code that every step of the processor goes straight through.
Plain(c) == \E S : c \in Seq(S) /\ \A i \in S : i.op \in Straight

LEMMA PlainConcat ==
  ASSUME NEW a, NEW b, Plain(a), Plain(b)
  PROVE  Plain(a \o b)
<1>1. PICK S : a \in Seq(S) /\ \A i \in S : i.op \in Straight
  BY DEF Plain
<1>2. PICK T : b \in Seq(T) /\ \A i \in T : i.op \in Straight
  BY DEF Plain
<1>3. a \in Seq(S \cup T) /\ b \in Seq(S \cup T)
  BY <1>1, <1>2
<1>4. a \o b \in Seq(S \cup T)
  BY <1>3
<1> QED BY <1>1, <1>2, <1>4 DEF Plain

LEMMA PlainCode == \A c : Plain(c) => IsCode(c)
BY DEF Plain, IsCode

LEMMA PlainIf ==
  ASSUME NEW c, NEW S, c \in Seq(S), \A i \in S : i.op \in Straight
  PROVE  Plain(c)
BY DEF Plain

LEMMA PlainFew ==
  ASSUME NEW i, NEW j, NEW k, NEW l, NEW m
  PROVE  /\ Plain(<<>>)
         /\ i.op \in Straight => Plain(<<i>>)
         /\ {i.op, j.op} \subseteq Straight => Plain(<<i, j>>)
         /\ {i.op, j.op, k.op} \subseteq Straight => Plain(<<i, j, k>>)
         /\ {i.op, j.op, k.op, l.op} \subseteq Straight => Plain(<<i, j, k, l>>)
         /\ {i.op, j.op, k.op, l.op, m.op} \subseteq Straight => Plain(<<i, j, k, l, m>>)
<1>1. Plain(<<>>)
  <2> DEFINE S == {}
  <2>1. <<>> \in Seq(S)
    OBVIOUS
  <2>2. \A x \in S : x.op \in Straight
    OBVIOUS
  <2> HIDE DEF S
  <2> QED BY <2>1, <2>2, PlainIf
<1>2. ASSUME i.op \in Straight PROVE Plain(<<i>>)
  <2> DEFINE S == {i}
  <2>1. <<i>> \in Seq(S)
    OBVIOUS
  <2>2. \A x \in S : x.op \in Straight
    BY <1>2
  <2> HIDE DEF S
  <2> QED BY <2>1, <2>2, PlainIf
<1>3. ASSUME {i.op, j.op} \subseteq Straight PROVE Plain(<<i, j>>)
  <2> DEFINE S == {i, j}
  <2>1. <<i, j>> \in Seq(S)
    OBVIOUS
  <2>2. \A x \in S : x.op \in Straight
    BY <1>3
  <2> HIDE DEF S
  <2> QED BY <2>1, <2>2, PlainIf
<1>4. ASSUME {i.op, j.op, k.op} \subseteq Straight PROVE Plain(<<i, j, k>>)
  <2> DEFINE S == {i, j, k}
  <2>1. <<i, j, k>> \in Seq(S)
    OBVIOUS
  <2>2. \A x \in S : x.op \in Straight
    BY <1>4
  <2> HIDE DEF S
  <2> QED BY <2>1, <2>2, PlainIf
<1>5. ASSUME {i.op, j.op, k.op, l.op} \subseteq Straight PROVE Plain(<<i, j, k, l>>)
  <2> DEFINE S == {i, j, k, l}
  <2>1. <<i, j, k, l>> \in Seq(S)
    OBVIOUS
  <2>2. \A x \in S : x.op \in Straight
    BY <1>5
  <2> HIDE DEF S
  <2> QED BY <2>1, <2>2, PlainIf
<1>6. ASSUME {i.op, j.op, k.op, l.op, m.op} \subseteq Straight PROVE Plain(<<i, j, k, l, m>>)
  <2> DEFINE S == {i, j, k, l, m}
  <2>1. <<i, j, k, l, m>> \in Seq(S)
    OBVIOUS
  <2>2. \A x \in S : x.op \in Straight
    BY <1>6
  <2> HIDE DEF S
  <2> QED BY <2>1, <2>2, PlainIf
<1> QED BY <1>1, <1>2, <1>3, <1>4, <1>5, <1>6

LEMMA AllStraight ==
  /\ \A d, r : Mov(d, r).op \in Straight /\ Add(d, r).op \in Straight /\ Cmp(d, r).op \in Straight
               /\ LockCmpxchg(d, r).op \in Straight
  /\ \A d, n : Imm(d, n).op \in Straight /\ AddImm(d, n).op \in Straight /\ ShlImm(d, n).op \in Straight
  /\ \A d : /\ Shl(d).op \in Straight /\ Neg(d).op \in Straight /\ Not(d).op \in Straight
            /\ Idiv(d).op \in Straight /\ Push(d).op \in Straight /\ Pop(d).op \in Straight
            /\ SetStack(d).op \in Straight
  /\ \A d, b, x, n : /\ Load(d, b, x, n).op \in Straight /\ Lea(d, b, x, n).op \in Straight
                     /\ Store(b, x, n, d).op \in Straight
  /\ RepStosb.op \in Straight /\ RepMovsb.op \in Straight /\ Syscall.op \in Straight
  /\ Iretq.op \in Straight /\ Out.op \in Straight
  /\ \A d : Test(d).op \in Straight /\ \A n : AndBit(d, n).op \in Straight
BY DEF Straight, Computing, Mov, Imm, Add, AddImm, Shl, ShlImm, Load, Lea, Neg, Not, Idiv, Store, Push,
       Pop, Cmp, LockCmpxchg, RepStosb, RepMovsb, Syscall, SetStack, Iretq, Out, Test, AndBit

LEMMA PlainEval ==
  ASSUME NEW o, IsOperand(o), NEW d
  PROVE  /\ Plain(Eval(o, d)) /\ \A r : Plain(Copy(d, r))
<1>1. \A r, q : Plain(Copy(q, r))
  BY PlainFew, AllStraight DEF Copy
<1>2. CASE \E r \in UserRegs : o = Reg(r)
  BY <1>1, <1>2 DEF Eval, Reg
<1>3. CASE o = Num(o.n)
  <2>1. o.kind = "num"
    BY <1>3 DEF Num
  <2> QED BY <1>1, <2>1, PlainFew, AllStraight DEF Eval
<1>4. CASE \E p, q \in UserRegs : o = Sum(p, q)
  <2>1. Eval(o, d) = Copy("r11", o.a) \o <<Push("r11")>> \o Copy("r12", o.b)
                       \o <<Pop("r11"), Add("r11", "r12")>> \o Copy(d, "r11")
    BY <1>4 DEF Eval, Sum
  <2>2. Plain(<<Push("r11")>>) /\ Plain(<<Pop("r11"), Add("r11", "r12")>>)
    BY PlainFew, AllStraight
  <2> QED BY <1>1, <2>1, <2>2, PlainConcat
<1> QED BY <1>1, <1>2, <1>3, <1>4 DEF IsOperand

\* From s to t only registers in R change.
Changes(s, t, R) ==
  /\ t \in State /\ t.stack = s.stack /\ t.mem = s.mem /\ t.calls = s.calls
  /\ \A q \in Regs \ R : t.reg[q] = s.reg[q]

WorthOf(o, s) ==
  CASE o.kind = "num" -> o.n
    [] o.kind = "reg" -> s.reg[o.a]
    [] o.kind = "sum" -> s.reg[o.a] + s.reg[o.b]

Borrowed(o, d) == IF IsSum(o) THEN {d, "r11", "r12"} ELSE {d}

LEMMA PutChanges ==
  ASSUME NEW s \in State, NEW d \in Regs, NEW v \in Int
  PROVE  Changes(s, Put(s, d, v), {d}) /\ Put(s, d, v).reg[d] = v
BY PutParts DEF Changes

LEMMA CopyLeads ==
  ASSUME NEW s \in State, NEW t, NEW d \in Regs, NEW r \in Regs, Leads(Copy(d, r), s, t)
  PROVE  Changes(s, t, {d}) /\ t.reg[d] = s.reg[r]
<1>1. CASE d = r
  BY <1>1, LeadsNone DEF Copy, Changes
<1>2. CASE d # r
  <2>1. t = Put(s, d, s.reg[r])
    BY <1>2, LeadsOne, DoEach DEF Copy
  <2> QED BY <2>1, PutChanges, StateParts
<1> QED BY <1>1, <1>2

LEMMA EvalLeads ==
  ASSUME NEW s \in State, NEW t, NEW o, IsOperand(o), NEW d \in Regs, Leads(Eval(o, d), s, t)
  PROVE  Changes(s, t, Borrowed(o, d)) /\ t.reg[d] = WorthOf(o, s)
<1>1. CASE \E r \in UserRegs : o = Reg(r)
  <2>1. o.kind = "reg" /\ o.a \in Regs
    BY <1>1 DEF Reg, UserRegs
  <2> QED BY <2>1, CopyLeads DEF Eval, WorthOf, Borrowed, IsSum
<1>2. CASE o = Num(o.n) /\ o.n \in Int
  <2>1. o.kind = "num"
    BY <1>2 DEF Num
  <2>2. t = Put(s, d, o.n)
    BY <2>1, LeadsOne, DoEach DEF Eval
  <2> QED BY <1>2, <2>1, <2>2, PutChanges DEF WorthOf, Borrowed, IsSum
<1>3. CASE \E p, q \in UserRegs : o = Sum(p, q)
  <2>1. o.kind = "sum" /\ o.a \in UserRegs /\ o.b \in UserRegs
    BY <1>3 DEF Sum
  <2>2. "r11" \in Regs /\ "r12" \in Regs /\ o.a \in Regs /\ o.b \in Regs /\ o.b # "r11"
    BY <2>1 DEF Regs, UserRegs
  <2> DEFINE first == Copy("r11", o.a)  second == Copy("r12", o.b)  last == Copy(d, "r11")
             sum == <<Pop("r11"), Add("r11", "r12")>>
  <2>3. Eval(o, d) = first \o <<Push("r11")>> \o second \o sum \o last
    BY <2>1 DEF Eval
  <2>4. IsCode(first) /\ IsCode(second) /\ IsCode(last) /\ IsCode(sum) /\ IsCode(<<Push("r11")>>)
    BY PlainEval, PlainCode, Tuples
  <2> HIDE DEF first, second, last, sum
  <2>5. PICK s4 : Leads(first \o <<Push("r11")>> \o second \o sum, s, s4) /\ Leads(last, s4, t)
    BY <2>3, <2>4, LeadsThrough, CodeParts
  <2>6. PICK s3 : Leads(first \o <<Push("r11")>> \o second, s, s3) /\ Leads(sum, s3, s4)
    BY <2>4, <2>5, LeadsThrough, CodeParts
  <2>7. PICK s2 : Leads(first \o <<Push("r11")>>, s, s2) /\ Leads(second, s2, s3)
    BY <2>4, <2>6, LeadsThrough, CodeParts
  <2>8. PICK s1 : Leads(first, s, s1) /\ Leads(<<Push("r11")>>, s1, s2)
    BY <2>4, <2>7, LeadsThrough, CodeParts
  <2>9. Changes(s, s1, {"r11"}) /\ s1.reg["r11"] = s.reg[o.a]
    <3>1. Leads(Copy("r11", o.a), s, s1)
      BY <2>8 DEF first
    <3> QED BY <2>2, <3>1, CopyLeads
  <2>10. /\ s2 \in State /\ s2.reg = s1.reg /\ s2.mem = s.mem /\ s2.calls = s.calls
         /\ s2.stack = Append(s.stack, s.reg[o.a])
    <3>1. s2 = WithStack(s1, Append(s1.stack, s1.reg["r11"]))
      BY <2>8, LeadsOne, DoEach
    <3>2. s1 \in State /\ s1.stack = s.stack /\ s1.mem = s.mem /\ s1.calls = s.calls
      BY <2>9 DEF Changes
    <3>3. Append(s1.stack, s1.reg["r11"]) \in Seq(Int)
      BY <2>2, <3>2, StateParts, PushPop
    <3>4. \A k \in Seq(Int) :
            /\ WithStack(s1, k) \in State /\ WithStack(s1, k).stack = k
            /\ WithStack(s1, k).reg = s1.reg /\ WithStack(s1, k).mem = s1.mem
            /\ WithStack(s1, k).calls = s1.calls
      BY <3>2, StackParts
    <3> QED BY <2>9, <3>1, <3>2, <3>3, <3>4
  <2>11. Changes(s2, s3, {"r12"}) /\ s3.reg["r12"] = s.reg[o.b]
    <3>1. Changes(s2, s3, {"r12"}) /\ s3.reg["r12"] = s2.reg[o.b]
      BY <2>2, <2>7, <2>10, CopyLeads DEF second
    <3>2. s2.reg[o.b] = s.reg[o.b]
      BY <2>2, <2>9, <2>10 DEF Changes
    <3> QED BY <3>1, <3>2
  <2>12. Changes(s, s4, {"r11", "r12"}) /\ s4.reg["r11"] = s.reg[o.a] + s.reg[o.b]
    <3> DEFINE popped == WithStack(Put(s3, "r11", Last(s3.stack)), Front(s3.stack))
    <3>1. s4 = Put(popped, "r11", popped.reg["r11"] + popped.reg["r12"])
      BY <2>6, LeadsFew, DoEach DEF sum
    <3>2. s3 \in State /\ s3.stack = Append(s.stack, s.reg[o.a]) /\ s3.mem = s.mem /\ s3.calls = s.calls
          /\ s3.reg["r12"] = s.reg[o.b] /\ \A q \in Regs \ {"r11", "r12"} : s3.reg[q] = s.reg[q]
      BY <2>9, <2>10, <2>11 DEF Changes
    <3>3. Last(s3.stack) = s.reg[o.a] /\ Front(s3.stack) = s.stack /\ s.reg[o.a] \in Int
          /\ s.stack \in Seq(Int) /\ s.reg[o.b] \in Int
      BY <2>2, <3>2, StateParts, PushPop
    <3> DEFINE put == Put(s3, "r11", s.reg[o.a])
    <3>4. popped = WithStack(put, s.stack)
      BY <3>3
    <3>5. /\ put \in State /\ put.reg["r11"] = s.reg[o.a] /\ put.mem = s.mem /\ put.calls = s.calls
          /\ \A q \in Regs \ {"r11"} : put.reg[q] = s3.reg[q]
      <4>1. \A r \in Regs, v \in Int :
              /\ Put(s3, r, v) \in State /\ Put(s3, r, v).reg[r] = v
              /\ Put(s3, r, v).mem = s3.mem /\ Put(s3, r, v).calls = s3.calls
              /\ \A q \in Regs \ {r} : Put(s3, r, v).reg[q] = s3.reg[q]
        BY <3>2, PutParts
      <4> QED BY <2>2, <3>2, <3>3, <4>1
    <3>6. /\ popped \in State /\ popped.reg = put.reg /\ popped.mem = s.mem /\ popped.calls = s.calls
          /\ popped.stack = s.stack
      BY <3>3, <3>4, <3>5, StackParts
    <3>7. popped.reg["r11"] = s.reg[o.a] /\ popped.reg["r12"] = s.reg[o.b]
      BY <2>2, <3>2, <3>5, <3>6
    <3> HIDE DEF popped, put
    <3>8. Changes(popped, s4, {"r11"}) /\ s4.reg["r11"] = s.reg[o.a] + s.reg[o.b]
      <4>1. s4 = Put(popped, "r11", s.reg[o.a] + s.reg[o.b]) /\ s.reg[o.a] + s.reg[o.b] \in Int
        BY <3>1, <3>3, <3>7
      <4> QED BY <2>2, <3>6, <4>1, PutChanges
    <3> QED BY <3>2, <3>5, <3>6, <3>8 DEF Changes
  <2>13. Changes(s4, t, {d}) /\ t.reg[d] = s4.reg["r11"]
    <3>1. s4 \in State
      BY <2>12 DEF Changes
    <3>2. Leads(Copy(d, "r11"), s4, t)
      BY <2>5 DEF last
    <3>3. \A r \in Regs : Leads(Copy(d, r), s4, t) => Changes(s4, t, {d}) /\ t.reg[d] = s4.reg[r]
      BY <3>1, CopyLeads
    <3> QED BY <2>2, <3>2, <3>3
  <2>14. Borrowed(o, d) = {d, "r11", "r12"} /\ WorthOf(o, s) = s.reg[o.a] + s.reg[o.b]
    BY <2>1 DEF Borrowed, IsSum, WorthOf
  <2> QED BY <2>12, <2>13, <2>14 DEF Changes
<1> QED BY <1>1, <1>2, <1>3 DEF IsOperand

-----------------------------------------------------------------------------
(* What a statement borrows and gives back.                                *)

\* Inside code c, body runs with the registers of R on the stack.
Wraps(c, body, R) ==
  \A s \in State : \A t : Leads(c, s, t) =>
    \E u \in State : \E v :
      /\ u.reg = s.reg /\ u.mem = s.mem /\ u.calls = s.calls
      /\ Leads(body, u, v)
      /\ v \in State /\ v.stack = u.stack =>
           /\ t \in State /\ t.stack = s.stack /\ t.mem = v.mem /\ t.calls = v.calls /\ t.zf = v.zf
           /\ \A q \in Regs : t.reg[q] = IF q \in R THEN s.reg[q] ELSE v.reg[q]

LEMMA WrapsNone ==
  ASSUME NEW body
  PROVE  Wraps(body, body, {})
BY DEF Wraps

LEMMA WrapsMore ==
  ASSUME NEW c, IsCode(c), NEW body, NEW R, Wraps(c, body, R), NEW a \in Regs
  PROVE  Wraps(<<Push(a)>> \o c \o <<Pop(a)>>, body, R \cup {a})
<1> SUFFICES
      ASSUME NEW s \in State, NEW t, Leads(<<Push(a)>> \o c \o <<Pop(a)>>, s, t)
      PROVE  \E u \in State : \E v :
               /\ u.reg = s.reg /\ u.mem = s.mem /\ u.calls = s.calls
               /\ Leads(body, u, v)
               /\ v \in State /\ v.stack = u.stack =>
                    /\ t \in State /\ t.stack = s.stack /\ t.mem = v.mem /\ t.calls = v.calls /\ t.zf = v.zf
                    /\ \A q \in Regs : t.reg[q] = IF q \in R \cup {a} THEN s.reg[q] ELSE v.reg[q]
  BY DEF Wraps
<1>1. IsCode(<<Push(a)>>) /\ IsCode(<<Pop(a)>>) /\ IsCode(<<Push(a)>> \o c)
  BY Tuples, CodeParts
<1>2. PICK s2 : Leads(<<Push(a)>> \o c, s, s2) /\ Leads(<<Pop(a)>>, s2, t)
  BY <1>1, LeadsThrough
<1>3. PICK s1 : Leads(<<Push(a)>>, s, s1) /\ Leads(c, s1, s2)
  BY <1>1, <1>2, LeadsThrough
<1>4. /\ s1 \in State /\ s1.stack = Append(s.stack, s.reg[a])
      /\ s1.reg = s.reg /\ s1.mem = s.mem /\ s1.calls = s.calls
  <2>1. s1 = WithStack(s, Append(s.stack, s.reg[a]))
    BY <1>3, LeadsOne, DoEach
  <2>2. Append(s.stack, s.reg[a]) \in Seq(Int)
    BY StateParts, PushPop
  <2> QED BY <2>1, <2>2, StackParts
<1>5. PICK u, v :
        /\ u \in State /\ u.reg = s1.reg /\ u.mem = s1.mem /\ u.calls = s1.calls
        /\ Leads(body, u, v)
        /\ v \in State /\ v.stack = u.stack =>
             /\ s2 \in State /\ s2.stack = s1.stack /\ s2.mem = v.mem /\ s2.calls = v.calls /\ s2.zf = v.zf
             /\ \A q \in Regs : s2.reg[q] = IF q \in R THEN s1.reg[q] ELSE v.reg[q]
  <2>1. \E x \in State : \E v :
        /\ x.reg = s1.reg /\ x.mem = s1.mem /\ x.calls = s1.calls
        /\ Leads(body, x, v)
        /\ v \in State /\ v.stack = x.stack =>
             /\ s2 \in State /\ s2.stack = s1.stack /\ s2.mem = v.mem /\ s2.calls = v.calls /\ s2.zf = v.zf
             /\ \A q \in Regs : s2.reg[q] = IF q \in R THEN s1.reg[q] ELSE v.reg[q]
    BY <1>3, <1>4 DEF Wraps
  <2> QED BY <2>1
<1>6. ASSUME v \in State, v.stack = u.stack
      PROVE  /\ t \in State /\ t.stack = s.stack /\ t.mem = v.mem /\ t.calls = v.calls /\ t.zf = v.zf
             /\ \A q \in Regs : t.reg[q] = IF q \in R \cup {a} THEN s.reg[q] ELSE v.reg[q]
  <2>1. /\ s2 \in State /\ s2.stack = Append(s.stack, s.reg[a]) /\ s2.mem = v.mem
        /\ s2.calls = v.calls /\ s2.zf = v.zf
        /\ \A q \in Regs : s2.reg[q] = IF q \in R THEN s.reg[q] ELSE v.reg[q]
    BY <1>4, <1>5, <1>6
  <2>2. t = WithStack(Put(s2, a, Last(s2.stack)), Front(s2.stack))
    BY <1>2, LeadsOne, DoEach
  <2>3. Last(s2.stack) = s.reg[a] /\ Front(s2.stack) = s.stack /\ s.stack \in Seq(Int) /\ s.reg[a] \in Int
    BY <2>1, StateParts, PushPop
  <2> DEFINE p == Put(s2, a, s.reg[a])
  <2>4. t = WithStack(p, s.stack)
    BY <2>2, <2>3
  <2>5. /\ p \in State /\ p.mem = s2.mem /\ p.calls = s2.calls /\ p.zf = s2.zf
        /\ p.reg[a] = s.reg[a] /\ \A q \in Regs \ {a} : p.reg[q] = s2.reg[q]
    BY <2>1, <2>3, PutParts
  <2> HIDE DEF p
  <2>6. /\ t \in State /\ t.stack = s.stack /\ t.reg = p.reg /\ t.mem = p.mem /\ t.calls = p.calls
        /\ t.zf = p.zf
    BY <2>3, <2>4, <2>5, StackParts
  <2> QED BY <2>1, <2>5, <2>6
<1> QED BY <1>4, <1>5, <1>6

LEMMA Assoc ==
  ASSUME NEW a, IsCode(a), NEW b, IsCode(b), NEW c, IsCode(c)
  PROVE  (a \o b) \o c = a \o (b \o c)
<1>1. PICK S : a \in Seq(S)
  BY DEF IsCode
<1>2. PICK T : b \in Seq(T)
  BY DEF IsCode
<1>3. PICK U : c \in Seq(U)
  BY DEF IsCode
<1>4. {a, b, c} \subseteq Seq(S \cup T \cup U)
  BY <1>1, <1>2, <1>3
<1> QED BY <1>4

\* Lists of registers, pushed and popped.
LEMMA SaveFew ==
  ASSUME NEW a, NEW b, NEW c, NEW d
  PROVE  /\ Save(<<>>) = <<>> /\ Restore(<<>>) = <<>>
         /\ Save(<<a>>) = <<Push(a)>> /\ Restore(<<a>>) = <<Pop(a)>>
         /\ Save(<<a, b>>) = <<Push(a), Push(b)>> /\ Restore(<<a, b>>) = <<Pop(b), Pop(a)>>
         /\ Save(<<a, b, c>>) = <<Push(a), Push(b), Push(c)>>
         /\ Restore(<<a, b, c>>) = <<Pop(c), Pop(b), Pop(a)>>
         /\ Save(<<a, b, c, d>>) = <<Push(a), Push(b), Push(c), Push(d)>>
         /\ Restore(<<a, b, c, d>>) = <<Pop(d), Pop(c), Pop(b), Pop(a)>>
<1>1. Save(<<>>) = <<>> /\ Restore(<<>>) = <<>>
  BY DEF Save, Restore, Reverse
<1>2. Save(<<a>>) = <<Push(a)>> /\ Restore(<<a>>) = <<Pop(a)>>
  BY DEF Save, Restore, Reverse
<1>3. Save(<<a, b>>) = <<Push(a), Push(b)>> /\ Restore(<<a, b>>) = <<Pop(b), Pop(a)>>
  BY DEF Save, Restore, Reverse
<1>4. Save(<<a, b, c>>) = <<Push(a), Push(b), Push(c)>>
  BY DEF Save
<1>5. Restore(<<a, b, c>>) = <<Pop(c), Pop(b), Pop(a)>>
  BY DEF Restore, Reverse
<1>6. Save(<<a, b, c, d>>) = <<Push(a), Push(b), Push(c), Push(d)>>
  BY DEF Save
<1>7. Restore(<<a, b, c, d>>) = <<Pop(d), Pop(c), Pop(b), Pop(a)>>
  BY DEF Restore, Reverse
<1> QED BY <1>1, <1>2, <1>3, <1>4, <1>5, <1>6, <1>7

LEMMA TwoSplit ==
  ASSUME NEW i, NEW j
  PROVE  <<i, j>> = <<i>> \o <<j>>
<1> DEFINE s == <<i>> \o <<j>>
<1>1. s \in Seq({i, j}) /\ Len(s) = 2
  OBVIOUS
<1>2. s[1] = i /\ s[2] = j
  OBVIOUS
<1> HIDE DEF s
<1>3. s = <<s[1], s[2]>>
  BY <1>1
<1> QED BY <1>2, <1>3 DEF s

LEMMA ThreeFirst ==
  ASSUME NEW i, NEW j, NEW k
  PROVE  <<i, j, k>> = <<i>> \o <<j, k>>
<1> DEFINE s == <<i>> \o <<j, k>>
<1>1. s \in Seq({i, j, k}) /\ Len(s) = 3
  OBVIOUS
<1>2. s[1] = i /\ s[2] = j /\ s[3] = k
  OBVIOUS
<1> HIDE DEF s
<1>3. s = <<s[1], s[2], s[3]>>
  BY <1>1
<1> QED BY <1>2, <1>3 DEF s

LEMMA ThreeLast ==
  ASSUME NEW i, NEW j, NEW k
  PROVE  <<i, j, k>> = <<i, j>> \o <<k>>
<1> DEFINE s == <<i, j>> \o <<k>>
<1>1. s \in Seq({i, j, k}) /\ Len(s) = 3
  OBVIOUS
<1>2. s[1] = i /\ s[2] = j /\ s[3] = k
  OBVIOUS
<1> HIDE DEF s
<1>3. s = <<s[1], s[2], s[3]>>
  BY <1>1
<1> QED BY <1>2, <1>3 DEF s

LEMMA FourFirst ==
  ASSUME NEW i, NEW j, NEW k, NEW l
  PROVE  <<i, j, k, l>> = <<i>> \o <<j, k, l>>
<1> DEFINE s == <<i>> \o <<j, k, l>>
<1>1. s \in Seq({i, j, k, l}) /\ Len(s) = 4
  OBVIOUS
<1>2. s[1] = i /\ s[2] = j /\ s[3] = k /\ s[4] = l
  OBVIOUS
<1> HIDE DEF s
<1>3. s = <<s[1], s[2], s[3], s[4]>>
  BY <1>1
<1> QED BY <1>2, <1>3 DEF s

LEMMA FourLast ==
  ASSUME NEW i, NEW j, NEW k, NEW l
  PROVE  <<i, j, k, l>> = <<i, j, k>> \o <<l>>
<1> DEFINE s == <<i, j, k>> \o <<l>>
<1>1. s \in Seq({i, j, k, l}) /\ Len(s) = 4
  OBVIOUS
<1>2. s[1] = i /\ s[2] = j /\ s[3] = k /\ s[4] = l
  OBVIOUS
<1> HIDE DEF s
<1>3. s = <<s[1], s[2], s[3], s[4]>>
  BY <1>1
<1> QED BY <1>2, <1>3 DEF s

LEMMA NothingAround ==
  ASSUME NEW c, IsCode(c)
  PROVE  <<>> \o c = c /\ c \o <<>> = c
BY DEF IsCode

LEMMA Common ==
  ASSUME NEW a, IsCode(a), NEW b, IsCode(b), NEW c, IsCode(c), NEW d, IsCode(d), NEW x, IsCode(x)
  PROVE  \E S : {a, b, c, d, x} \subseteq Seq(S)
<1>1. PICK A : a \in Seq(A)
  BY DEF IsCode
<1>2. PICK B : b \in Seq(B)
  BY DEF IsCode
<1>3. PICK C : c \in Seq(C)
  BY DEF IsCode
<1>4. PICK D : d \in Seq(D)
  BY DEF IsCode
<1>5. PICK X : x \in Seq(X)
  BY DEF IsCode
<1>6. {a, b, c, d, x} \subseteq Seq(A \cup B \cup C \cup D \cup X)
  BY <1>1, <1>2, <1>3, <1>4, <1>5
<1> QED BY <1>6, Zenon

LEMMA SavedAround ==
  ASSUME NEW x, IsCode(x), NEW a \in Regs, NEW b \in Regs, NEW c \in Regs, NEW d \in Regs
  PROVE  /\ Wraps(Save(<<>>) \o x \o Restore(<<>>), x, {})
         /\ Wraps(Save(<<a>>) \o x \o Restore(<<a>>), x, {a})
         /\ Wraps(Save(<<a, b>>) \o x \o Restore(<<a, b>>), x, {a, b})
         /\ Wraps(Save(<<a, b, c>>) \o x \o Restore(<<a, b, c>>), x, {a, b, c})
         /\ Wraps(Save(<<a, b, c, d>>) \o x \o Restore(<<a, b, c, d>>), x, {a, b, c, d})
<1>1. Wraps(Save(<<>>) \o x \o Restore(<<>>), x, {})
  BY SaveFew, NothingAround, WrapsNone
<1>2. ASSUME NEW p \in Regs PROVE Wraps(<<Push(p)>> \o x \o <<Pop(p)>>, x, {p})
  <2>1. Wraps(<<Push(p)>> \o x \o <<Pop(p)>>, x, {} \cup {p})
    BY WrapsNone, WrapsMore
  <2> QED BY <2>1
<1>3. ASSUME NEW p \in Regs, NEW q \in Regs
      PROVE  Wraps(<<Push(p), Push(q)>> \o x \o <<Pop(q), Pop(p)>>, x, {p, q})
  <2> DEFINE y == <<Push(q)>> \o x \o <<Pop(q)>>
  <2>1. IsCode(y) /\ Wraps(y, x, {q})
    BY <1>2, Tuples, CodeParts
  <2>2. <<Push(p), Push(q)>> \o x \o <<Pop(q), Pop(p)>> = <<Push(p)>> \o y \o <<Pop(p)>>
    <3> DEFINE a1 == <<Push(p)>>  b1 == <<Push(q)>>  c1 == <<Pop(q)>>  d1 == <<Pop(p)>>
    <3>1. <<Push(p), Push(q)>> = a1 \o b1 /\ <<Pop(q), Pop(p)>> = c1 \o d1
      BY TwoSplit
    <3>2. IsCode(a1) /\ IsCode(b1) /\ IsCode(c1) /\ IsCode(d1)
      BY Tuples
    <3>3. y = b1 \o x \o c1
      OBVIOUS
    <3> HIDE DEF a1, b1, c1, d1, y
    <3>4. PICK S : {a1, b1, c1, d1, x} \subseteq Seq(S)
      BY <3>2, Common
    <3>5. (a1 \o b1) \o x \o (c1 \o d1) = a1 \o y \o d1
      BY <3>3, <3>4, SMTT(60)
    <3> QED BY <3>1, <3>5 DEF a1, d1
  <2> HIDE DEF y
  <2>3. Wraps(<<Push(p)>> \o y \o <<Pop(p)>>, x, {q} \cup {p})
    BY <2>1, WrapsMore
  <2>4. {q} \cup {p} = {p, q}
    OBVIOUS
  <2> QED BY <2>2, <2>3, <2>4
<1>4. ASSUME NEW p \in Regs, NEW q \in Regs, NEW r \in Regs
      PROVE  Wraps(<<Push(p), Push(q), Push(r)>> \o x \o <<Pop(r), Pop(q), Pop(p)>>, x, {p, q, r})
  <2> DEFINE y == <<Push(q), Push(r)>> \o x \o <<Pop(r), Pop(q)>>
  <2>1. IsCode(y) /\ Wraps(y, x, {q, r})
    BY <1>3, Tuples, CodeParts
  <2>2. <<Push(p), Push(q), Push(r)>> \o x \o <<Pop(r), Pop(q), Pop(p)>> = <<Push(p)>> \o y \o <<Pop(p)>>
    <3> DEFINE a1 == <<Push(p)>>  b1 == <<Push(q), Push(r)>>  c1 == <<Pop(r), Pop(q)>>  d1 == <<Pop(p)>>
    <3>1. <<Push(p), Push(q), Push(r)>> = a1 \o b1 /\ <<Pop(r), Pop(q), Pop(p)>> = c1 \o d1
      BY ThreeFirst, ThreeLast
    <3>2. IsCode(a1) /\ IsCode(b1) /\ IsCode(c1) /\ IsCode(d1)
      BY Tuples
    <3>3. y = b1 \o x \o c1
      OBVIOUS
    <3> HIDE DEF a1, b1, c1, d1, y
    <3>4. PICK S : {a1, b1, c1, d1, x} \subseteq Seq(S)
      BY <3>2, Common
    <3>5. (a1 \o b1) \o x \o (c1 \o d1) = a1 \o y \o d1
      BY <3>3, <3>4, SMTT(60)
    <3> QED BY <3>1, <3>5 DEF a1, d1
  <2> HIDE DEF y
  <2>3. Wraps(<<Push(p)>> \o y \o <<Pop(p)>>, x, {q, r} \cup {p})
    BY <2>1, WrapsMore
  <2>4. {q, r} \cup {p} = {p, q, r}
    OBVIOUS
  <2> QED BY <2>2, <2>3, <2>4
<1>5. Wraps(<<Push(a), Push(b), Push(c), Push(d)>> \o x \o <<Pop(d), Pop(c), Pop(b), Pop(a)>>, x, {a, b, c, d})
  <2> DEFINE y == <<Push(b), Push(c), Push(d)>> \o x \o <<Pop(d), Pop(c), Pop(b)>>
  <2>1. IsCode(y) /\ Wraps(y, x, {b, c, d})
    BY <1>4, Tuples, CodeParts
  <2>2. <<Push(a), Push(b), Push(c), Push(d)>> \o x \o <<Pop(d), Pop(c), Pop(b), Pop(a)>>
          = <<Push(a)>> \o y \o <<Pop(a)>>
    <3> DEFINE a1 == <<Push(a)>>  b1 == <<Push(b), Push(c), Push(d)>>
               c1 == <<Pop(d), Pop(c), Pop(b)>>  d1 == <<Pop(a)>>
    <3>1. <<Push(a), Push(b), Push(c), Push(d)>> = a1 \o b1
      BY FourFirst
    <3>2. <<Pop(d), Pop(c), Pop(b), Pop(a)>> = c1 \o d1
      BY FourLast
    <3>3. IsCode(a1) /\ IsCode(b1) /\ IsCode(c1) /\ IsCode(d1)
      BY Tuples
    <3>4. y = b1 \o x \o c1
      OBVIOUS
    <3> HIDE DEF a1, b1, c1, d1, y
    <3>5. PICK S : {a1, b1, c1, d1, x} \subseteq Seq(S)
      BY <3>3, Common
    <3>6. (a1 \o b1) \o x \o (c1 \o d1) = a1 \o y \o d1
      BY <3>4, <3>5, SMTT(60)
    <3> QED BY <3>1, <3>2, <3>6 DEF a1, d1
  <2> HIDE DEF y
  <2>3. Wraps(<<Push(a)>> \o y \o <<Pop(a)>>, x, {b, c, d} \cup {a})
    BY <2>1, WrapsMore
  <2>4. {b, c, d} \cup {a} = {a, b, c, d}
    OBVIOUS
  <2> QED BY <2>2, <2>3, <2>4
<1> QED BY <1>1, <1>2, <1>3, <1>4, <1>5, SaveFew

-----------------------------------------------------------------------------
(* Statements.                                                             *)

IsStatement(s) ==
  /\ s.op \in DOMAIN Arity /\ s.dest \in UserRegs
  /\ IsCode(s.arg) /\ Len(s.arg) \in Arity[s.op]
  /\ \A k \in 1..Len(s.arg) : IsOperand(s.arg[k])
  /\ WellFormed(s) /\ Apart(s)

\* The code of a statement between what it saves and what it restores.
Core(s) == Body(s) \o (IF s.op \in ReturnOps THEN Copy(s.dest, "rax") ELSE <<>>)

Begun(s) ==
  s \in State /\ s.reg = Start /\ s.mem = StartMem /\ s.calls = <<>> /\ s.stack = <<>>

\* Where the core starts, and what its end says of the end of the statement.
Entered(u) == u \in State /\ u.reg = Start /\ u.mem = StartMem /\ u.calls = <<>>

LeftAs(v, u) ==
  v \in State /\ v.stack = u.stack =>
    /\ stack = <<>> /\ mem = v.mem /\ calls = v.calls /\ zf = v.zf
    /\ \A q \in Regs : reg[q] = IF q \in SavedBy(stmt.op) THEN Start[q] ELSE v.reg[q]

LEMMA SavedLists ==
  ASSUME NEW op
  PROVE  /\ op \in {"blast_fill", "blast_copy", "rep_fill", "rep_copy", "wire_cmp"} =>
              Saved(op) = <<"r11", "r12", "r13">>
         /\ op = "wire_copy" => Saved(op) = <<"r11", "r12">>
         /\ op \in {"wire_len", "wire_emit", "cmp"} => Saved(op) = <<"r11">>
         /\ op \in {"cell_map", "cell_protect", "net_poll"} => Saved(op) = <<"r12", "r13", "r14">>
         /\ op \in {"cell_mapfile", "epoll_ctl", "epoll_wait"} => Saved(op) = <<"r12", "r13", "r14", "rbx">>
         /\ op \in {"mem_store", "heap_alloc", "printk"} => Saved(op) = <<"r12">>
         /\ op = "serial_putc" => Saved(op) = <<"rax", "rdx">>
         /\ op = "kbd_poll" => Saved(op) = <<"rdx">>
         /\ op \in {"nic_bar", "preempt_arm"} => Saved(op) = <<"rax">>
         /\ op = "nic_read" => Saved(op) = <<"rdx", "rsi">>
         /\ op = "nic_write" => Saved(op) = <<"rax", "rdx", "rcx">>
         /\ op \notin {"blast_fill", "blast_copy", "rep_fill", "rep_copy", "wire_cmp", "wire_copy", "wire_len",
                       "wire_emit", "cmp", "cell_map", "cell_protect", "net_poll", "cell_mapfile", "epoll_ctl",
                       "epoll_wait", "mem_store", "heap_alloc", "printk", "serial_putc", "kbd_poll", "nic_bar",
                       "preempt_arm", "nic_read", "nic_write"} => Saved(op) = <<>>
BY DEF Saved, Helpers, Fours

LEMMA EmitWraps ==
  ASSUME NEW op, NEW x, IsCode(x)
  PROVE  Wraps(Save(Saved(op)) \o x \o Restore(Saved(op)), x, SavedBy(op))
<1> DEFINE r == Saved(op)
<1>1. \/ r = <<>>
      \/ \E a \in Regs : r = <<a>>
      \/ \E a, b \in Regs : r = <<a, b>>
      \/ \E a, b, c \in Regs : r = <<a, b, c>>
      \/ \E a, b, c, d \in Regs : r = <<a, b, c, d>>
  <2>1. {"rax", "rbx", "rcx", "rdx", "rsi", "r11", "r12", "r13", "r14"} \subseteq Regs
    BY DEF Regs
  <2> QED BY <2>1, SavedLists
<1>2. SavedBy(op) = {r[k] : k \in DOMAIN r}
  BY DEF SavedBy
<1> HIDE DEF r
<1>3. CASE r = <<>>
  <2>1. {r[k] : k \in DOMAIN r} = {}
    BY <1>3
  <2>2. "rax" \in Regs
    BY DEF Regs
  <2>3. Wraps(Save(<<>>) \o x \o Restore(<<>>), x, {})
    BY <2>2, SavedAround
  <2> QED BY <1>2, <1>3, <2>1, <2>3 DEF r
<1>4. CASE \E a \in Regs : r = <<a>>
  <2>1. PICK a \in Regs : r = <<a>>
    BY <1>4
  <2>2. {r[k] : k \in DOMAIN r} = {a}
    BY <2>1
  <2>3. Wraps(Save(<<a>>) \o x \o Restore(<<a>>), x, {a})
    BY SavedAround
  <2> QED BY <1>2, <2>1, <2>2, <2>3 DEF r
<1>5. CASE \E a, b \in Regs : r = <<a, b>>
  <2>1. PICK a \in Regs, b \in Regs : r = <<a, b>>
    BY <1>5
  <2>2. {r[k] : k \in DOMAIN r} = {a, b}
    BY <2>1
  <2>3. Wraps(Save(<<a, b>>) \o x \o Restore(<<a, b>>), x, {a, b})
    BY SavedAround
  <2> QED BY <1>2, <2>1, <2>2, <2>3 DEF r
<1>6. CASE \E a, b, c \in Regs : r = <<a, b, c>>
  <2>1. PICK a \in Regs, b \in Regs, c \in Regs : r = <<a, b, c>>
    BY <1>6
  <2>2. {r[k] : k \in DOMAIN r} = {a, b, c}
    BY <2>1
  <2>3. Wraps(Save(<<a, b, c>>) \o x \o Restore(<<a, b, c>>), x, {a, b, c})
    BY SavedAround
  <2> QED BY <1>2, <2>1, <2>2, <2>3 DEF r
<1>7. CASE \E a, b, c, d \in Regs : r = <<a, b, c, d>>
  <2>1. PICK a \in Regs, b \in Regs, c \in Regs, d \in Regs : r = <<a, b, c, d>>
    BY <1>7
  <2>2. {r[k] : k \in DOMAIN r} = {a, b, c, d}
    BY <2>1
  <2>3. Wraps(Save(<<a, b, c, d>>) \o x \o Restore(<<a, b, c, d>>), x, {a, b, c, d})
    BY SavedAround
  <2> QED BY <1>2, <2>1, <2>2, <2>3 DEF r
<1> QED BY <1>1, <1>3, <1>4, <1>5, <1>6, <1>7

\* From the whole statement to its core.
LEMMA Unwrapped ==
  ASSUME NEW s, Begun(s), Plain(Core(stmt)), Plain(Body(stmt)), Leads(Emit(stmt), s, Now)
  PROVE  \E u, v : Entered(u) /\ Leads(Core(stmt), u, v) /\ LeftAs(v, u)
<1>1. IsCode(Core(stmt))
  BY PlainCode
<1>2. Emit(stmt) = Save(Saved(stmt.op)) \o Core(stmt) \o Restore(Saved(stmt.op))
  <2> DEFINE c == IF stmt.op \in ReturnOps THEN Copy(stmt.dest, "rax") ELSE <<>>
             a == Save(Saved(stmt.op))  b == Body(stmt)
  <2>1. IsCode(a) /\ IsCode(b) /\ IsCode(c)
    <3>1. IsCode(c)
      <4>1. IsCode(<<>>) /\ IsCode(Copy(stmt.dest, "rax"))
        BY Tuples DEF Copy
      <4> QED BY <4>1
    <3>2. IsCode(a)
      <4>1. IsCode(Saved(stmt.op))
        BY SavedLists, Tuples
      <4>2. PICK S : Saved(stmt.op) \in Seq(S)
        BY <4>1 DEF IsCode
      <4>3. a \in Seq({Push(r) : r \in S})
        BY <4>2 DEF Save
      <4> HIDE DEF a
      <4> QED BY <4>3 DEF IsCode
    <3> QED BY <3>1, <3>2, PlainCode
  <2>2. Emit(stmt) = a \o b \o c \o Restore(Saved(stmt.op)) /\ Core(stmt) = b \o c
    BY DEF Emit, Core
  <2> HIDE DEF a, b, c
  <2>3. a \o b \o c = a \o (b \o c)
    BY <2>1, Assoc
  <2> QED BY <2>2, <2>3 DEF a
<1>3. Wraps(Emit(stmt), Core(stmt), SavedBy(stmt.op))
  BY <1>1, <1>2, EmitWraps
<1>4. PICK u, v :
        /\ u \in State /\ u.reg = s.reg /\ u.mem = s.mem /\ u.calls = s.calls
        /\ Leads(Core(stmt), u, v)
        /\ v \in State /\ v.stack = u.stack =>
             /\ Now \in State /\ Now.stack = s.stack /\ Now.mem = v.mem /\ Now.calls = v.calls /\ Now.zf = v.zf
             /\ \A q \in Regs : Now.reg[q] = IF q \in SavedBy(stmt.op) THEN s.reg[q] ELSE v.reg[q]
  <2>1. s \in State
    BY DEF Begun
  <2> QED BY <1>3, <2>1 DEF Wraps
<1>5. Entered(u)
  BY <1>4 DEF Begun, Entered
<1>6. LeftAs(v, u)
  BY <1>4, NowParts DEF Begun, LeftAs
<1> QED BY <1>4, <1>5, <1>6

\* The registers a statement may leave changed, those it should have kept included.
Changed ==
  (IF stmt.op \in ResultOps THEN {stmt.dest} ELSE {}) \cup
  (IF (\E k \in DOMAIN stmt.arg : IsSum(stmt.arg[k])) THEN {"r12"} \ SavedBy(stmt.op) ELSE {}) \cup
  CASE stmt.op = "syscall" -> {"rax"} \cup {SysArgs[k] : k \in DOMAIN stmt.arg}
    [] stmt.op = "call" -> {CallArgs[k] : k \in DOMAIN stmt.arg}
    [] stmt.op = "rep_fill" -> {"rax", "rcx", "rdi"} \ {stmt.arg[1].a}
    [] stmt.op = "rep_copy" -> {"rsi", "rcx", "rdi"} \ {stmt.arg[1].a}
    [] stmt.op = "gate_cas" -> {stmt.arg[2].a, "r12", "r13"}
    [] stmt.op \in SystemOps \ {"syscall"} -> CallClobbered
    [] stmt.op \in {"kbd_poll", "cs_ring", "enter_user"} -> {"rax"}
    [] stmt.op = "cpu_lea" -> {"r12"}
    [] stmt.op \in {"ctx_load", "coop_switch"} -> UserRegs
    [] OTHER -> {}

LEMMA ChangedParts == Changed \subseteq Spoiled \cup Overwritten
<1> DEFINE results == IF stmt.op \in ResultOps THEN {stmt.dest} ELSE {}
           sums == IF (\E k \in DOMAIN stmt.arg : IsSum(stmt.arg[k])) THEN {"r12"} \ SavedBy(stmt.op) ELSE {}
<1>1. sums \subseteq Spoiled \cup Overwritten
  BY DEF Spoiled, Overwritten, HasSum, WireOps
<1>2. CASE stmt.op = "gate_cas"
  <2> SUFFICES ASSUME NEW r, r \in Changed PROVE r \in Spoiled \cup Overwritten
    OBVIOUS
  <2>1. r \in results \/ r \in sums \/ r \in {stmt.arg[2].a, "r12", "r13"}
    BY <1>2 DEF Changed, SystemOps, ReturnOps
  <2>2. Overwritten = {"r12", "r13"}
    BY <1>2 DEF Overwritten, WireOps
  <2>3. ASSUME r \in results PROVE r \in Spoiled
    BY <2>3 DEF Spoiled
  <2>4. ASSUME r = stmt.arg[2].a PROVE r \in Spoiled
    BY <1>2, <2>4 DEF Spoiled, SystemOps, ReturnOps
  <2> HIDE DEF results, sums
  <2> QED BY <1>1, <2>1, <2>2, <2>3, <2>4
<1>3. CASE stmt.op # "gate_cas"
  BY <1>1, <1>3 DEF Changed, Spoiled
<1> QED BY <1>2, <1>3

\* What is to be shown of each statement.
Kept == stack = <<>> /\ \A r \in UserRegs \ Changed : reg[r] = Start[r]
Fulfilled == Effect(Start[stmt.dest]) /\ mem = Memory /\ Kept

\* Its code runs straight through, and where it ends, it has done what it promises.
Works ==
  /\ Plain(Body(stmt))
  /\ \A s : Begun(s) /\ Leads(Emit(stmt), s, Now) => Fulfilled

\* It is enough to look at the core.
LEMMA CoreSuffices ==
  ASSUME Plain(Core(stmt)), Plain(Body(stmt)),
         ASSUME NEW u, NEW v, Entered(u), Leads(Core(stmt), u, v), LeftAs(v, u)
         PROVE  Fulfilled
  PROVE  Works
<1>1. ASSUME NEW s, Begun(s), Leads(Emit(stmt), s, Now)
      PROVE  Fulfilled
  BY <1>1, Unwrapped
<1> QED BY <1>1 DEF Works

LEMMA PlainCore ==
  ASSUME Plain(Body(stmt))
  PROVE  Plain(Core(stmt)) /\ (stmt.op \notin ReturnOps => Core(stmt) = Body(stmt))
<1>1. Plain(IF stmt.op \in ReturnOps THEN Copy(stmt.dest, "rax") ELSE <<>>)
  BY PlainFew, AllStraight DEF Copy
<1>2. Plain(Core(stmt))
  BY <1>1, PlainConcat DEF Core
<1>3. stmt.op \notin ReturnOps => Core(stmt) = Body(stmt) \o <<>>
  BY DEF Core
<1>4. IsCode(Body(stmt))
  BY PlainCode
<1> QED BY <1>2, <1>3, <1>4, NothingAround

\* What operands are worth where the core starts, and after it has used registers
\* that are not theirs.
LEMMA OperandWorth ==
  ASSUME NEW o, IsOperand(o), NEW u, u \in State, \A q \in RegsOf(o) : u.reg[q] = Start[q]
  PROVE  WorthOf(o, u) = Value(o) /\ Value(o) \in Int
<1>1. CASE \E r \in UserRegs : o = Reg(r)
  BY <1>1, LoweringAssumption DEF WorthOf, Value, Reg, RegsOf, UserRegs
<1>2. CASE o = Num(o.n) /\ o.n \in Int
  <2>1. o.kind = "num"
    BY <1>2 DEF Num
  <2> QED BY <1>2, <2>1 DEF WorthOf, Value
<1>3. CASE \E p, q \in UserRegs : o = Sum(p, q)
  BY <1>3, LoweringAssumption DEF WorthOf, Value, Sum, RegsOf, UserRegs
<1> QED BY <1>1, <1>2, <1>3 DEF IsOperand

LEMMA OperandRegs ==
  ASSUME NEW o, IsOperand(o)
  PROVE  /\ RegsOf(o) \subseteq UserRegs /\ UserRegs \subseteq Regs
         /\ o.kind \in {"reg", "num", "sum"}
         /\ o.kind = "reg" => o.a \in UserRegs /\ RegsOf(o) = {o.a}
         /\ o.kind = "num" => o.n \in Int /\ RegsOf(o) = {}
         /\ o.kind # "num" => o.n = 0
         /\ o.kind = "sum" => o.a \in UserRegs /\ o.b \in UserRegs /\ RegsOf(o) = {o.a, o.b}
<1>1. CASE \E r \in UserRegs : o = Reg(r)
  BY <1>1 DEF Reg, RegsOf, UserRegs, Regs
<1>2. CASE o = Num(o.n) /\ o.n \in Int
  <2>1. o.kind = "num" /\ o.a = "none" /\ o.b = "none"
    BY <1>2 DEF Num
  <2> QED BY <1>2, <2>1 DEF RegsOf, UserRegs, Regs
<1>3. CASE \E p, q \in UserRegs : o = Sum(p, q)
  BY <1>3 DEF Sum, RegsOf, UserRegs, Regs
<1> QED BY <1>1, <1>2, <1>3 DEF IsOperand

\* The first operand read, or one that nothing before has touched.
LEMMA FirstOperand ==
  ASSUME NEW u, Entered(u), NEW t, NEW o, IsOperand(o), NEW d \in Regs, Leads(Eval(o, d), u, t)
  PROVE  /\ t \in State /\ t.stack = u.stack /\ t.mem = StartMem /\ t.calls = <<>>
         /\ t.reg[d] = Value(o) /\ Value(o) \in Int
         /\ \A q \in Regs \ Borrowed(o, d) : t.reg[q] = Start[q]
<1>1. u \in State /\ u.mem = StartMem /\ u.calls = <<>> /\ u.reg = Start
  BY DEF Entered
<1>2. Changes(u, t, Borrowed(o, d)) /\ t.reg[d] = WorthOf(o, u)
  BY <1>1, EvalLeads
<1>3. WorthOf(o, u) = Value(o) /\ Value(o) \in Int
  BY <1>1, OperandWorth
<1> QED BY <1>1, <1>2, <1>3 DEF Changes

-----------------------------------------------------------------------------
(* Arithmetic.                                                             *)

ArithmeticOps == {"cpu_set", "cpu_add", "cpu_shl", "cpu_div", "cpu_mod"}

LEMMA OnlyOperand ==
  ASSUME IsStatement(stmt), Arity[stmt.op] = {1}
  PROVE  /\ Len(stmt.arg) = 1 /\ DOMAIN stmt.arg = {1} /\ IsOperand(stmt.arg[1])
         /\ stmt.dest \in UserRegs /\ stmt.dest \in Regs
         /\ (\E k \in DOMAIN stmt.arg : IsSum(stmt.arg[k])) <=> IsSum(stmt.arg[1])
<1>1. Len(stmt.arg) = 1
  BY DEF IsStatement
<1>2. DOMAIN stmt.arg = {1}
  BY <1>1 DEF IsStatement, IsCode
<1> QED BY <1>1, <1>2 DEF IsStatement, UserRegs

LEMMA ArithmeticParts ==
  ASSUME IsStatement(stmt), stmt.op \in ArithmeticOps
  PROVE  /\ Arity[stmt.op] = {1} /\ SavedBy(stmt.op) = {} /\ stmt.op \notin ReturnOps
         /\ Body(stmt) = CpuBin(stmt.op, stmt.dest, stmt.arg[1])
         /\ Memory = StartMem
         /\ stmt.dest \in Changed
         /\ IsSum(stmt.arg[1]) => "r12" \in Changed /\ (stmt.op # "cpu_set" => stmt.dest # "r12")
<1>1. Arity[stmt.op] = {1}
  BY DEF Arity, ArithmeticOps
<1>2. Saved(stmt.op) = <<>>
  BY SavedLists DEF ArithmeticOps
<1>3. SavedBy(stmt.op) = {}
  BY <1>2 DEF SavedBy
<1>4. stmt.op \notin ReturnOps
  BY DEF ArithmeticOps, ReturnOps
<1>5. Body(stmt) = CpuBin(stmt.op, stmt.dest, stmt.arg[1])
  BY DEF ArithmeticOps, Body, CpuOps, UnaryOps
<1>6. Memory = StartMem
  BY DEF ArithmeticOps, Memory
<1>7. stmt.dest \in Changed
  BY DEF Changed, ResultOps, CpuOps, ArithmeticOps
<1>8. IsSum(stmt.arg[1]) => "r12" \in Changed
  BY <1>1, <1>3, OnlyOperand DEF Changed, SavedBy
<1>9. stmt.op # "cpu_set" /\ IsSum(stmt.arg[1]) => stmt.dest # "r12"
  BY DEF IsStatement, Apart, ReadsResult, ArithmeticOps, CpuOps
<1> QED BY <1>1, <1>3, <1>4, <1>5, <1>6, <1>7, <1>8, <1>9

\* Statements whose only effect is their result.
PureOps == ArithmeticOps \cup
  {"cpu_not", "cpu_neg", "cpu_inc", "cpu_dec", "cpu_lea", "mem_load", "heap_alloc", "tick_read", "cs_ring",
   "nic_read"}

LEMMA PureEffect ==
  ASSUME stmt.op \in PureOps, NEW old
  PROVE  Effect(old) <=> reg[stmt.dest] = Answer(old)
BY DEF PureOps, ArithmeticOps, Effect, Result, ResultOps, CpuOps, UnaryOps, SystemOps, ReturnOps

LEMMA ArithmeticAnswer ==
  ASSUME NEW old
  PROVE  /\ stmt.op = "cpu_set" => Answer(old) = Value(stmt.arg[1])
         /\ stmt.op = "cpu_add" => Answer(old) = old + Value(stmt.arg[1])
         /\ stmt.op = "cpu_shl" => Answer(old) = old * 2 ^ Value(stmt.arg[1])
         /\ stmt.op = "cpu_div" => Answer(old) = old \div Value(stmt.arg[1])
         /\ stmt.op = "cpu_mod" => Answer(old) = old % Value(stmt.arg[1])
         /\ stmt.op = "cpu_not" => Answer(old) = -old - 1
         /\ stmt.op = "cpu_neg" => Answer(old) = -old
         /\ stmt.op = "cpu_inc" => Answer(old) = old + 1
         /\ stmt.op = "cpu_dec" => Answer(old) = old - 1
BY DEF Answer, V, ReturnOps

\* What is left to say of an arithmetic statement once its core has ended.
LEMMA ArithmeticEnds ==
  ASSUME IsStatement(stmt), stmt.op \in ArithmeticOps, NEW u, NEW v, Entered(u), LeftAs(v, u),
         v \in State, v.stack = u.stack, v.mem = StartMem, v.calls = <<>>,
         \A q \in UserRegs : q = stmt.dest \/ (IsSum(stmt.arg[1]) /\ q = "r12") \/ v.reg[q] = Start[q]
  PROVE  reg[stmt.dest] = v.reg[stmt.dest] /\ mem = Memory /\ Kept
<1>1. /\ stack = <<>> /\ mem = StartMem
      /\ \A q \in Regs : reg[q] = v.reg[q]
  BY ArithmeticParts DEF LeftAs
<1>2. stmt.dest \in Regs /\ UserRegs \subseteq Regs
  BY DEF IsStatement, UserRegs
<1> QED BY <1>1, <1>2, ArithmeticParts DEF Kept

LEMMA SetDone ==
  ASSUME IsStatement(stmt), stmt.op = "cpu_set"
  PROVE  Works
<1> DEFINE d == stmt.dest  o == stmt.arg[1]
<1>1. stmt.op \in ArithmeticOps
  BY DEF ArithmeticOps
<1>2. IsOperand(o) /\ d \in UserRegs /\ d \in Regs
  BY <1>1, ArithmeticParts, OnlyOperand
<1>3. Body(stmt) = Eval(o, d)
  BY <1>1, ArithmeticParts DEF CpuBin
<1>4. Plain(Body(stmt))
  BY <1>2, <1>3, PlainEval
<1>5. ASSUME NEW u, NEW v, Entered(u), Leads(Core(stmt), u, v), LeftAs(v, u)
      PROVE  Fulfilled
  <2>1. Leads(Eval(o, d), u, v)
    BY <1>1, <1>3, <1>4, <1>5, PlainCore, ArithmeticParts
  <2>2. /\ v \in State /\ v.stack = u.stack /\ v.mem = StartMem /\ v.calls = <<>>
        /\ v.reg[d] = Value(o)
        /\ \A q \in Regs \ Borrowed(o, d) : v.reg[q] = Start[q]
    BY <1>2, <1>5, <2>1, FirstOperand
  <2>3. \A q \in UserRegs : q = d \/ (IsSum(o) /\ q = "r12") \/ q \in Regs \ Borrowed(o, d)
    BY DEF UserRegs, Borrowed
  <2>4. reg[d] = v.reg[d] /\ mem = Memory /\ Kept
    BY <1>1, <1>5, <2>2, <2>3, ArithmeticEnds
  <2>5. Effect(Start[d])
    BY <2>2, <2>4, PureEffect, ArithmeticAnswer DEF PureOps, ArithmeticOps
  <2> QED BY <2>4, <2>5 DEF Fulfilled
<1> QED BY <1>4, <1>5, PlainCore, CoreSuffices

\* Pushing and popping.
LEMMA PushParts ==
  ASSUME NEW s \in State, NEW r \in Regs, NEW t, t = Do(Push(r), s)
  PROVE  /\ t \in State /\ t.stack = Append(s.stack, s.reg[r]) /\ t.reg = s.reg /\ t.mem = s.mem
         /\ t.zf = s.zf /\ t.calls = s.calls
<1> DEFINE k == Append(s.stack, s.reg[r])
<1>1. t = WithStack(s, k)
  BY DoEach
<1>2. k \in Seq(Int)
  BY StateParts, PushPop
<1> HIDE DEF k
<1>3. t \in State /\ t.stack = k /\ t.reg = s.reg /\ t.mem = s.mem /\ t.zf = s.zf /\ t.calls = s.calls
  BY <1>1, <1>2, StackParts
<1> QED BY <1>3 DEF k

\* From s to t registers of R change, and the stack becomes k.
Goes(s, t, R, k) ==
  /\ t \in State /\ t.stack = k /\ t.mem = s.mem /\ t.calls = s.calls
  /\ \A q \in Regs \ R : t.reg[q] = s.reg[q]

\* The stack of s is k, and w on top.
Topped(s, k, w) == s.stack = Append(k, w) /\ k \in Seq(Int) /\ w \in Int

Popped(s, t, d, k, w) == Goes(s, t, {d}, k) /\ t.reg[d] = w

LEMMA PopParts ==
  ASSUME NEW s, NEW d, NEW k, NEW w, NEW t, s \in State, d \in Regs, Topped(s, k, w), t = Do(Pop(d), s)
  PROVE  Popped(s, t, d, k, w)
<1>1. t = WithStack(Put(s, d, Last(s.stack)), Front(s.stack))
  BY DoEach
<1>2. Last(s.stack) = w /\ Front(s.stack) = k /\ k \in Seq(Int) /\ w \in Int
  BY PushPop DEF Topped
<1>3. t = WithStack(Put(s, d, w), k)
  BY <1>1, <1>2
<1>4. Put(s, d, w) \in State
  BY <1>2, PutParts
<1>5. /\ t \in State /\ t.stack = k /\ t.reg = Put(s, d, w).reg /\ t.mem = Put(s, d, w).mem
      /\ t.zf = Put(s, d, w).zf /\ t.calls = Put(s, d, w).calls
  BY <1>2, <1>3, <1>4, StackParts
<1>6. /\ Put(s, d, w).reg[d] = w /\ \A q \in Regs \ {d} : Put(s, d, w).reg[q] = s.reg[q]
      /\ Put(s, d, w).mem = s.mem /\ Put(s, d, w).calls = s.calls
  BY <1>2, PutParts
<1> QED BY <1>5, <1>6 DEF Goes, Popped

LEMMA MovParts ==
  ASSUME NEW s \in State, NEW d \in Regs, NEW r \in Regs, NEW t, t = Do(Mov(d, r), s)
  PROVE  Changes(s, t, {d}) /\ t.reg[d] = s.reg[r]
<1>1. t = Put(s, d, s.reg[r])
  BY DoEach
<1>2. s.reg[r] \in Int
  BY StateParts
<1>3. \A w \in Int : Changes(s, Put(s, d, w), {d}) /\ Put(s, d, w).reg[d] = w
  BY PutChanges
<1> DEFINE w == s.reg[r]
<1>4. t = Put(s, d, w) /\ w \in Int
  BY <1>1, <1>2
<1> HIDE DEF w
<1>5. Changes(s, t, {d}) /\ t.reg[d] = w
  BY <1>3, <1>4
<1> QED BY <1>5 DEF w

LEMMA ImmParts ==
  ASSUME NEW s \in State, NEW d \in Regs, NEW n, n \in Int, NEW t, t = Do(Imm(d, n), s)
  PROVE  Changes(s, t, {d}) /\ t.reg[d] = n
<1>1. t = Put(s, d, n)
  <2>1. \A x, y : Do(Imm(x, y), s) = Put(s, x, y)
    BY DoEach, Zenon
  <2> QED BY <2>1, Zenon
<1> QED BY <1>1, PutChanges

LEMMA AddParts ==
  ASSUME NEW s \in State, NEW d \in Regs, NEW r \in Regs, NEW t, t = Do(Add(d, r), s)
  PROVE  Changes(s, t, {d}) /\ t.reg[d] = s.reg[d] + s.reg[r]
<1>1. t = Put(s, d, s.reg[d] + s.reg[r])
  BY DoEach
<1>2. s.reg[d] + s.reg[r] \in Int
  BY StateParts
<1>3. \A w \in Int : Changes(s, Put(s, d, w), {d}) /\ Put(s, d, w).reg[d] = w
  BY PutChanges
<1> DEFINE w == s.reg[d] + s.reg[r]
<1>4. t = Put(s, d, w) /\ w \in Int
  BY <1>1, <1>2
<1> HIDE DEF w
<1>5. Changes(s, t, {d}) /\ t.reg[d] = w
  BY <1>3, <1>4
<1> QED BY <1>5 DEF w

\* Two registers whose names differ are two registers; which ones there are.
LEMMA Names ==
  /\ {"rax", "rbx", "rcx", "rdx", "rsi", "rdi", "r8", "r9", "r10", "r11", "r12", "r13", "r14", "r15", "rbp"}
       \subseteq Regs
  /\ UserRegs \subseteq Regs
  /\ "r15" \notin UserRegs /\ "r11" \notin UserRegs /\ "rbp" \notin UserRegs
  /\ Temp = "r15"
BY DEF Regs, UserRegs, Temp

LEMMA ThroughTemp ==
  ASSUME IsStatement(stmt), stmt.op \in ArithmeticOps, stmt.op # "cpu_set",
         NEW rest, Plain(rest), Body(stmt) = Eval(stmt.arg[1], Temp) \o rest,
         NEW u, NEW v, Entered(u), Leads(Core(stmt), u, v)
  PROVE  \E w \in State :
           /\ w.stack = u.stack /\ w.mem = StartMem /\ w.calls = <<>>
           /\ w.reg[Temp] = Value(stmt.arg[1]) /\ Value(stmt.arg[1]) \in Int
           /\ w.reg[stmt.dest] = Start[stmt.dest]
           /\ \A q \in UserRegs : (IsSum(stmt.arg[1]) /\ q = "r12") \/ w.reg[q] = Start[q]
           /\ Leads(rest, w, v)
<1> DEFINE o == stmt.arg[1]
<1>1. IsOperand(o) /\ stmt.dest \in UserRegs
  BY ArithmeticParts, OnlyOperand
<1>2. Plain(Eval(o, Temp)) /\ Plain(Body(stmt))
  BY <1>1, PlainEval, PlainConcat
<1>3. Leads(Eval(o, Temp) \o rest, u, v)
  BY <1>2, ArithmeticParts, PlainCore
<1>4. PICK w : Leads(Eval(o, Temp), u, w) /\ Leads(rest, w, v)
  BY <1>2, <1>3, PlainCode, LeadsThrough
<1>5. Temp \in Regs
  BY Names
<1>6. /\ w \in State /\ w.stack = u.stack /\ w.mem = StartMem /\ w.calls = <<>>
      /\ w.reg[Temp] = Value(o) /\ Value(o) \in Int
      /\ \A q \in Regs \ Borrowed(o, Temp) : w.reg[q] = Start[q]
  BY <1>1, <1>4, <1>5, FirstOperand
<1>7. \A q \in UserRegs : (IsSum(o) /\ q = "r12") \/ q \in Regs \ Borrowed(o, Temp)
  BY Names DEF Borrowed
<1>8. stmt.dest = "r12" => ~IsSum(o)
  BY ArithmeticParts
<1> QED BY <1>1, <1>4, <1>6, <1>7, <1>8

\* It is enough to look at what comes after the operand has been read.
LEMMA RestSuffices ==
  ASSUME IsStatement(stmt), stmt.op \in ArithmeticOps, stmt.op # "cpu_set",
         NEW rest, Plain(rest), Body(stmt) = Eval(stmt.arg[1], Temp) \o rest,
         ASSUME NEW w \in State, NEW v, w.reg[Temp] = Value(stmt.arg[1]), w.reg[stmt.dest] = Start[stmt.dest],
                Leads(rest, w, v)
         PROVE  Changes(w, v, {stmt.dest, Temp}) /\ v.reg[stmt.dest] = Answer(Start[stmt.dest])
  PROVE  Works
<1> DEFINE d == stmt.dest  o == stmt.arg[1]
<1>1. IsOperand(o) /\ d \in UserRegs /\ d \in Regs
  BY ArithmeticParts, OnlyOperand
<1>2. Plain(Body(stmt))
  BY <1>1, PlainEval, PlainConcat
<1>3. ASSUME NEW u, NEW v, Entered(u), Leads(Core(stmt), u, v), LeftAs(v, u)
      PROVE  Fulfilled
  <2>1. PICK w \in State :
           /\ w.stack = u.stack /\ w.mem = StartMem /\ w.calls = <<>>
           /\ w.reg[Temp] = Value(o) /\ Value(o) \in Int
           /\ w.reg[d] = Start[d]
           /\ \A q \in UserRegs : (IsSum(o) /\ q = "r12") \/ w.reg[q] = Start[q]
           /\ Leads(rest, w, v)
    BY <1>3, ThroughTemp
  <2>2. Changes(w, v, {d, Temp}) /\ v.reg[d] = Answer(Start[d])
    BY <2>1
  <2>3. v \in State /\ v.stack = u.stack /\ v.mem = StartMem /\ v.calls = <<>>
    BY <2>1, <2>2 DEF Changes
  <2>4. \A q \in UserRegs : q = d \/ (IsSum(o) /\ q = "r12") \/ v.reg[q] = Start[q]
    BY <2>1, <2>2, Names DEF Changes
  <2>5. reg[d] = v.reg[d] /\ mem = Memory /\ Kept
    BY <1>3, <2>3, <2>4, ArithmeticEnds
  <2>6. Effect(Start[d])
    BY <2>2, <2>5, PureEffect DEF PureOps
  <2> QED BY <2>5, <2>6 DEF Fulfilled
<1> QED BY <1>2, <1>3, PlainCore, CoreSuffices

LEMMA AddDone ==
  ASSUME IsStatement(stmt), stmt.op = "cpu_add"
  PROVE  Works
<1> DEFINE d == stmt.dest  rest == <<Add(d, Temp)>>
<1>1. stmt.op \in ArithmeticOps /\ stmt.op # "cpu_set"
  BY DEF ArithmeticOps
<1>2. d \in Regs /\ Temp \in Regs
  BY <1>1, ArithmeticParts, OnlyOperand, Names
<1>3. Body(stmt) = Eval(stmt.arg[1], Temp) \o rest /\ Plain(rest)
  BY <1>1, ArithmeticParts, PlainFew, AllStraight DEF CpuBin
<1>4. ASSUME NEW w \in State, NEW v, w.reg[Temp] = Value(stmt.arg[1]), w.reg[d] = Start[d], Leads(rest, w, v)
      PROVE  Changes(w, v, {d, Temp}) /\ v.reg[d] = Answer(Start[d])
  <2>1. v = Do(Add(d, Temp), w)
    BY <1>4, LeadsOne
  <2>2. Changes(w, v, {d}) /\ v.reg[d] = w.reg[d] + w.reg[Temp]
    BY <1>2, <2>1, AddParts
  <2> QED BY <1>4, <2>2, ArithmeticAnswer DEF Changes
<1> QED BY <1>1, <1>3, <1>4, RestSuffices

\* What register d of s makes when shifted by register r.
Shifted(s, d, r, y) == y \in Int /\ y = s.reg[d] * 2 ^ s.reg[r]

LEMMA ShlParts ==
  ASSUME NEW s \in State, NEW d \in Regs, NEW t, t = Do(Shl(d), s), NEW y, Shifted(s, d, "rcx", y)
  PROVE  Changes(s, t, {d}) /\ t.reg[d] = y
<1>1. t = Put(s, d, y)
  <2>1. t = Put(s, d, s.reg[d] * 2 ^ s.reg["rcx"])
    BY DoEach
  <2> QED BY <2>1, Zenon DEF Shifted
<1>2. y \in Int
  BY DEF Shifted
<1> QED BY <1>1, <1>2, PutChanges

\* The states between the instructions of a short sequence.
LEMMA FourSteps ==
  ASSUME NEW i, NEW j, NEW k, NEW l, NEW s, NEW t, Leads(<<i, j, k, l>>, s, t)
  PROVE  \E a, b, c : a = Do(i, s) /\ b = Do(j, a) /\ c = Do(k, b) /\ t = Do(l, c)
BY LeadsFew

LEMMA SixSteps ==
  ASSUME NEW i, NEW j, NEW k, NEW l, NEW m, NEW n, NEW s, NEW t, Leads(<<i, j, k, l, m, n>>, s, t)
  PROVE  \E a, b, c, d, e : /\ a = Do(i, s) /\ b = Do(j, a) /\ c = Do(k, b) /\ d = Do(l, c)
                            /\ e = Do(m, d) /\ t = Do(n, e)
BY DEF Leads

LEMMA EightSteps ==
  ASSUME NEW i, NEW j, NEW k, NEW l, NEW m, NEW n, NEW o, NEW p, NEW s, NEW t,
         Leads(<<i, j, k, l, m, n, o, p>>, s, t)
  PROVE  \E a, b, c, d, e, f, g : /\ a = Do(i, s) /\ b = Do(j, a) /\ c = Do(k, b) /\ d = Do(l, c)
                                  /\ e = Do(m, d) /\ f = Do(n, e) /\ g = Do(o, f) /\ t = Do(p, g)
BY DEF Leads

LEMMA PlainSix ==
  ASSUME NEW i, NEW j, NEW k, NEW l, NEW m, NEW n, {i.op, j.op, k.op, l.op, m.op, n.op} \subseteq Straight
  PROVE  Plain(<<i, j, k, l, m, n>>)
<1> DEFINE S == {i, j, k, l, m, n}
<1>1. <<i, j, k, l, m, n>> \in Seq(S)
  OBVIOUS
<1>2. \A x \in S : x.op \in Straight
  OBVIOUS
<1> HIDE DEF S
<1> QED BY <1>1, <1>2, PlainIf

LEMMA PlainEight ==
  ASSUME NEW i, NEW j, NEW k, NEW l, NEW m, NEW n, NEW o, NEW p,
         {i.op, j.op, k.op, l.op, m.op, n.op, o.op, p.op} \subseteq Straight
  PROVE  Plain(<<i, j, k, l, m, n, o, p>>)
<1> DEFINE S == {i, j, k, l, m, n, o, p}
<1>1. <<i, j, k, l, m, n, o, p>> \in Seq(S)
  OBVIOUS
<1>2. \A x \in S : x.op \in Straight
  OBVIOUS
<1> HIDE DEF S
<1> QED BY <1>1, <1>2, PlainIf

\* A shift by a register: through cl, and through rax when it is rcx that is shifted.
LEMMA ShiftedByRegister ==
  ASSUME NEW w \in State, NEW v, NEW d \in UserRegs, NEW o, o.kind # "num", Leads(ShiftBy(d, o), w, v),
         NEW y, Shifted(w, d, Temp, y)
  PROVE  Changes(w, v, {d}) /\ v.reg[d] = y
<1>1. d \in Regs /\ Temp \in Regs /\ d # Temp /\ "rcx" \in Regs /\ "rax" \in Regs /\ Temp # "rcx" /\ Temp # "rax"
  BY Names
<1>2. w.stack \in Seq(Int) /\ \A q \in Regs : w.reg[q] \in Int
  BY StateParts
<1>3. CASE d # "rcx"
  <2>1. Leads(<<Push("rcx"), Mov("rcx", Temp), Shl(d), Pop("rcx")>>, w, v)
    BY <1>3 DEF ShiftBy
  <2>2. PICK a, b, c : a = Do(Push("rcx"), w) /\ b = Do(Mov("rcx", Temp), a) /\ c = Do(Shl(d), b)
                         /\ v = Do(Pop("rcx"), c)
    BY <2>1, FourSteps
  <2>0. \A r \in Regs : a = Do(Push(r), w) =>
          /\ a \in State /\ a.stack = Append(w.stack, w.reg[r]) /\ a.reg = w.reg /\ a.mem = w.mem
          /\ a.calls = w.calls
    BY PushParts
  <2>3. /\ a \in State /\ a.stack = Append(w.stack, w.reg["rcx"]) /\ a.reg = w.reg /\ a.mem = w.mem
        /\ a.calls = w.calls
    BY <1>1, <2>2, <2>0
  <2>4. Changes(a, b, {"rcx"}) /\ b.reg["rcx"] = w.reg[Temp]
    BY <1>1, <2>2, <2>3, MovParts
  <2>5. b \in State /\ Shifted(b, d, "rcx", y)
    BY <1>1, <1>3, <2>3, <2>4 DEF Changes, Shifted
  <2>6. Changes(b, c, {d}) /\ c.reg[d] = y
    BY <1>1, <2>2, <2>5, ShlParts
  <2>7. c \in State /\ Topped(c, w.stack, w.reg["rcx"])
    BY <1>1, <1>2, <2>3, <2>4, <2>6 DEF Changes, Topped
  <2>8. Popped(c, v, "rcx", w.stack, w.reg["rcx"])
    BY <1>1, <2>2, <2>7, PopParts
  <2> QED BY <1>1, <1>3, <2>3, <2>4, <2>6, <2>8 DEF Changes, Goes, Popped
<1>4. CASE d = "rcx"
  <2>1. Leads(<<Push("rax"), Mov("rax", "rcx"), Mov("rcx", Temp), Shl("rax"), Mov("rcx", "rax"), Pop("rax")>>,
              w, v)
    BY <1>4 DEF ShiftBy
  <2>2. PICK a, b, c, e, f :
          /\ a = Do(Push("rax"), w) /\ b = Do(Mov("rax", "rcx"), a) /\ c = Do(Mov("rcx", Temp), b)
          /\ e = Do(Shl("rax"), c) /\ f = Do(Mov("rcx", "rax"), e) /\ v = Do(Pop("rax"), f)
    BY <2>1, SixSteps
  <2>0. \A r \in Regs : a = Do(Push(r), w) =>
          /\ a \in State /\ a.stack = Append(w.stack, w.reg[r]) /\ a.reg = w.reg /\ a.mem = w.mem
          /\ a.calls = w.calls
    BY PushParts
  <2>3. /\ a \in State /\ a.stack = Append(w.stack, w.reg["rax"]) /\ a.reg = w.reg /\ a.mem = w.mem
        /\ a.calls = w.calls
    BY <1>1, <2>2, <2>0
  <2>4. Changes(a, b, {"rax"}) /\ b.reg["rax"] = w.reg["rcx"]
    BY <1>1, <2>2, <2>3, MovParts
  <2>5. b \in State
    BY <2>4 DEF Changes
  <2>6. Changes(b, c, {"rcx"}) /\ c.reg["rcx"] = b.reg[Temp]
    BY <1>1, <2>2, <2>5, MovParts
  <2>7. c \in State /\ c.reg["rax"] = w.reg["rcx"] /\ c.reg["rcx"] = w.reg[Temp]
    BY <1>1, <2>3, <2>4, <2>6 DEF Changes
  <2>8. Shifted(c, "rax", "rcx", y)
    BY <1>4, <2>7 DEF Shifted
  <2>9. Changes(c, e, {"rax"}) /\ e.reg["rax"] = y
    <3>1. \A r \in Regs : e = Do(Shl(r), c) /\ Shifted(c, r, "rcx", y) => Changes(c, e, {r}) /\ e.reg[r] = y
      BY <2>7, ShlParts
    <3> QED BY <1>1, <2>2, <2>8, <3>1
  <2>10. e \in State
    BY <2>9 DEF Changes
  <2>11. Changes(e, f, {"rcx"}) /\ f.reg["rcx"] = y
    BY <1>1, <2>2, <2>9, <2>10, MovParts
  <2>12. f \in State /\ Topped(f, w.stack, w.reg["rax"])
    BY <1>1, <1>2, <2>3, <2>4, <2>6, <2>9, <2>11 DEF Changes, Topped
  <2>13. Popped(f, v, "rax", w.stack, w.reg["rax"])
    BY <1>1, <2>2, <2>12, PopParts
  <2> QED BY <1>1, <1>4, <2>3, <2>4, <2>6, <2>9, <2>11, <2>13 DEF Changes, Goes, Popped
<1> QED BY <1>3, <1>4

LEMMA ShiftDone ==
  ASSUME IsStatement(stmt), stmt.op = "cpu_shl"
  PROVE  Works
<1> DEFINE d == stmt.dest  o == stmt.arg[1]  rest == ShiftBy(d, o)  y == Start[d] * 2 ^ Value(o)
<1>1. stmt.op \in ArithmeticOps /\ stmt.op # "cpu_set"
  BY DEF ArithmeticOps
<1>2. d \in Regs /\ d \in UserRegs
  BY <1>1, ArithmeticParts, OnlyOperand
<1>3. Body(stmt) = Eval(stmt.arg[1], Temp) \o rest
  BY <1>1, ArithmeticParts DEF CpuBin
<1>4. Plain(rest)
  BY PlainFew, PlainSix, AllStraight DEF ShiftBy
<1>5. y \in Int
  <2>1. Value(o) \in 0..63
    BY DEF IsStatement, WellFormed
  <2>2. 2 ^ Value(o) \in Int
    BY <2>1
  <2>3. Start[d] \in Int
    BY <1>2, LoweringAssumption
  <2> QED BY <2>2, <2>3
<1>6. ASSUME NEW w \in State, NEW v, w.reg[Temp] = Value(o), w.reg[d] = Start[d], Leads(rest, w, v)
      PROVE  Changes(w, v, {d, Temp}) /\ v.reg[d] = Answer(Start[d])
  <2>1. Shifted(w, d, Temp, y) /\ Answer(Start[d]) = y
    BY <1>5, <1>6, ArithmeticAnswer DEF Shifted
  <2> HIDE DEF y
  <2>2. Changes(w, v, {d}) /\ v.reg[d] = y
    <3>1. CASE o.kind = "num"
      <4>1. v = Put(w, d, w.reg[d] * 2 ^ o.n)
        BY <1>6, <3>1, LeadsOne, DoEach DEF ShiftBy
      <4>2. Value(o) = o.n
        BY <3>1 DEF Value
      <4>3. v = Put(w, d, y)
        BY <1>6, <4>1, <4>2 DEF y
      <4> QED BY <1>2, <1>5, <4>3, PutChanges
    <3>2. CASE o.kind # "num"
      <4>1. Leads(ShiftBy(d, o), w, v) /\ d \in Regs /\ d \in UserRegs
        BY <1>2, <1>6
      <4> HIDE DEF rest
      <4> QED BY <1>6, <2>1, <3>2, <4>1, ShiftedByRegister
    <3> QED BY <3>1, <3>2
  <2> QED BY <2>1, <2>2 DEF Changes
<1> HIDE DEF rest
<1> QED BY <1>1, <1>3, <1>4, <1>6, RestSuffices

\* What rax of s makes when divided by register r, and what is left.
Quotient(s, r, x, z) ==
  x \in Int /\ z \in Int /\ x = s.reg["rax"] \div s.reg[r] /\ z = s.reg["rax"] % s.reg[r]

LEMMA IdivParts ==
  ASSUME NEW s \in State, NEW r, NEW t, t = Do(Idiv(r), s), NEW x, NEW z, Quotient(s, r, x, z)
  PROVE  Changes(s, t, {"rax", "rdx"}) /\ t.reg["rax"] = x /\ t.reg["rdx"] = z
<1>1. t = Put(Put(s, "rax", x), "rdx", z)
  <2>1. t = Put(Put(s, "rax", s.reg["rax"] \div s.reg[r]), "rdx", s.reg["rax"] % s.reg[r])
    BY DoEach
  <2> QED BY <2>1, Zenon DEF Quotient
<1>2. x \in Int /\ z \in Int
  BY DEF Quotient
<1>3. "rax" \in Regs /\ "rdx" \in Regs
  BY Names
<1> DEFINE m == Put(s, "rax", x)
<1>4. Changes(s, m, {"rax"}) /\ m.reg["rax"] = x
  BY <1>2, <1>3, PutChanges
<1>5. m \in State
  BY <1>4 DEF Changes
<1> HIDE DEF m
<1>6. Changes(m, Put(m, "rdx", z), {"rdx"}) /\ Put(m, "rdx", z).reg["rdx"] = z
  BY <1>2, <1>3, <1>5, PutChanges
<1>7. t = Put(m, "rdx", z)
  BY <1>1 DEF m
<1> QED BY <1>3, <1>4, <1>6, <1>7 DEF Changes

LEMMA DividedByTemp ==
  ASSUME NEW w \in State, NEW v, NEW d \in UserRegs, NEW result \in {"rax", "rdx"},
         Leads(DivideBy(d, result), w, v), w.reg[Temp] > 0
  PROVE  /\ Changes(w, v, {d, Temp})
         /\ result = "rax" => v.reg[d] = w.reg[d] \div w.reg[Temp]
         /\ result = "rdx" => v.reg[d] = w.reg[d] % w.reg[Temp]
<1> DEFINE x == w.reg[d] \div w.reg[Temp]  z == w.reg[d] % w.reg[Temp]
<1>1. /\ d \in Regs /\ Temp \in Regs /\ d # Temp /\ "rdx" \in Regs /\ "rax" \in Regs
      /\ Temp # "rdx" /\ Temp # "rax" /\ result \in Regs
  BY Names
<1>2. w.stack \in Seq(Int) /\ \A q \in Regs : w.reg[q] \in Int
  BY StateParts
<1>3. x \in Int /\ z \in Int
  BY <1>1, <1>2
<1>4. PICK a, b, c, e, f, g, h :
        /\ a = Do(Push("rax"), w) /\ b = Do(Push("rdx"), a) /\ c = Do(Mov("rax", d), b)
        /\ e = Do(Idiv(Temp), c) /\ f = Do(Mov(Temp, result), e) /\ g = Do(Pop("rdx"), f)
        /\ h = Do(Pop("rax"), g) /\ v = Do(Mov(d, Temp), h)
  BY EightSteps DEF DivideBy
<1>0. \A r \in Regs : a = Do(Push(r), w) =>
        /\ a \in State /\ a.stack = Append(w.stack, w.reg[r]) /\ a.reg = w.reg /\ a.mem = w.mem
        /\ a.calls = w.calls
  BY PushParts
<1>5. /\ a \in State /\ a.stack = Append(w.stack, w.reg["rax"]) /\ a.reg = w.reg /\ a.mem = w.mem
      /\ a.calls = w.calls
  BY <1>1, <1>4, <1>0
<1> DEFINE k == Append(w.stack, w.reg["rax"])
<1>6. k \in Seq(Int)
  BY <1>1, <1>2, PushPop
<1> HIDE DEF k
<1>7. /\ b \in State /\ b.stack = Append(k, w.reg["rdx"]) /\ b.reg = w.reg /\ b.mem = w.mem
      /\ b.calls = w.calls
  <2>1. /\ b \in State /\ b.stack = Append(a.stack, a.reg["rdx"]) /\ b.reg = a.reg /\ b.mem = a.mem
        /\ b.calls = a.calls
    <3>1. a \in State /\ b = Do(Push("rdx"), a) /\ "rdx" \in Regs
      BY <1>1, <1>4, <1>5
    <3> QED BY <3>1, PushParts
  <2> QED BY <1>5, <2>1 DEF k
<1>8. Changes(b, c, {"rax"}) /\ c.reg["rax"] = w.reg[d]
  BY <1>1, <1>4, <1>7, MovParts
<1>9. c \in State /\ Quotient(c, Temp, x, z)
  BY <1>1, <1>3, <1>7, <1>8 DEF Changes, Quotient
<1> HIDE DEF x, z
<1>10. Changes(c, e, {"rax", "rdx"}) /\ e.reg["rax"] = x /\ e.reg["rdx"] = z
  BY <1>4, <1>9, IdivParts
<1>11. e \in State
  BY <1>10 DEF Changes
<1>12. Changes(e, f, {Temp}) /\ f.reg[Temp] = e.reg[result]
  BY <1>1, <1>4, <1>11, MovParts
<1>13. f \in State /\ Topped(f, k, w.reg["rdx"])
  BY <1>1, <1>2, <1>6, <1>7, <1>8, <1>10, <1>12 DEF Changes, Topped
<1>14. Popped(f, g, "rdx", k, w.reg["rdx"])
  BY <1>1, <1>4, <1>13, PopParts
<1>15. g \in State /\ Topped(g, w.stack, w.reg["rax"])
  BY <1>1, <1>2, <1>14 DEF Popped, Goes, Topped, k
<1>16. Popped(g, h, "rax", w.stack, w.reg["rax"])
  BY <1>1, <1>4, <1>15, PopParts
<1>17. h \in State /\ h.reg[Temp] = e.reg[result] /\ h.stack = w.stack
  BY <1>1, <1>12, <1>14, <1>16 DEF Popped, Goes
<1>18. Changes(h, v, {d}) /\ v.reg[d] = e.reg[result]
  <2>1. Changes(h, v, {d}) /\ v.reg[d] = h.reg[Temp]
    BY <1>1, <1>4, <1>17, MovParts
  <2> QED BY <1>17, <2>1
<1>19. Changes(w, v, {d, Temp})
  BY <1>1, <1>7, <1>8, <1>10, <1>12, <1>14, <1>16, <1>17, <1>18 DEF Changes, Popped, Goes
<1> QED BY <1>10, <1>18, <1>19 DEF x, z

LEMMA DivideDone ==
  ASSUME IsStatement(stmt), stmt.op \in {"cpu_div", "cpu_mod"}
  PROVE  Works
<1> DEFINE d == stmt.dest  o == stmt.arg[1]  result == IF stmt.op = "cpu_div" THEN "rax" ELSE "rdx"
           rest == DivideBy(d, result)
<1>1. stmt.op \in ArithmeticOps /\ stmt.op # "cpu_set"
  BY DEF ArithmeticOps
<1>2. d \in Regs /\ d \in UserRegs
  BY <1>1, ArithmeticParts, OnlyOperand
<1>3. Body(stmt) = Eval(stmt.arg[1], Temp) \o rest
  BY <1>1, ArithmeticParts DEF CpuBin
<1>4. Plain(rest)
  BY PlainEight, AllStraight DEF DivideBy
<1>5. Value(o) > 0
  BY DEF IsStatement, WellFormed
<1>6. ASSUME NEW w \in State, NEW v, w.reg[Temp] = Value(o), w.reg[d] = Start[d], Leads(rest, w, v)
      PROVE  Changes(w, v, {d, Temp}) /\ v.reg[d] = Answer(Start[d])
  <2>1. /\ Changes(w, v, {d, Temp})
        /\ result = "rax" => v.reg[d] = Start[d] \div Value(o)
        /\ result = "rdx" => v.reg[d] = Start[d] % Value(o)
    BY <1>2, <1>5, <1>6, DividedByTemp
  <2> QED BY <2>1, ArithmeticAnswer
<1> HIDE DEF rest
<1> QED BY <1>1, <1>3, <1>4, <1>6, RestSuffices

LEMMA UnaryDone ==
  ASSUME IsStatement(stmt), stmt.op \in {"cpu_not", "cpu_neg", "cpu_inc", "cpu_dec"}
  PROVE  Works
<1> DEFINE d == stmt.dest
<1>1. d \in Regs /\ UserRegs \subseteq Regs
  BY Names DEF IsStatement
<1>2. Body(stmt) = CpuUnary(stmt.op, d)
  BY DEF Body, CpuOps, UnaryOps
<1>3. Plain(Body(stmt))
  BY <1>2, PlainFew, AllStraight DEF CpuUnary
<1>4. /\ Saved(stmt.op) = <<>> /\ SavedBy(stmt.op) = {} /\ stmt.op \notin ReturnOps /\ Memory = StartMem
      /\ d \in Changed /\ stmt.op \in PureOps
  BY SavedLists DEF SavedBy, ReturnOps, Memory, Changed, ResultOps, CpuOps, UnaryOps, PureOps
<1>5. ASSUME NEW u, NEW v, Entered(u), Leads(Core(stmt), u, v), LeftAs(v, u)
      PROVE  Fulfilled
  <2>1. Leads(CpuUnary(stmt.op, d), u, v)
    BY <1>2, <1>3, <1>4, <1>5, PlainCore
  <2>2. u \in State /\ u.reg = Start /\ u.mem = StartMem /\ Start[d] \in Int
    BY <1>1, <1>5, LoweringAssumption DEF Entered
  <2>3. v = Put(u, d, Answer(Start[d]))
    BY <2>1, <2>2, LeadsOne, DoEach, ArithmeticAnswer DEF CpuUnary
  <2>4. Answer(Start[d]) \in Int
    BY <2>2, ArithmeticAnswer
  <2>5. Changes(u, v, {d}) /\ v.reg[d] = Answer(Start[d])
    BY <1>1, <2>2, <2>3, <2>4, PutChanges
  <2>6. stack = <<>> /\ mem = StartMem /\ \A q \in Regs : reg[q] = v.reg[q]
    BY <1>4, <1>5, <2>2, <2>5 DEF LeftAs, Changes
  <2>7. Effect(Start[d])
    BY <1>1, <1>4, <2>5, <2>6, PureEffect
  <2>8. Kept
    BY <1>1, <1>4, <2>2, <2>5, <2>6 DEF Kept, Changes
  <2> QED BY <1>4, <2>6, <2>7, <2>8 DEF Fulfilled
<1> QED BY <1>3, <1>5, PlainCore, CoreSuffices

-----------------------------------------------------------------------------
(* The other statements.                                                   *)

\* The statement ends as v says, but for the registers it has saved.
Matches(v) ==
  /\ mem = v.mem /\ zf = v.zf /\ calls = v.calls
  /\ \A q \in Regs \ SavedBy(stmt.op) : reg[q] = v.reg[q]

Served(u, v) ==
  /\ v \in State /\ v.stack = u.stack
  /\ \A q \in UserRegs \ (Changed \cup SavedBy(stmt.op)) : v.reg[q] = Start[q]
  /\ Matches(v) => Effect(Start[stmt.dest]) /\ v.mem = Memory

LEMMA CoreServes ==
  ASSUME Plain(Body(stmt)),
         ASSUME NEW u, NEW v, Entered(u), Leads(Core(stmt), u, v)
         PROVE  Served(u, v)
  PROVE  Works
<1>1. ASSUME NEW u, NEW v, Entered(u), Leads(Core(stmt), u, v), LeftAs(v, u)
      PROVE  Fulfilled
  <2>1. Served(u, v)
    BY <1>1
  <2>2. /\ stack = <<>> /\ mem = v.mem /\ calls = v.calls /\ zf = v.zf
        /\ \A q \in Regs : reg[q] = IF q \in SavedBy(stmt.op) THEN Start[q] ELSE v.reg[q]
    BY <1>1, <2>1 DEF LeftAs, Served
  <2>3. Matches(v)
    BY <2>2 DEF Matches
  <2>4. Kept
    BY <2>1, <2>2, Names DEF Kept, Served
  <2> QED BY <2>1, <2>2, <2>3, <2>4 DEF Fulfilled, Served
<1> QED BY <1>1, PlainCore, CoreSuffices

LEMMA BodyServes ==
  ASSUME Plain(Body(stmt)), stmt.op \notin ReturnOps,
         ASSUME NEW u, NEW v, Entered(u), Leads(Body(stmt), u, v)
         PROVE  Served(u, v)
  PROVE  Works
BY PlainCore, CoreServes

LEMMA Begins ==
  ASSUME NEW u, Entered(u)
  PROVE  /\ u \in State /\ u.reg = Start /\ u.mem = StartMem /\ u.calls = <<>> /\ u.stack \in Seq(Int)
         /\ \A r \in Regs : Start[r] \in Int
         /\ \A a \in Cells : StartMem[a] \in Int
BY LoweringAssumption, StateParts DEF Entered

\* The arguments of a statement.
LEMMA Args ==
  ASSUME IsStatement(stmt)
  PROVE  /\ Len(stmt.arg) \in Arity[stmt.op] /\ Len(stmt.arg) \in Nat /\ DOMAIN stmt.arg = 1..Len(stmt.arg)
         /\ \A k \in 1..Len(stmt.arg) : IsOperand(stmt.arg[k])
         /\ stmt.dest \in UserRegs /\ stmt.dest \in Regs
         /\ \A k \in 1..Len(stmt.arg) :
              ~(k = 1 /\ stmt.op \in BlockOps \cup {"gate_cas"}) => Intact(stmt, k)
         /\ stmt.op \in ResultOps => stmt.dest \notin SavedBy(stmt.op)
<1>1. Len(stmt.arg) \in Nat /\ DOMAIN stmt.arg = 1..Len(stmt.arg)
  BY DEF IsStatement, IsCode
<1> QED BY <1>1, Names DEF IsStatement, Apart, SavedBy

\* The registers of an operand are as they were.
Fresh(w, o) == IsOperand(o) /\ \A q \in RegsOf(o) : w.reg[q] = Start[q]

LEMMA EvalIntact ==
  ASSUME NEW w, NEW t, NEW o, NEW d, w \in State, Fresh(w, o), d \in Regs, Leads(Eval(o, d), w, t)
  PROVE  Changes(w, t, Borrowed(o, d)) /\ t.reg[d] = Value(o) /\ Value(o) \in Int
<1>1. Changes(w, t, Borrowed(o, d)) /\ t.reg[d] = WorthOf(o, w)
  BY EvalLeads DEF Fresh
<1>2. WorthOf(o, w) = Value(o) /\ Value(o) \in Int
  BY OperandWorth DEF Fresh
<1> QED BY <1>1, <1>2

-----------------------------------------------------------------------------
(* Memory.                                                                 *)

\* What register x, or none, adds to an address.
LEMMA PlaceParts ==
  ASSUME NEW s \in State, NEW b \in Regs, NEW x, x \in Regs \cup {"none"}, NEW n, n \in Int
  PROVE  IndexIn(s, x) \in Int /\ Place(s, b, x, n) \in Cells
         /\ Place(s, b, x, n) = Cell(s.reg[b] + IndexIn(s, x) + n)
<1>1. s.reg[b] \in Int /\ IndexIn(s, x) \in Int
  BY StateParts DEF IndexIn
<1>2. s.reg[b] + IndexIn(s, x) + n \in Int
  BY <1>1
<1> QED BY <1>1, <1>2, CellParts DEF Place

\* An address of an instruction: a register, perhaps another, and a displacement.
IsPlace(b, x, n) == b \in Regs /\ x \in Regs \cup {"none"} /\ n \in Int

LEMMA LoadAnywhere ==
  ASSUME NEW s, NEW d, NEW b, NEW x, NEW n, NEW t, s \in State, d \in Regs, IsPlace(b, x, n),
         t = Do(Load(d, b, x, n), s)
  PROVE  Changes(s, t, {d}) /\ t.reg[d] = s.mem[Place(s, b, x, n)]
<1> DEFINE y == s.mem[Place(s, b, x, n)]
<1>1. t = Put(s, d, y)
  <2>1. \A q, r, z, p : Do(Load(q, r, z, p), s) = Put(s, q, s.mem[Place(s, r, z, p)])
    BY DoEach, Zenon
  <2> QED BY <2>1, Zenon
<1>2. y \in Int
  BY PlaceParts, StateParts DEF IsPlace
<1> HIDE DEF y
<1>3. Changes(s, t, {d}) /\ t.reg[d] = y
  BY <1>1, <1>2, PutChanges
<1> QED BY <1>3 DEF y

LEMMA LoadParts ==
  ASSUME NEW s \in State, NEW d \in Regs, NEW b \in Regs, NEW x, x \in Regs \cup {"none"}, NEW n, n \in Int,
         NEW t, t = Do(Load(d, b, x, n), s)
  PROVE  Changes(s, t, {d}) /\ t.reg[d] = s.mem[Place(s, b, x, n)]
<1>1. IsPlace(b, x, n)
  BY DEF IsPlace
<1> QED BY <1>1, LoadAnywhere

Sums(s, t, d, b, x, n) == t.reg[d] = s.reg[b] + s.reg[x] + n

LEMMA LeaParts ==
  ASSUME NEW s, NEW d, NEW b, NEW x, NEW n, NEW t, s \in State, d \in Regs, IsPlace(b, x, n), x \in Regs,
         t = Do(Lea(d, b, x, n), s)
  PROVE  Changes(s, t, {d}) /\ Sums(s, t, d, b, x, n)
<1> DEFINE y == s.reg[b] + s.reg[x] + n
<1>1. t = Put(s, d, y)
  <2>1. \A q, r, z, p : Do(Lea(q, r, z, p), s) = Put(s, q, s.reg[r] + IndexIn(s, z) + p)
    BY DoEach, Zenon
  <2>2. Do(Lea(d, b, x, n), s) = Put(s, d, s.reg[b] + IndexIn(s, x) + n)
    BY <2>1, Zenon
  <2>3. IndexIn(s, x) = s.reg[x]
    BY DEF IndexIn, Regs
  <2> QED BY <2>2, <2>3
<1>2. y \in Int
  BY StateParts DEF IsPlace
<1> HIDE DEF y
<1>3. Changes(s, t, {d}) /\ t.reg[d] = y
  BY <1>1, <1>2, PutChanges
<1> QED BY <1>3 DEF y, Sums

\* From s to t only the cell a changes, to y.
Writes(s, t, a, y) ==
  /\ t \in State /\ t.reg = s.reg /\ t.stack = s.stack /\ t.calls = s.calls /\ t.zf = s.zf
  /\ t.mem = [s.mem EXCEPT ![a] = y]

LEMMA StoreParts ==
  ASSUME NEW s \in State, NEW r \in Regs, NEW b \in Regs, NEW x, x \in Regs \cup {"none"}, NEW n, n \in Int,
         NEW t, t = Do(Store(b, x, n, r), s)
  PROVE  Writes(s, t, Place(s, b, x, n), s.reg[r])
<1>1. t = PutAt(s, Place(s, b, x, n), WorthIn(s, r))
  <2>1. \A q, p, y, z : Do(Store(q, p, y, z), s) = PutAt(s, Place(s, q, p, y), WorthIn(s, z))
    BY DoEach, Zenon
  <2> QED BY <2>1, Zenon
<1>2. WorthIn(s, r) = s.reg[r]
  BY DEF WorthIn, Regs
<1>3. s.reg[r] \in Int /\ Place(s, b, x, n) \in Cells
  BY PlaceParts, StateParts
<1> DEFINE a == Place(s, b, x, n)  y == s.reg[r]
<1> HIDE DEF a, y
<1>4. t = PutAt(s, a, y) /\ a \in Cells /\ y \in Int
  BY <1>1, <1>2, <1>3 DEF a, y
<1>5. Writes(s, t, a, y)
  BY <1>4, PutAtParts DEF Writes
<1> QED BY <1>5 DEF a, y

LEMMA TwoSteps ==
  ASSUME NEW i, NEW j, NEW s, NEW t, Leads(<<i, j>>, s, t)
  PROVE  \E a : a = Do(i, s) /\ t = Do(j, a)
BY LeadsFew

LEMMA ThreeSteps ==
  ASSUME NEW i, NEW j, NEW k, NEW s, NEW t, Leads(<<i, j, k>>, s, t)
  PROVE  \E a, b : a = Do(i, s) /\ b = Do(j, a) /\ t = Do(k, b)
BY LeadsFew

\* The cells that have a name.
LEMMA NamedCells ==
  /\ \A n \in 0..NicCell : n \in Cells /\ Cell(n) = n
  /\ {TickCell, PreemptCell, NicCell, HeapPtr, Timespec, Timespec + 1} \subseteq 0..NicCell
<1>1. ASSUME NEW n \in 0..NicCell PROVE n \in Cells /\ Cell(n) = n
  <2>1. n \in Cells
    BY LoweringAssumption, ProcessorAssumption DEF Cells, NicCell
  <2> QED BY <2>1, CellParts
<1>2. {TickCell, PreemptCell, NicCell, HeapPtr, Timespec, Timespec + 1} \subseteq 0..NicCell
  BY DEF TickCell, PreemptCell, NicCell, HeapPtr, Timespec
<1> QED BY <1>1, <1>2

\* Loading from a cell with a name, and storing to it, through register b.
Points(s, b, n) == n \in 0..NicCell /\ s.reg[b] = n

LEMMA NamedPlace ==
  ASSUME NEW s \in State, NEW b, b \in Regs, NEW n, Points(s, b, n)
  PROVE  Place(s, b, "none", 0) = n
<1>1. Place(s, b, "none", 0) = Cell(n + 0 + 0)
  BY DEF Place, IndexIn, Points
<1>2. Cell(n) = n /\ Cell(n + 0 + 0) = Cell(n)
  BY NamedCells DEF Points
<1> QED BY <1>1, <1>2

LEMMA LoadNamed ==
  ASSUME NEW s \in State, NEW d \in Regs, NEW b \in Regs, NEW n, Points(s, b, n),
         NEW t, t = Do(Load(d, b, "none", 0), s)
  PROVE  Changes(s, t, {d}) /\ t.reg[d] = s.mem[n]
<1>1. \A x \in Regs \cup {"none"} : t = Do(Load(d, b, x, 0), s) =>
        Changes(s, t, {d}) /\ t.reg[d] = s.mem[Place(s, b, x, 0)]
  BY LoadParts
<1>2. Changes(s, t, {d}) /\ t.reg[d] = s.mem[Place(s, b, "none", 0)]
  BY <1>1
<1> QED BY <1>2, NamedPlace

LEMMA StoreNamed ==
  ASSUME NEW s \in State, NEW r \in Regs, NEW b \in Regs, NEW n, Points(s, b, n),
         NEW t, t = Do(Store(b, "none", 0, r), s)
  PROVE  Writes(s, t, n, s.reg[r])
<1>1. \A x \in Regs \cup {"none"} : t = Do(Store(b, x, 0, r), s) => Writes(s, t, Place(s, b, x, 0), s.reg[r])
  BY StoreParts
<1>2. Writes(s, t, Place(s, b, "none", 0), s.reg[r])
  BY <1>1
<1> QED BY <1>2, NamedPlace

LEMMA TickDone ==
  ASSUME IsStatement(stmt), stmt.op = "tick_read"
  PROVE  Works
<1> DEFINE d == stmt.dest
<1>1. d \in Regs /\ d \in UserRegs /\ Temp \in Regs /\ Temp \notin UserRegs
  BY Args, Names
<1>2. /\ Body(stmt) = <<Imm(Temp, TickCell), Load(d, Temp, "none", 0)>>
      /\ SavedBy(stmt.op) = {} /\ d \in Changed /\ Memory = StartMem
      /\ stmt.op \in PureOps /\ stmt.op \notin ReturnOps
      /\ Answer(Start[d]) = StartMem[TickCell]
  <2>1. Body(stmt) = TickRead(d)
    BY DEF Body, CpuOps, UnaryOps
  <2>2. SavedBy(stmt.op) = {}
    BY SavedLists DEF SavedBy
  <2>3. Memory = StartMem /\ Answer(Start[d]) = StartMem[TickCell]
    BY DEF Memory, Answer, ReturnOps
  <2> QED BY <2>1, <2>2, <2>3 DEF TickRead, Changed, ResultOps, PureOps, ReturnOps
<1>3. Plain(Body(stmt))
  BY <1>2, PlainFew, AllStraight
<1>4. ASSUME NEW u, NEW v, Entered(u), Leads(Body(stmt), u, v)
      PROVE  Served(u, v)
  <2>1. PICK a : a = Do(Imm(Temp, TickCell), u) /\ v = Do(Load(d, Temp, "none", 0), a)
    BY <1>2, <1>4, TwoSteps
  <2>2. u \in State /\ u.reg = Start /\ u.mem = StartMem
    BY <1>4, Begins
  <2>3. TickCell \in 0..NicCell /\ TickCell \in Int
    BY NamedCells DEF TickCell
  <2>4. Changes(u, a, {Temp}) /\ a.reg[Temp] = TickCell
    BY <1>1, <2>1, <2>2, <2>3, ImmParts
  <2>5. a \in State /\ Points(a, Temp, TickCell)
    BY <2>3, <2>4 DEF Changes, Points
  <2>6. Changes(a, v, {d}) /\ v.reg[d] = a.mem[TickCell]
    BY <1>1, <2>1, <2>5, LoadNamed
  <2>7. v.mem = StartMem /\ v.reg[d] = StartMem[TickCell] /\ v \in State /\ v.stack = u.stack
    BY <2>2, <2>4, <2>6 DEF Changes
  <2>8. \A q \in UserRegs \ {d} : v.reg[q] = Start[q]
    BY <1>1, <2>2, <2>4, <2>6, Names DEF Changes
  <2>9. Matches(v) => Effect(Start[d])
    BY <1>1, <1>2, <2>7, PureEffect DEF Matches
  <2> QED BY <1>2, <2>7, <2>8, <2>9 DEF Served
<1> QED BY <1>2, <1>3, <1>4, BodyServes

\* The registers each statement saves.
LEMMA SavedSets ==
  ASSUME NEW op
  PROVE  /\ op \in {"blast_fill", "blast_copy", "rep_fill", "rep_copy", "wire_cmp"} =>
              SavedBy(op) = {"r11", "r12", "r13"}
         /\ op \in {"wire_len", "wire_emit", "cmp"} => SavedBy(op) = {"r11"}
         /\ op \in {"cell_map", "cell_protect", "net_poll"} => SavedBy(op) = {"r12", "r13", "r14"}
         /\ op \in {"cell_mapfile", "epoll_ctl", "epoll_wait"} => SavedBy(op) = {"r12", "r13", "r14", "rbx"}
         /\ op \in {"mem_store", "heap_alloc", "printk"} => SavedBy(op) = {"r12"}
         /\ op \in {"nic_bar", "preempt_arm"} => SavedBy(op) = {"rax"}
         /\ op = "nic_read" => SavedBy(op) = {"rdx", "rsi"}
         /\ op = "nic_write" => SavedBy(op) = {"rax", "rdx", "rcx"}
         /\ op \notin {"blast_fill", "blast_copy", "rep_fill", "rep_copy", "wire_cmp", "wire_copy", "wire_len",
                       "wire_emit", "cmp", "cell_map", "cell_protect", "net_poll", "cell_mapfile", "epoll_ctl",
                       "epoll_wait", "mem_store", "heap_alloc", "printk", "serial_putc", "kbd_poll", "nic_bar",
                       "preempt_arm", "nic_read", "nic_write"} => SavedBy(op) = {}
<1>1. \A a, b, c, d :
        /\ Saved(op) = <<>> => SavedBy(op) = {}
        /\ Saved(op) = <<a>> => SavedBy(op) = {a}
        /\ Saved(op) = <<a, b>> => SavedBy(op) = {a, b}
        /\ Saved(op) = <<a, b, c>> => SavedBy(op) = {a, b, c}
        /\ Saved(op) = <<a, b, c, d>> => SavedBy(op) = {a, b, c, d}
  BY DEF SavedBy
<1> QED BY <1>1, SavedLists

LEMMA RingDone ==
  ASSUME IsStatement(stmt), stmt.op = "cs_ring"
  PROVE  Works
<1> DEFINE d == stmt.dest
<1>1. d \in Regs /\ "rax" \in Regs
  BY Args, Names
<1>2. /\ Body(stmt) = <<Imm("rax", Ring)>> \o Copy(d, "rax")
      /\ SavedBy(stmt.op) = {} /\ {d, "rax"} \subseteq Changed /\ Memory = StartMem
      /\ stmt.op \in PureOps /\ stmt.op \notin ReturnOps
      /\ Answer(Start[d]) = Ring
  <2>1. Body(stmt) = CsRing(d)
    BY DEF Body, CpuOps, UnaryOps
  <2>2. Memory = StartMem /\ Answer(Start[d]) = Ring
    BY DEF Memory, Answer, ReturnOps
  <2>3. "rax" \in Changed /\ d \in Changed
    BY DEF Changed, ResultOps, SystemOps, ReturnOps
  <2> QED BY <2>1, <2>2, <2>3, SavedSets DEF CsRing, PureOps, ReturnOps
<1>3. Plain(Body(stmt)) /\ IsCode(<<Imm("rax", Ring)>>) /\ IsCode(Copy(d, "rax"))
  <2>1. Plain(<<Imm("rax", Ring)>>) /\ Plain(Copy(d, "rax"))
    BY PlainFew, AllStraight DEF Copy
  <2> QED BY <1>2, <2>1, PlainConcat, PlainCode
<1>4. ASSUME NEW u, NEW v, Entered(u), Leads(Body(stmt), u, v)
      PROVE  Served(u, v)
  <2>1. PICK a : Leads(<<Imm("rax", Ring)>>, u, a) /\ Leads(Copy(d, "rax"), a, v)
    BY <1>2, <1>3, <1>4, LeadsThrough
  <2>2. u \in State /\ u.reg = Start /\ u.mem = StartMem
    BY <1>4, Begins
  <2>3. a = Do(Imm("rax", Ring), u) /\ Ring \in Int
    BY <2>1, LeadsOne DEF Ring
  <2>4. \A r \in Regs : a = Do(Imm(r, Ring), u) => Changes(u, a, {r}) /\ a.reg[r] = Ring
    BY <2>2, <2>3, ImmParts
  <2>5. Changes(u, a, {"rax"}) /\ a.reg["rax"] = Ring
    BY <1>1, <2>3, <2>4
  <2>6. a \in State
    BY <2>5 DEF Changes
  <2>7. \A r \in Regs : Leads(Copy(d, r), a, v) => Changes(a, v, {d}) /\ v.reg[d] = a.reg[r]
    <3> HIDE DEF d
    <3> QED BY <1>1, <2>6, CopyLeads
  <2>8. Changes(a, v, {d}) /\ v.reg[d] = Ring
    BY <1>1, <2>1, <2>5, <2>7
  <2>9. v.mem = StartMem /\ v \in State /\ v.stack = u.stack
    BY <2>2, <2>5, <2>8 DEF Changes
  <2>10. \A q \in UserRegs \ {d, "rax"} : v.reg[q] = Start[q]
    BY <2>2, <2>5, <2>8, Names DEF Changes
  <2>11. Matches(v) => Effect(Start[d])
    BY <1>1, <1>2, <2>8, PureEffect DEF Matches
  <2> QED BY <1>2, <2>9, <2>10, <2>11 DEF Served
<1> QED BY <1>2, <1>3, <1>4, BodyServes

\* Statements that only write memory.
LEMMA QuietEffect ==
  ASSUME stmt.op \in {"mem_store", "preempt_arm", "nic_bar", "nic_write", "ctx_save", "rep_fill", "rep_copy"},
         NEW old
  PROVE  Effect(old)
BY DEF Effect, ResultOps, CpuOps, UnaryOps, SystemOps, ReturnOps

LEMMA ArmDone ==
  ASSUME IsStatement(stmt), stmt.op = "preempt_arm"
  PROVE  Works
<1> DEFINE o == stmt.arg[1]  r == o.a
<1>1. Len(stmt.arg) = 1 /\ IsOperand(o) /\ "rax" \in Regs /\ o.kind = "reg"
  <2>1. Arity[stmt.op] = {1}
    BY DEF Arity
  <2>2. Len(stmt.arg) = 1 /\ IsOperand(o) /\ DOMAIN stmt.arg = 1..1
    BY <2>1, Args
  <2>3. 1 \in RegisterArgs(stmt.op)
    BY DEF RegisterArgs
  <2>4. o.kind = "reg"
    BY <2>2, <2>3 DEF IsStatement, WellFormed
  <2> QED BY <2>2, <2>4, Names
<1>2. r \in UserRegs /\ r \in Regs /\ RegsOf(o) = {r}
  BY <1>1, OperandRegs
<1>3. r # "rax"
  <2>1. Intact(stmt, 1)
    BY <1>1, Args DEF BlockOps
  <2>2. First(stmt) = {"rax"}
    BY DEF First
  <2> QED BY <1>2, <2>1, <2>2 DEF Intact, Written, Live
<1>4. /\ Body(stmt) = <<Imm("rax", PreemptCell), Store("rax", "none", 0, r)>>
      /\ SavedBy(stmt.op) = {"rax"} /\ Memory = [StartMem EXCEPT ![PreemptCell] = Value(o)]
      /\ stmt.op \notin ReturnOps /\ Value(o) = Start[r]
  <2>1. Body(stmt) = PreemptArm(r)
    BY DEF Body, CpuOps, UnaryOps
  <2>2. Memory = [StartMem EXCEPT ![PreemptCell] = Value(o)]
    BY DEF Memory, V
  <2>3. Value(o) = Start[r]
    BY <1>1 DEF Value
  <2> QED BY <2>1, <2>2, <2>3, SavedSets DEF PreemptArm, ReturnOps
<1>5. Plain(Body(stmt))
  BY <1>4, PlainFew, AllStraight
<1>6. ASSUME NEW u, NEW v, Entered(u), Leads(Body(stmt), u, v)
      PROVE  Served(u, v)
  <2>1. PICK a : a = Do(Imm("rax", PreemptCell), u) /\ v = Do(Store("rax", "none", 0, r), a)
    BY <1>4, <1>6, TwoSteps
  <2>2. u \in State /\ u.reg = Start /\ u.mem = StartMem
    BY <1>6, Begins
  <2>3. PreemptCell \in 0..NicCell /\ PreemptCell \in Int
    BY NamedCells DEF PreemptCell
  <2>4. \A q \in Regs : a = Do(Imm(q, PreemptCell), u) => Changes(u, a, {q}) /\ a.reg[q] = PreemptCell
    BY <2>2, <2>3, ImmParts
  <2>5. Changes(u, a, {"rax"}) /\ a.reg["rax"] = PreemptCell
    BY <1>1, <2>1, <2>4
  <2>6. a \in State /\ Points(a, "rax", PreemptCell) /\ a.reg[r] = Start[r]
    BY <1>2, <1>3, <2>2, <2>3, <2>5 DEF Changes, Points
  <2>7. \A q \in Regs : v = Do(Store(q, "none", 0, r), a) /\ Points(a, q, PreemptCell) =>
          Writes(a, v, PreemptCell, a.reg[r])
    BY <1>2, <2>6, StoreNamed
  <2>8. Writes(a, v, PreemptCell, Start[r])
    BY <1>1, <2>1, <2>6, <2>7
  <2>9. v.mem = Memory /\ v \in State /\ v.stack = u.stack
    BY <1>4, <2>2, <2>5, <2>8 DEF Changes, Writes
  <2>10. \A q \in UserRegs \ {"rax"} : v.reg[q] = Start[q]
    BY <2>2, <2>5, <2>8, Names DEF Changes, Writes
  <2> QED BY <1>4, <2>9, <2>10, QuietEffect DEF Served
<1> QED BY <1>4, <1>5, <1>6, BodyServes

\* The only operand of a statement.
LEMMA SingleOperand ==
  ASSUME IsStatement(stmt), Arity[stmt.op] = {1}, stmt.op \notin BlockOps \cup {"gate_cas"}
  PROVE  /\ Len(stmt.arg) = 1 /\ DOMAIN stmt.arg = 1..1 /\ IsOperand(stmt.arg[1])
         /\ RegsOf(stmt.arg[1]) \cap First(stmt) = {}
         /\ IsSum(stmt.arg[1]) => First(stmt) \cap {"r11", "r12"} = {}
         /\ IsSum(stmt.arg[1]) => "r12" \in Changed \cup SavedBy(stmt.op)
<1>1. Len(stmt.arg) = 1 /\ DOMAIN stmt.arg = 1..1 /\ IsOperand(stmt.arg[1]) /\ Intact(stmt, 1)
  BY Args
<1>2. First(stmt) \subseteq Live(stmt, 1) /\ First(stmt) \subseteq Written(stmt, 1)
  BY DEF Live, Written
<1>3. IsSum(stmt.arg[1]) => "r12" \in Changed \cup SavedBy(stmt.op)
  BY <1>1 DEF Changed, SavedBy
<1> QED BY <1>1, <1>2, <1>3 DEF Intact

LEMMA BarDone ==
  ASSUME IsStatement(stmt), stmt.op = "nic_bar"
  PROVE  Works
<1> DEFINE o == stmt.arg[1]  rest == <<Imm(Temp, NicCell), Store(Temp, "none", 0, "rax")>>
<1>1. /\ IsOperand(o) /\ "rax" \in Regs /\ Temp \in Regs
      /\ IsSum(o) => "r12" \in Changed \cup SavedBy(stmt.op)
  BY SingleOperand, Names DEF Arity, BlockOps
<1>2. /\ Body(stmt) = Eval(o, "rax") \o rest
      /\ SavedBy(stmt.op) = {"rax"} /\ Memory = [StartMem EXCEPT ![NicCell] = Value(o)]
      /\ stmt.op \notin ReturnOps
  <2>1. Body(stmt) = NicBar(o)
    BY DEF Body, CpuOps, UnaryOps
  <2>2. Memory = [StartMem EXCEPT ![NicCell] = Value(o)]
    BY DEF Memory, V
  <2> QED BY <2>1, <2>2, SavedSets DEF NicBar, ReturnOps
<1>3. Plain(Eval(o, "rax")) /\ Plain(rest)
  BY <1>1, PlainEval, PlainFew, AllStraight
<1>4. ASSUME NEW u, NEW v, Entered(u), Leads(Body(stmt), u, v)
      PROVE  Served(u, v)
  <2>1. PICK a : Leads(Eval(o, "rax"), u, a) /\ Leads(rest, a, v)
    BY <1>2, <1>3, <1>4, PlainCode, LeadsThrough
  <2>2. PICK b : b = Do(Imm(Temp, NicCell), a) /\ v = Do(Store(Temp, "none", 0, "rax"), b)
    BY <2>1, TwoSteps
  <2>3. u \in State /\ u.reg = Start /\ u.mem = StartMem
    BY <1>4, Begins
  <2>4. \A d \in Regs : Leads(Eval(o, d), u, a) => Changes(u, a, Borrowed(o, d)) /\ a.reg[d] = Value(o)
    <3>1. u \in State /\ Fresh(u, o)
      BY <1>1, <2>3 DEF Fresh
    <3> QED BY <3>1, EvalIntact
  <2>5. Changes(u, a, Borrowed(o, "rax")) /\ a.reg["rax"] = Value(o)
    BY <1>1, <2>1, <2>4
  <2>6. a \in State /\ NicCell \in Int /\ NicCell \in 0..NicCell
    BY <2>5 DEF Changes, NicCell
  <2>7. Changes(a, b, {Temp}) /\ b.reg[Temp] = NicCell
    BY <1>1, <2>2, <2>6, ImmParts
  <2>8. b \in State /\ Points(b, Temp, NicCell) /\ b.reg["rax"] = Value(o)
    BY <1>1, <2>5, <2>6, <2>7, Names DEF Changes, Points
  <2>9. \A q \in Regs : v = Do(Store(Temp, "none", 0, q), b) => Writes(b, v, NicCell, b.reg[q])
    BY <1>1, <2>8, StoreNamed
  <2>10. Writes(b, v, NicCell, Value(o))
    BY <1>1, <2>2, <2>8, <2>9
  <2>11. v.mem = Memory /\ v \in State /\ v.stack = u.stack
    BY <1>2, <2>3, <2>5, <2>7, <2>10 DEF Changes, Writes
  <2>12. \A q \in UserRegs \ (Changed \cup {"rax"}) : v.reg[q] = Start[q]
    BY <1>1, <1>2, <2>3, <2>5, <2>7, <2>10, Names DEF Changes, Writes, Borrowed
  <2> QED BY <1>2, <2>11, <2>12, QuietEffect DEF Served
<1>5. Plain(Body(stmt))
  BY <1>2, <1>3, PlainConcat
<1> HIDE DEF rest
<1> QED BY <1>2, <1>4, <1>5, BodyServes

LEMMA AllocateDone ==
  ASSUME IsStatement(stmt), stmt.op = "heap_alloc"
  PROVE  Works
<1> DEFINE d == stmt.dest  o == stmt.arg[1]
           before == <<Imm("r12", HeapPtr), Load(Temp, "r12", "none", 0), Mov(d, Temp)>>
           after == <<Add(Temp, "r11"), Store("r12", "none", 0, Temp)>>
<1>1. /\ IsOperand(o) /\ d \in Regs /\ "r11" \in Regs /\ "r12" \in Regs /\ Temp \in Regs
      /\ d \in UserRegs /\ stmt.op \in ResultOps
  BY SingleOperand, Args, Names DEF Arity, BlockOps, ResultOps
<1>2. ~IsSum(o) /\ RegsOf(o) \cap {"r12", d} = {} /\ d # "r12" /\ d \notin SavedBy(stmt.op)
  <2>1. First(stmt) = {"r12", d}
    BY DEF First
  <2>2. RegsOf(o) \cap {"r12", d} = {} /\ (IsSum(o) => {"r12", d} \cap {"r11", "r12"} = {})
    BY <2>1, SingleOperand DEF Arity, BlockOps
  <2>3. d \notin SavedBy(stmt.op)
    BY <1>1, Args
  <2> QED BY <2>2, <2>3, SavedSets
<1>3. /\ Body(stmt) = before \o Eval(o, "r11") \o after
      /\ SavedBy(stmt.op) = {"r12"} /\ Memory = [StartMem EXCEPT ![HeapPtr] = StartMem[HeapPtr] + Value(o)]
      /\ stmt.op \notin ReturnOps /\ stmt.op \in PureOps /\ d \in Changed
      /\ Answer(Start[d]) = StartMem[HeapPtr]
  <2>1. Body(stmt) = HeapAlloc(d, o)
    BY DEF Body, CpuOps, UnaryOps
  <2>2. Memory = [StartMem EXCEPT ![HeapPtr] = StartMem[HeapPtr] + Value(o)]
    BY DEF Memory, V
  <2>3. Answer(Start[d]) = StartMem[HeapPtr]
    BY DEF Answer, ReturnOps
  <2>4. d \in Changed
    BY <1>1 DEF Changed
  <2> QED BY <2>1, <2>2, <2>3, <2>4, SavedSets DEF HeapAlloc, ReturnOps, PureOps
<1>4. Plain(Eval(o, "r11")) /\ Plain(before) /\ Plain(after)
  BY <1>1, PlainEval, PlainFew, AllStraight
<1>5. ASSUME NEW u, NEW v, Entered(u), Leads(Body(stmt), u, v)
      PROVE  Served(u, v)
  <2>1. PICK c, e : Leads(before, u, c) /\ Leads(Eval(o, "r11"), c, e) /\ Leads(after, e, v)
    <3>1. PICK e : Leads(before \o Eval(o, "r11"), u, e) /\ Leads(after, e, v)
      BY <1>3, <1>4, <1>5, PlainCode, CodeParts, LeadsThrough
    <3>2. PICK c : Leads(before, u, c) /\ Leads(Eval(o, "r11"), c, e)
      BY <1>4, <3>1, PlainCode, LeadsThrough
    <3> QED BY <3>1, <3>2
  <2>2. PICK a, b : a = Do(Imm("r12", HeapPtr), u) /\ b = Do(Load(Temp, "r12", "none", 0), a)
                      /\ c = Do(Mov(d, Temp), b)
    BY <2>1, ThreeSteps
  <2>3. PICK f : f = Do(Add(Temp, "r11"), e) /\ v = Do(Store("r12", "none", 0, Temp), f)
    BY <2>1, TwoSteps
  <2>4. u \in State /\ u.reg = Start /\ u.mem = StartMem /\ HeapPtr \in 0..NicCell /\ HeapPtr \in Int
    BY <1>5, Begins, NamedCells DEF HeapPtr
  <2>5. \A q \in Regs : a = Do(Imm(q, HeapPtr), u) => Changes(u, a, {q}) /\ a.reg[q] = HeapPtr
    BY <2>4, ImmParts
  <2>6. Changes(u, a, {"r12"}) /\ a.reg["r12"] = HeapPtr
    BY <1>1, <2>2, <2>5
  <2>7. a \in State /\ Points(a, "r12", HeapPtr)
    BY <2>4, <2>6 DEF Changes, Points
  <2>8. \A q \in Regs : b = Do(Load(Temp, q, "none", 0), a) /\ Points(a, q, HeapPtr) =>
          Changes(a, b, {Temp}) /\ b.reg[Temp] = a.mem[HeapPtr]
    BY <1>1, <2>7, LoadNamed
  <2>9. Changes(a, b, {Temp}) /\ b.reg[Temp] = a.mem[HeapPtr]
    BY <1>1, <2>2, <2>7, <2>8
  <2>10. b \in State
    BY <2>9 DEF Changes
  <2>11. Changes(b, c, {d}) /\ c.reg[d] = b.reg[Temp]
    BY <1>1, <2>2, <2>10, MovParts
  <2>12. /\ c \in State /\ c.reg["r12"] = HeapPtr /\ c.reg[d] = StartMem[HeapPtr]
         /\ c.reg[Temp] = StartMem[HeapPtr] /\ c.mem = StartMem /\ c.stack = u.stack
         /\ \A q \in UserRegs \ {"r12", d} : c.reg[q] = Start[q]
    BY <1>1, <1>2, <2>4, <2>6, <2>9, <2>11, Names DEF Changes
  <2>13. Fresh(c, o)
    BY <1>1, <1>2, <2>12, OperandRegs DEF Fresh
  <2>14. \A q \in Regs : Leads(Eval(o, q), c, e) => Changes(c, e, Borrowed(o, q)) /\ e.reg[q] = Value(o)
    BY <1>1, <2>12, <2>13, EvalIntact
  <2>15. Changes(c, e, {"r11"}) /\ e.reg["r11"] = Value(o)
    BY <1>1, <1>2, <2>1, <2>14 DEF Borrowed
  <2>16. e \in State
    BY <2>15 DEF Changes
  <2>17. \A q \in Regs : f = Do(Add(Temp, q), e) => Changes(e, f, {Temp}) /\ f.reg[Temp] = e.reg[Temp] + e.reg[q]
    BY <1>1, <2>16, AddParts
  <2>18. Changes(e, f, {Temp}) /\ f.reg[Temp] = e.reg[Temp] + e.reg["r11"]
    BY <1>1, <2>3, <2>17
  <2>19. /\ f \in State /\ Points(f, "r12", HeapPtr) /\ f.reg[Temp] = StartMem[HeapPtr] + Value(o)
         /\ f.mem = StartMem /\ f.stack = u.stack /\ f.reg[d] = StartMem[HeapPtr]
         /\ \A q \in UserRegs \ {"r12", d} : f.reg[q] = Start[q]
    BY <1>1, <2>4, <2>12, <2>15, <2>18, Names DEF Changes, Points
  <2>20. \A q \in Regs : v = Do(Store(q, "none", 0, Temp), f) /\ Points(f, q, HeapPtr) =>
           Writes(f, v, HeapPtr, f.reg[Temp])
    BY <1>1, <2>19, StoreNamed
  <2>21. Writes(f, v, HeapPtr, StartMem[HeapPtr] + Value(o))
    BY <1>1, <2>3, <2>19, <2>20
  <2>22. v.mem = Memory /\ v \in State /\ v.stack = u.stack
    BY <1>3, <2>19, <2>21 DEF Writes
  <2>23. v.reg[d] = Answer(Start[d]) /\ \A q \in UserRegs \ {"r12", d} : v.reg[q] = Start[q]
    BY <1>3, <2>19, <2>21 DEF Writes
  <2>24. Matches(v) => Effect(Start[d])
    BY <1>1, <1>2, <1>3, <2>23, PureEffect DEF Matches
  <2> QED BY <1>3, <2>22, <2>23, <2>24 DEF Served
<1>6. Plain(Body(stmt))
  BY <1>3, <1>4, PlainConcat
<1> HIDE DEF before, after
<1> QED BY <1>3, <1>5, <1>6, BodyServes

LEMMA BasePlace ==
  ASSUME NEW s \in State, NEW b \in Regs
  PROVE  Place(s, b, "none", 0) = Cell(s.reg[b])
<1>1. Place(s, b, "none", 0) = Cell(s.reg[b] + 0 + 0)
  BY DEF Place, IndexIn
<1>2. s.reg[b] + 0 + 0 = s.reg[b]
  BY StateParts
<1> QED BY <1>1, <1>2

LEMMA LoadBase ==
  ASSUME NEW s \in State, NEW d \in Regs, NEW b \in Regs, NEW t, t = Do(Load(d, b, "none", 0), s)
  PROVE  Changes(s, t, {d}) /\ t.reg[d] = s.mem[Cell(s.reg[b])]
<1>1. \A x \in Regs \cup {"none"} : t = Do(Load(d, b, x, 0), s) =>
        Changes(s, t, {d}) /\ t.reg[d] = s.mem[Place(s, b, x, 0)]
  BY LoadParts
<1>2. Changes(s, t, {d}) /\ t.reg[d] = s.mem[Place(s, b, "none", 0)]
  BY <1>1
<1> QED BY <1>2, BasePlace

LEMMA StoreBase ==
  ASSUME NEW s \in State, NEW r \in Regs, NEW b \in Regs, NEW t, t = Do(Store(b, "none", 0, r), s)
  PROVE  Writes(s, t, Cell(s.reg[b]), s.reg[r])
<1>1. \A x \in Regs \cup {"none"} : t = Do(Store(b, x, 0, r), s) => Writes(s, t, Place(s, b, x, 0), s.reg[r])
  BY StoreParts
<1>2. Writes(s, t, Place(s, b, "none", 0), s.reg[r])
  BY <1>1
<1> QED BY <1>2, BasePlace

LEMMA LeadsThree ==
  ASSUME NEW a, NEW b, NEW c, NEW s, NEW t, Plain(a), Plain(b), Plain(c), Leads(a \o b \o c, s, t)
  PROVE  \E x, y : Leads(a, s, x) /\ Leads(b, x, y) /\ Leads(c, y, t)
<1>1. IsCode(a) /\ IsCode(b) /\ IsCode(c) /\ IsCode(a \o b)
  BY PlainCode, CodeParts
<1>2. PICK y : Leads(a \o b, s, y) /\ Leads(c, y, t)
  BY <1>1, LeadsThrough
<1>3. PICK x : Leads(a, s, x) /\ Leads(b, x, y)
  BY <1>1, <1>2, LeadsThrough
<1> QED BY <1>2, <1>3

LEMMA CardReadDone ==
  ASSUME IsStatement(stmt), stmt.op = "nic_read"
  PROVE  Works
<1> DEFINE d == stmt.dest  o == stmt.arg[1]
           before == <<Imm("rsi", NicCell), Load("rsi", "rsi", "none", 0)>>
           after == <<Add("rsi", "rdx"), Load(d, "rsi", "none", 0)>>
           base == StartMem[NicCell]
<1>1. /\ IsOperand(o) /\ d \in Regs /\ "rsi" \in Regs /\ "rdx" \in Regs
      /\ d \in UserRegs /\ stmt.op \in ResultOps
      /\ IsSum(o) => "r12" \in Changed \cup SavedBy(stmt.op)
  BY SingleOperand, Args, Names DEF Arity, BlockOps, ResultOps
<1>2. "rsi" \notin RegsOf(o) /\ d \notin SavedBy(stmt.op)
  <2>1. First(stmt) = {"rsi"}
    BY DEF First
  <2>2. RegsOf(o) \cap {"rsi"} = {}
    BY <2>1, SingleOperand DEF Arity, BlockOps
  <2> QED BY <1>1, <2>2, Args
<1>3. /\ Body(stmt) = before \o Eval(o, "rdx") \o after
      /\ SavedBy(stmt.op) = {"rdx", "rsi"} /\ Memory = StartMem
      /\ stmt.op \notin ReturnOps /\ stmt.op \in PureOps /\ d \in Changed
      /\ Answer(Start[d]) = StartMem[Cell(base + Value(o))]
  <2>1. Body(stmt) = NicRead(d, o)
    BY DEF Body, CpuOps, UnaryOps
  <2>2. Memory = StartMem
    BY DEF Memory
  <2>3. Answer(Start[d]) = StartMem[Cell(base + Value(o))]
    BY DEF Answer, ReturnOps, V
  <2>4. d \in Changed
    BY <1>1 DEF Changed
  <2> QED BY <2>1, <2>2, <2>3, <2>4, SavedSets DEF NicRead, ReturnOps, PureOps
<1>4. Plain(Eval(o, "rdx")) /\ Plain(before) /\ Plain(after)
  BY <1>1, PlainEval, PlainFew, AllStraight
<1>5. ASSUME NEW u, NEW v, Entered(u), Leads(Body(stmt), u, v)
      PROVE  Served(u, v)
  <2>1. PICK b, c : Leads(before, u, b) /\ Leads(Eval(o, "rdx"), b, c) /\ Leads(after, c, v)
    BY <1>3, <1>4, <1>5, LeadsThree
  <2>2. PICK a : a = Do(Imm("rsi", NicCell), u) /\ b = Do(Load("rsi", "rsi", "none", 0), a)
    BY <2>1, TwoSteps
  <2>3. PICK e : e = Do(Add("rsi", "rdx"), c) /\ v = Do(Load(d, "rsi", "none", 0), e)
    BY <2>1, TwoSteps
  <2>4. /\ u \in State /\ u.reg = Start /\ u.mem = StartMem /\ NicCell \in 0..NicCell /\ NicCell \in Int
        /\ base \in Int /\ Value(o) \in Int
    <3>1. NicCell \in Cells
      BY NamedCells DEF NicCell
    <3>2. u \in State /\ Fresh(u, o)
      BY <1>1, <1>5, Begins DEF Fresh
    <3>3. Value(o) \in Int
      BY <3>2, OperandWorth DEF Fresh
    <3> QED BY <1>5, <3>1, <3>3, Begins DEF NicCell
  <2>5. \A q \in Regs : a = Do(Imm(q, NicCell), u) => Changes(u, a, {q}) /\ a.reg[q] = NicCell
    BY <2>4, ImmParts
  <2>6. Changes(u, a, {"rsi"}) /\ a.reg["rsi"] = NicCell
    BY <1>1, <2>2, <2>5
  <2>7. a \in State /\ Points(a, "rsi", NicCell)
    BY <2>4, <2>6 DEF Changes, Points
  <2>8. \A q \in Regs : b = Do(Load(q, q, "none", 0), a) /\ Points(a, q, NicCell) =>
          Changes(a, b, {q}) /\ b.reg[q] = a.mem[NicCell]
    BY <2>7, LoadNamed
  <2>9. Changes(a, b, {"rsi"}) /\ b.reg["rsi"] = a.mem[NicCell]
    BY <1>1, <2>2, <2>7, <2>8
  <2>10. /\ b \in State /\ b.reg["rsi"] = base /\ b.mem = StartMem /\ b.stack = u.stack
         /\ \A q \in UserRegs \ {"rsi"} : b.reg[q] = Start[q]
    BY <1>1, <2>4, <2>6, <2>9, Names DEF Changes
  <2>11. Fresh(b, o)
    BY <1>1, <1>2, <2>10, OperandRegs DEF Fresh
  <2>12. \A q \in Regs : Leads(Eval(o, q), b, c) => Changes(b, c, Borrowed(o, q)) /\ c.reg[q] = Value(o)
    BY <2>10, <2>11, EvalIntact
  <2>13. Changes(b, c, Borrowed(o, "rdx")) /\ c.reg["rdx"] = Value(o)
    BY <1>1, <2>1, <2>12
  <2>14. c \in State /\ c.reg["rsi"] = base
    BY <1>1, <2>10, <2>13 DEF Changes, Borrowed
  <2>15. \A p, q \in Regs : e = Do(Add(p, q), c) => Changes(c, e, {p}) /\ e.reg[p] = c.reg[p] + c.reg[q]
    BY <2>14, AddParts
  <2>16. Changes(c, e, {"rsi"}) /\ e.reg["rsi"] = base + Value(o)
    BY <1>1, <2>3, <2>13, <2>14, <2>15
  <2>17. e \in State /\ e.mem = StartMem /\ e.stack = u.stack
    BY <2>10, <2>13, <2>16 DEF Changes
  <2>18. \A p \in Regs : v = Do(Load(d, p, "none", 0), e) =>
           Changes(e, v, {d}) /\ v.reg[d] = e.mem[Cell(e.reg[p])]
    BY <1>1, <2>17, LoadBase
  <2>19. Changes(e, v, {d}) /\ v.reg[d] = e.mem[Cell(e.reg["rsi"])]
    BY <1>1, <2>3, <2>18
  <2>20. Cell(e.reg["rsi"]) = Cell(base + Value(o))
    BY <2>16
  <2>21. v.mem = StartMem /\ v \in State /\ v.stack = u.stack /\ v.reg[d] = Answer(Start[d])
    BY <1>3, <2>17, <2>19, <2>20 DEF Changes
  <2>22. \A q \in UserRegs \ (Changed \cup {"rdx", "rsi"}) : v.reg[q] = Start[q]
    BY <1>1, <1>3, <2>10, <2>13, <2>16, <2>19, Names DEF Changes, Borrowed
  <2>23. Matches(v) => Effect(Start[d])
    BY <1>1, <1>2, <1>3, <2>21, PureEffect DEF Matches
  <2> QED BY <1>3, <2>21, <2>22, <2>23 DEF Served
<1>6. Plain(Body(stmt))
  BY <1>3, <1>4, PlainConcat
<1> HIDE DEF before, after, base
<1> QED BY <1>3, <1>5, <1>6, BodyServes

\* The two operands of a statement.
LEMMA TwoOperands ==
  ASSUME IsStatement(stmt), Arity[stmt.op] = {2}
  PROVE  /\ Len(stmt.arg) = 2 /\ DOMAIN stmt.arg = 1..2 /\ IsOperand(stmt.arg[1]) /\ IsOperand(stmt.arg[2])
         /\ Intact(stmt, 1) /\ Intact(stmt, 2)
         /\ IsSum(stmt.arg[1]) \/ IsSum(stmt.arg[2]) => "r12" \in Changed \cup SavedBy(stmt.op)
         /\ First(stmt) \subseteq Written(stmt, 1) /\ First(stmt) \subseteq Live(stmt, 1)
         /\ First(stmt) \cup {Targets(stmt.op)[1]} \subseteq Live(stmt, 2)
         /\ Live(stmt, 2) \subseteq Written(stmt, 2)
         /\ IsSum(stmt.arg[1]) => "r12" \in Written(stmt, 2)
<1>1. Len(stmt.arg) = 2 /\ DOMAIN stmt.arg = 1..2
  BY Args
<1>2. stmt.op \notin BlockOps \cup {"gate_cas"}
  BY DEF Arity, BlockOps
<1>3. 1 \in 1..(2 - 1) /\ 1 \in 1..2 /\ 2 \in 1..2
  OBVIOUS
<1>4. IsSum(stmt.arg[1]) \/ IsSum(stmt.arg[2]) => "r12" \in Changed \cup SavedBy(stmt.op)
  <2>1. IsSum(stmt.arg[1]) \/ IsSum(stmt.arg[2]) => \E k \in DOMAIN stmt.arg : IsSum(stmt.arg[k])
    BY <1>1, <1>3
  <2> QED BY <2>1 DEF Changed, SavedBy
<1>5. /\ First(stmt) \subseteq Written(stmt, 1) /\ First(stmt) \subseteq Live(stmt, 1)
      /\ First(stmt) \cup {Targets(stmt.op)[1]} \subseteq Live(stmt, 2)
      /\ Live(stmt, 2) \subseteq Written(stmt, 2)
      /\ IsSum(stmt.arg[1]) => "r12" \in Written(stmt, 2)
  BY <1>3 DEF Written, Live
<1> QED BY <1>1, <1>2, <1>3, <1>4, <1>5, Args

LEMMA LeadsFive ==
  ASSUME NEW a, NEW b, NEW c, NEW d, NEW e, NEW s, NEW t,
         Plain(a), Plain(b), Plain(c), Plain(d), Plain(e), Leads(a \o b \o c \o d \o e, s, t)
  PROVE  \E w, x, y, z : Leads(a, s, w) /\ Leads(b, w, x) /\ Leads(c, x, y) /\ Leads(d, y, z) /\ Leads(e, z, t)
<1>1. Plain(a \o b) /\ Plain((a \o b) \o c)
  BY PlainConcat
<1>2. PICK y, z : Leads((a \o b) \o c, s, y) /\ Leads(d, y, z) /\ Leads(e, z, t)
  BY <1>1, LeadsThree
<1>3. PICK w, x : Leads(a, s, w) /\ Leads(b, w, x) /\ Leads(c, x, y)
  BY <1>2, LeadsThree
<1> QED BY <1>2, <1>3

LEMMA CardWriteDone ==
  ASSUME IsStatement(stmt), stmt.op = "nic_write"
  PROVE  Works
<1> DEFINE o == stmt.arg[1]  p == stmt.arg[2]
           before == <<Imm("rax", NicCell), Load("rax", "rax", "none", 0)>>
           sum == <<Add("rax", "rdx")>>  put == <<Store("rax", "none", 0, "rcx")>>
           base == StartMem[NicCell]
<1>1. /\ IsOperand(o) /\ IsOperand(p) /\ "rax" \in Regs /\ "rcx" \in Regs /\ "rdx" \in Regs
      /\ "rax" \notin RegsOf(o) /\ RegsOf(p) \cap {"rax", "rdx"} = {}
      /\ IsSum(o) => "r12" \notin RegsOf(p)
      /\ IsSum(o) \/ IsSum(p) => "r12" \in Changed \cup SavedBy(stmt.op)
  <2>1. Arity[stmt.op] = {2}
    BY DEF Arity
  <2>2. First(stmt) = {"rax"} /\ Targets(stmt.op)[1] = "rdx"
    BY DEF First, Targets, BlockOps
  <2>3. "rax" \in Written(stmt, 1) /\ {"rax", "rdx"} \subseteq Written(stmt, 2)
        /\ (IsSum(o) => "r12" \in Written(stmt, 2))
    BY <2>1, <2>2, TwoOperands
  <2>4. RegsOf(o) \cap Written(stmt, 1) = {} /\ RegsOf(p) \cap Written(stmt, 2) = {}
    BY <2>1, TwoOperands DEF Intact
  <2> QED BY <2>1, <2>3, <2>4, TwoOperands, Names
<1>2. /\ Body(stmt) = before \o Eval(o, "rdx") \o sum \o Eval(p, "rcx") \o put
      /\ SavedBy(stmt.op) = {"rax", "rdx", "rcx"}
      /\ Memory = [StartMem EXCEPT ![Cell(base + Value(o))] = Value(p)]
      /\ stmt.op \notin ReturnOps
  <2>1. Body(stmt) = NicWrite(o, p)
    BY DEF Body, CpuOps, UnaryOps
  <2>2. Memory = [StartMem EXCEPT ![Cell(base + Value(o))] = Value(p)]
    BY DEF Memory, V
  <2> QED BY <2>1, <2>2, SavedSets DEF NicWrite, ReturnOps
<1>3. Plain(Eval(o, "rdx")) /\ Plain(Eval(p, "rcx")) /\ Plain(before) /\ Plain(sum) /\ Plain(put)
  <2>1. Plain(Eval(o, "rdx")) /\ Plain(Eval(p, "rcx"))
    BY <1>1, PlainEval
  <2>2. Plain(before) /\ Plain(sum) /\ Plain(put)
    BY PlainFew, AllStraight
  <2> QED BY <2>1, <2>2
<1>4. ASSUME NEW u, NEW v, Entered(u), Leads(Body(stmt), u, v)
      PROVE  Served(u, v)
  <2>1. PICK b, c, e, f : /\ Leads(before, u, b) /\ Leads(Eval(o, "rdx"), b, c) /\ Leads(sum, c, e)
                          /\ Leads(Eval(p, "rcx"), e, f) /\ Leads(put, f, v)
    <3> HIDE DEF before, sum, put
    <3> QED BY <1>2, <1>3, <1>4, LeadsFive
  <2>2. PICK a : a = Do(Imm("rax", NicCell), u) /\ b = Do(Load("rax", "rax", "none", 0), a)
    BY <2>1, TwoSteps
  <2>3. e = Do(Add("rax", "rdx"), c) /\ v = Do(Store("rax", "none", 0, "rcx"), f)
    BY <2>1, LeadsOne
  <2>4. u \in State /\ u.reg = Start /\ u.mem = StartMem /\ NicCell \in 0..NicCell /\ NicCell \in Int
    BY <1>4, Begins DEF NicCell
  <2>5. \A q \in Regs : a = Do(Imm(q, NicCell), u) => Changes(u, a, {q}) /\ a.reg[q] = NicCell
    BY <2>4, ImmParts
  <2>6. Changes(u, a, {"rax"}) /\ a.reg["rax"] = NicCell
    BY <1>1, <2>2, <2>5
  <2>7. a \in State /\ Points(a, "rax", NicCell)
    BY <2>4, <2>6 DEF Changes, Points
  <2>8. \A q \in Regs : b = Do(Load(q, q, "none", 0), a) /\ Points(a, q, NicCell) =>
          Changes(a, b, {q}) /\ b.reg[q] = a.mem[NicCell]
    BY <2>7, LoadNamed
  <2>9. Changes(a, b, {"rax"}) /\ b.reg["rax"] = a.mem[NicCell]
    BY <1>1, <2>2, <2>7, <2>8
  <2>10. /\ b \in State /\ b.reg["rax"] = base /\ b.mem = StartMem /\ b.stack = u.stack
         /\ \A q \in UserRegs \ {"rax"} : b.reg[q] = Start[q]
    BY <1>1, <2>4, <2>6, <2>9, Names DEF Changes
  <2>11. Fresh(b, o)
    BY <1>1, <2>10, OperandRegs DEF Fresh
  <2>12. \A q \in Regs : Leads(Eval(o, q), b, c) => Changes(b, c, Borrowed(o, q)) /\ c.reg[q] = Value(o)
    BY <2>10, <2>11, EvalIntact
  <2>13. Changes(b, c, Borrowed(o, "rdx")) /\ c.reg["rdx"] = Value(o)
    BY <1>1, <2>1, <2>12
  <2>14. c \in State /\ c.reg["rax"] = base
    BY <1>1, <2>10, <2>13 DEF Changes, Borrowed
  <2>15. \A r, q \in Regs : e = Do(Add(r, q), c) => Changes(c, e, {r}) /\ e.reg[r] = c.reg[r] + c.reg[q]
    BY <2>14, AddParts
  <2>16. Changes(c, e, {"rax"}) /\ e.reg["rax"] = base + Value(o)
    BY <1>1, <2>3, <2>13, <2>14, <2>15
  <2>17. /\ e \in State /\ e.mem = StartMem /\ e.stack = u.stack
         /\ \A q \in UserRegs : q \in {"rax", "rdx"} \/ (IsSum(o) /\ q = "r12") \/ e.reg[q] = Start[q]
    BY <2>10, <2>13, <2>16, Names DEF Changes, Borrowed
  <2>18. Fresh(e, p)
    BY <1>1, <2>17, OperandRegs DEF Fresh
  <2>19. \A q \in Regs : Leads(Eval(p, q), e, f) => Changes(e, f, Borrowed(p, q)) /\ f.reg[q] = Value(p)
    BY <2>17, <2>18, EvalIntact
  <2>20. Changes(e, f, Borrowed(p, "rcx")) /\ f.reg["rcx"] = Value(p)
    BY <1>1, <2>1, <2>19
  <2>21. f \in State /\ f.reg["rax"] = base + Value(o) /\ f.mem = StartMem /\ f.stack = u.stack
    BY <1>1, <2>16, <2>17, <2>20 DEF Changes, Borrowed
  <2>22. \A r, q \in Regs : v = Do(Store(r, "none", 0, q), f) => Writes(f, v, Cell(f.reg[r]), f.reg[q])
    BY <2>21, StoreBase
  <2>23. Writes(f, v, Cell(base + Value(o)), Value(p))
    BY <1>1, <2>3, <2>20, <2>21, <2>22
  <2>24. v.mem = Memory /\ v \in State /\ v.stack = u.stack
    BY <1>2, <2>21, <2>23 DEF Writes
  <2>25. \A q \in UserRegs \ (Changed \cup {"rax", "rdx", "rcx"}) : v.reg[q] = Start[q]
    BY <1>1, <1>2, <2>17, <2>20, <2>23, Names DEF Changes, Borrowed, Writes
  <2> QED BY <1>2, <2>24, <2>25, QuietEffect DEF Served
<1>5. Plain(Body(stmt))
  BY <1>2, <1>3, PlainConcat
<1> HIDE DEF before, base, sum, put
<1> QED BY <1>2, <1>4, <1>5, BodyServes

\* A base that is not a sum, in its register.
LEMMA BaseLeads ==
  ASSUME NEW s, NEW o, NEW t, s \in State, Fresh(s, o), ~IsSum(o), Leads(BaseLoad(o), s, t)
  PROVE  Changes(s, t, {"r11"}) /\ t.reg[BaseReg(o)] = Value(o) /\ BaseReg(o) \in Regs
<1>1. IsOperand(o) /\ "r11" \in Regs
  BY Names DEF Fresh
<1>2. CASE o.kind = "reg"
  <2>1. t = s
    BY <1>2, LeadsNone DEF BaseLoad
  <2>2. o.a \in RegsOf(o) /\ o.a \in Regs /\ BaseReg(o) = o.a /\ Value(o) = Start[o.a]
    BY <1>1, <1>2, OperandRegs DEF BaseReg, Value
  <2>3. s.reg[o.a] = Start[o.a]
    BY <2>2 DEF Fresh
  <2> QED BY <2>1, <2>2, <2>3 DEF Changes
<1>3. CASE o.kind = "num"
  <2>1. t = Do(Imm("r11", o.n), s)
    BY <1>3, LeadsOne DEF BaseLoad
  <2>2. o.n \in Int /\ Value(o) = o.n /\ BaseReg(o) = "r11"
    BY <1>1, <1>3, OperandRegs DEF BaseReg, Value
  <2>3. \A r \in Regs : t = Do(Imm(r, o.n), s) => Changes(s, t, {r}) /\ t.reg[r] = o.n
    <3>1. \A r \in Regs : \A n : n \in Int /\ t = Do(Imm(r, n), s) => Changes(s, t, {r}) /\ t.reg[r] = n
      BY ImmParts
    <3> QED BY <2>2, <3>1
  <2> QED BY <1>1, <2>1, <2>2, <2>3
<1> QED BY <1>1, <1>2, <1>3, OperandRegs DEF IsSum

LEMMA PlainBase ==
  ASSUME NEW o
  PROVE  Plain(BaseLoad(o))
BY PlainFew, AllStraight DEF BaseLoad

LEMMA PlaceWorth ==
  ASSUME NEW s, NEW i, NEW b, s \in State, Fresh(s, i), ~IsSum(i), b \in Regs
  PROVE  /\ IndexReg(i) \in Regs \cup {"none"} /\ i.n + 1 \in Int
         /\ Place(s, b, IndexReg(i), i.n + 1) = Cell(s.reg[b] + Value(i) + 1)
<1>1. IsOperand(i) /\ s.reg[b] \in Int
  BY StateParts DEF Fresh
<1>2. CASE i.kind = "reg"
  <2>1. i.a \in RegsOf(i) /\ i.a \in Regs /\ IndexReg(i) = i.a /\ Value(i) = Start[i.a] /\ i.n = 0 /\ i.a # "none"
    BY <1>1, <1>2, OperandRegs DEF IndexReg, Value, RegsOf
  <2>2. s.reg[i.a] = Start[i.a] /\ s.reg[i.a] \in Int
    BY <2>1, StateParts DEF Fresh
  <2>3. Place(s, b, IndexReg(i), i.n + 1) = Cell(s.reg[b] + s.reg[i.a] + (0 + 1))
    BY <2>1 DEF Place, IndexIn
  <2> QED BY <1>1, <2>1, <2>2, <2>3
<1>3. CASE i.kind = "num"
  <2>1. i.n \in Int /\ Value(i) = i.n /\ IndexReg(i) = "none"
    BY <1>1, <1>3, OperandRegs DEF IndexReg, Value
  <2>2. Place(s, b, IndexReg(i), i.n + 1) = Cell(s.reg[b] + 0 + (i.n + 1))
    BY <2>1 DEF Place, IndexIn
  <2>3. s.reg[b] + 0 + (i.n + 1) = s.reg[b] + i.n + 1
    BY <1>1, <2>1
  <2> QED BY <2>1, <2>2, <2>3
<1> QED BY <1>1, <1>2, <1>3, OperandRegs DEF IsSum

LEMMA LoadDone ==
  ASSUME IsStatement(stmt), stmt.op = "mem_load"
  PROVE  Works
<1> DEFINE d == stmt.dest  o == stmt.arg[1]  p == stmt.arg[2]  y == p.n + 1
           get == <<Load(d, BaseReg(o), IndexReg(p), y)>>
<1>1. /\ IsOperand(o) /\ IsOperand(p) /\ ~IsSum(o) /\ ~IsSum(p) /\ d \in Regs /\ d \in UserRegs
      /\ "r11" \in Regs /\ stmt.op \in ResultOps /\ d \notin SavedBy(stmt.op)
  <2>1. Arity[stmt.op] = {2} /\ stmt.op \in ResultOps
    BY DEF Arity, ResultOps
  <2>2. ~IsSum(o) /\ ~IsSum(p)
    BY <2>1, TwoOperands DEF IsStatement, WellFormed
  <2> QED BY <2>1, <2>2, TwoOperands, Args, Names
<1>2. /\ Body(stmt) = BaseLoad(o) \o get
      /\ SavedBy(stmt.op) = {} /\ Memory = StartMem
      /\ stmt.op \notin ReturnOps /\ stmt.op \in PureOps /\ d \in Changed
      /\ Answer(Start[d]) = StartMem[Cell(Value(o) + Value(p) + 1)]
  <2>1. Body(stmt) = MemLoad(d, o, p)
    BY DEF Body, CpuOps, UnaryOps
  <2>2. Memory = StartMem
    BY DEF Memory
  <2>3. Answer(Start[d]) = StartMem[Cell(Value(o) + Value(p) + 1)]
    BY DEF Answer, ReturnOps, V
  <2>4. d \in Changed
    BY <1>1 DEF Changed
  <2> QED BY <2>1, <2>2, <2>3, <2>4, SavedSets DEF MemLoad, ReturnOps, PureOps
<1>3. Plain(BaseLoad(o)) /\ Plain(get)
  BY PlainBase, PlainFew, AllStraight
<1>4. ASSUME NEW u, NEW v, Entered(u), Leads(Body(stmt), u, v)
      PROVE  Served(u, v)
  <2>1. PICK a : Leads(BaseLoad(o), u, a) /\ Leads(get, a, v)
    BY <1>2, <1>3, <1>4, PlainCode, LeadsThrough
  <2>2. u \in State /\ u.reg = Start /\ u.mem = StartMem /\ Fresh(u, o)
    BY <1>1, <1>4, Begins DEF Fresh
  <2>3. Changes(u, a, {"r11"}) /\ a.reg[BaseReg(o)] = Value(o) /\ BaseReg(o) \in Regs
    BY <1>1, <2>1, <2>2, BaseLeads
  <2>4. a \in State /\ Fresh(a, p) /\ a.mem = StartMem
    BY <1>1, <2>2, <2>3, OperandRegs, Names DEF Changes, Fresh
  <2>5. /\ IndexReg(p) \in Regs \cup {"none"} /\ y \in Int
        /\ Place(a, BaseReg(o), IndexReg(p), y) = Cell(Value(o) + Value(p) + 1)
    BY <1>1, <2>3, <2>4, PlaceWorth
  <2>6. v = Do(Load(d, BaseReg(o), IndexReg(p), y), a)
    BY <2>1, LeadsOne
  <2> HIDE DEF y
  <2>7. Changes(a, v, {d}) /\ v.reg[d] = a.mem[Place(a, BaseReg(o), IndexReg(p), y)]
    <3>1. a \in State /\ d \in Regs /\ BaseReg(o) \in Regs
      BY <1>1, <2>3, <2>4
    <3>2. IsPlace(BaseReg(o), IndexReg(p), y)
      BY <2>3, <2>5 DEF IsPlace
    <3> QED BY <2>6, <3>1, <3>2, LoadAnywhere
  <2>8. v.mem = StartMem /\ v \in State /\ v.stack = u.stack /\ v.reg[d] = Answer(Start[d])
    BY <1>2, <2>3, <2>4, <2>5, <2>7 DEF Changes
  <2>9. \A q \in UserRegs \ {d} : v.reg[q] = Start[q]
    BY <2>2, <2>3, <2>7, Names DEF Changes
  <2>10. Matches(v) => Effect(Start[d])
    BY <1>1, <1>2, <2>8, PureEffect DEF Matches
  <2> QED BY <1>2, <2>8, <2>9, <2>10 DEF Served
<1>5. Plain(Body(stmt))
  BY <1>2, <1>3, PlainConcat
<1> HIDE DEF get
<1> QED BY <1>2, <1>4, <1>5, BodyServes

LEMMA StoreDone ==
  ASSUME IsStatement(stmt), stmt.op = "mem_store"
  PROVE  Works
<1> DEFINE x == stmt.arg[1]  o == stmt.arg[2]  p == stmt.arg[3]  y == p.n + 1
           put == <<Store(BaseReg(o), IndexReg(p), y, "r12")>>
<1>1. /\ IsOperand(x) /\ IsOperand(o) /\ IsOperand(p) /\ ~IsSum(o) /\ ~IsSum(p)
      /\ "r11" \in Regs /\ "r12" \in Regs /\ "r12" \notin RegsOf(o) /\ "r12" \notin RegsOf(p)
  <2>1. Arity[stmt.op] = {3} /\ stmt.op \notin BlockOps \cup {"gate_cas"}
    BY DEF Arity, BlockOps
  <2>2. Len(stmt.arg) = 3 /\ IsOperand(x) /\ IsOperand(o) /\ IsOperand(p) /\ Intact(stmt, 2) /\ Intact(stmt, 3)
    BY <2>1, Args
  <2>3. ~IsSum(o) /\ ~IsSum(p)
    BY <2>2 DEF IsStatement, WellFormed
  <2>4. Targets(stmt.op) = <<"r12", "r11", "r11">>
    BY DEF Targets, BlockOps
  <2>5. "r12" \in Written(stmt, 2) /\ "r12" \in Written(stmt, 3)
    BY <2>4 DEF Written, Live
  <2> QED BY <2>2, <2>3, <2>5, Names DEF Intact
<1>2. /\ Body(stmt) = Eval(x, "r12") \o BaseLoad(o) \o put
      /\ SavedBy(stmt.op) = {"r12"} /\ Memory = [StartMem EXCEPT ![Cell(Value(o) + Value(p) + 1)] = Value(x)]
      /\ stmt.op \notin ReturnOps
  <2>1. Body(stmt) = MemStore(x, o, p)
    BY DEF Body, CpuOps, UnaryOps
  <2>2. Memory = [StartMem EXCEPT ![Cell(Value(o) + Value(p) + 1)] = Value(x)]
    BY DEF Memory, V
  <2> QED BY <2>1, <2>2, SavedSets DEF MemStore, ReturnOps
<1>3. Plain(Eval(x, "r12")) /\ Plain(BaseLoad(o)) /\ Plain(put)
  <2>1. Plain(Eval(x, "r12")) /\ Plain(BaseLoad(o))
    BY <1>1, PlainBase, PlainEval
  <2>2. Plain(put)
    BY PlainFew, AllStraight
  <2> QED BY <2>1, <2>2
<1>4. ASSUME NEW u, NEW v, Entered(u), Leads(Body(stmt), u, v)
      PROVE  Served(u, v)
  <2>1. PICK a, b : Leads(Eval(x, "r12"), u, a) /\ Leads(BaseLoad(o), a, b) /\ Leads(put, b, v)
    <3> HIDE DEF put
    <3> QED BY <1>2, <1>3, <1>4, LeadsThree
  <2>2. u \in State /\ u.reg = Start /\ u.mem = StartMem /\ Fresh(u, x)
    BY <1>1, <1>4, Begins DEF Fresh
  <2>3. \A q \in Regs : Leads(Eval(x, q), u, a) => Changes(u, a, Borrowed(x, q)) /\ a.reg[q] = Value(x)
    BY <2>2, EvalIntact
  <2>4. Changes(u, a, Borrowed(x, "r12")) /\ a.reg["r12"] = Value(x)
    BY <1>1, <2>1, <2>3
  <2>5. a \in State /\ Fresh(a, o)
    BY <1>1, <2>2, <2>4, OperandRegs, Names DEF Changes, Fresh, Borrowed
  <2>6. Changes(a, b, {"r11"}) /\ b.reg[BaseReg(o)] = Value(o) /\ BaseReg(o) \in Regs
    BY <1>1, <2>1, <2>5, BaseLeads
  <2>7. b \in State /\ Fresh(b, p) /\ b.mem = StartMem /\ b.reg["r12"] = Value(x) /\ b.stack = u.stack
    BY <1>1, <2>2, <2>4, <2>6, OperandRegs, Names DEF Changes, Fresh, Borrowed
  <2>8. /\ IndexReg(p) \in Regs \cup {"none"} /\ y \in Int
        /\ Place(b, BaseReg(o), IndexReg(p), y) = Cell(Value(o) + Value(p) + 1)
    BY <1>1, <2>6, <2>7, PlaceWorth
  <2>9. v = Do(Store(BaseReg(o), IndexReg(p), y, "r12"), b)
    BY <2>1, LeadsOne
  <2> HIDE DEF y
  <2>10. Writes(b, v, Place(b, BaseReg(o), IndexReg(p), y), b.reg["r12"])
    <3>1. \A r, c \in Regs, z \in Regs \cup {"none"} : \A n : n \in Int /\ v = Do(Store(c, z, n, r), b) =>
            Writes(b, v, Place(b, c, z, n), b.reg[r])
      BY <2>7, StoreParts
    <3> QED BY <1>1, <2>6, <2>8, <2>9, <3>1
  <2>11. v.mem = Memory /\ v \in State /\ v.stack = u.stack
    BY <1>2, <2>7, <2>8, <2>10 DEF Writes
  <2>12. \A q \in UserRegs \ {"r12"} : v.reg[q] = Start[q]
    BY <2>2, <2>4, <2>6, <2>10, Names DEF Changes, Writes, Borrowed
  <2> QED BY <1>2, <2>11, <2>12, QuietEffect DEF Served
<1>5. Plain(Body(stmt))
  BY <1>2, <1>3, PlainConcat
<1> HIDE DEF put
<1> QED BY <1>2, <1>4, <1>5, BodyServes

LEMMA LeaDone ==
  ASSUME IsStatement(stmt), stmt.op = "cpu_lea"
  PROVE  Works
<1> DEFINE d == stmt.dest  o == stmt.arg[1]  p == stmt.arg[2]
<1>1. /\ Len(stmt.arg) \in {1, 2} /\ IsOperand(o) /\ ~IsSum(o) /\ d \in Regs /\ d \in UserRegs
      /\ "r12" \in Regs /\ stmt.op \in ResultOps /\ DOMAIN stmt.arg = 1..Len(stmt.arg)
  <2>1. Arity[stmt.op] = {1, 2} /\ stmt.op \in ResultOps
    BY DEF Arity, ResultOps
  <2>2. ~IsSum(o)
    BY DEF IsStatement, WellFormed
  <2> QED BY <2>1, <2>2, Args, Names
<1>2. Len(stmt.arg) = 2 => IsOperand(p) /\ p.kind = "reg" /\ "r12" \notin RegsOf(p)
  <2> SUFFICES ASSUME Len(stmt.arg) = 2
               PROVE  IsOperand(p) /\ p.kind = "reg" /\ "r12" \notin RegsOf(p)
    OBVIOUS
  <2>1. 2 \in RegisterArgs(stmt.op) /\ 2 \in 1..2 /\ 1 \in 1..(2 - 1)
    BY DEF RegisterArgs, BlockOps
  <2>2. p.kind = "reg"
    BY <1>1, <2>1 DEF IsStatement, WellFormed
  <2>3. Targets(stmt.op)[1] = "r12"
    BY DEF Targets, BlockOps
  <2>4. "r12" \in Written(stmt, 2)
    BY <2>1, <2>3 DEF Written, Live
  <2>5. stmt.op \notin BlockOps \cup {"gate_cas"}
    BY DEF BlockOps
  <2>6. IsOperand(p) /\ Intact(stmt, 2)
    BY <2>1, <2>5, Args
  <2> QED BY <2>2, <2>4, <2>6 DEF Intact
<1>3. /\ Body(stmt) = CpuLea(d, stmt.arg)
      /\ SavedBy(stmt.op) = {} /\ Memory = StartMem
      /\ stmt.op \notin ReturnOps /\ stmt.op \in PureOps /\ {d, "r12"} \subseteq Changed
      /\ Answer(Start[d]) = Value(o) + (IF Len(stmt.arg) = 2 THEN Value(p) + 1 ELSE 0)
  <2>1. Body(stmt) = CpuLea(d, stmt.arg)
    BY DEF Body, CpuOps, UnaryOps
  <2>2. Memory = StartMem
    BY DEF Memory
  <2>3. Answer(Start[d]) = Value(o) + (IF Len(stmt.arg) = 2 THEN Value(p) + 1 ELSE 0)
    BY DEF Answer, ReturnOps, V
  <2>4. d \in Changed
    BY <1>1 DEF Changed
  <2>5. "r12" \in Changed
    BY DEF Changed, SystemOps, ReturnOps
  <2> QED BY <2>1, <2>2, <2>3, <2>4, <2>5, SavedSets DEF ReturnOps, PureOps
<1>4. Plain(Body(stmt))
  <2>1. Plain(Eval(o, d))
    BY <1>1, PlainEval
  <2>2. Plain(<<Lea(d, o.a, p.a, 1)>>) /\ Plain(<<Imm("r12", o.n), Lea(d, "r12", p.a, 1)>>)
    BY PlainFew, AllStraight
  <2> QED BY <1>3, <2>1, <2>2 DEF CpuLea
<1>5. ASSUME NEW u, NEW v, Entered(u), Leads(Body(stmt), u, v)
      PROVE  Served(u, v)
  <2>1. /\ u \in State /\ u.reg = Start /\ u.mem = StartMem /\ Fresh(u, o) /\ (Len(stmt.arg) = 2 => Fresh(u, p))
        /\ \A r \in Regs : Start[r] \in Int
    BY <1>1, <1>2, <1>5, Begins DEF Fresh
  <2>2. Changes(u, v, {d, "r12"}) /\ v.reg[d] = Answer(Start[d])
    <3>1. CASE Len(stmt.arg) = 1
      <4>1. Leads(Eval(o, d), u, v)
        BY <1>3, <1>5, <3>1 DEF CpuLea
      <4>2. Changes(u, v, Borrowed(o, d)) /\ v.reg[d] = Value(o) /\ Value(o) \in Int
        BY <1>1, <2>1, <4>1, EvalIntact
      <4> QED BY <1>1, <1>3, <3>1, <4>2 DEF Changes, Borrowed
    <3>2. CASE Len(stmt.arg) = 2
      <4>1. /\ p.a \in Regs /\ Value(p) = Start[p.a] /\ p.a # "r12" /\ Start[p.a] \in Int
        BY <1>2, <2>1, <3>2, OperandRegs DEF Value
      <4>2. CASE o.kind = "reg"
        <5>1. v = Do(Lea(d, o.a, p.a, 1), u)
          BY <1>3, <1>5, <3>2, <4>2, LeadsOne DEF CpuLea
        <5>2. o.a \in Regs /\ Value(o) = Start[o.a] /\ Start[o.a] \in Int
          BY <1>1, <2>1, <4>2, OperandRegs DEF Value
        <5>3. Changes(u, v, {d}) /\ v.reg[d] = Start[o.a] + Start[p.a] + 1
          <6>1. IsPlace(o.a, p.a, 1) /\ u \in State /\ d \in Regs /\ p.a \in Regs
            BY <1>1, <2>1, <4>1, <5>2 DEF IsPlace
          <6>2. Changes(u, v, {d}) /\ Sums(u, v, d, o.a, p.a, 1)
            BY <5>1, <6>1, LeaParts
          <6> QED BY <2>1, <6>2 DEF Sums
        <5> QED BY <1>3, <3>2, <4>1, <5>2, <5>3 DEF Changes
      <4>3. CASE o.kind = "num"
        <5>1. PICK a : a = Do(Imm("r12", o.n), u) /\ v = Do(Lea(d, "r12", p.a, 1), a)
          BY <1>3, <1>5, <3>2, <4>3, TwoSteps DEF CpuLea
        <5>2. o.n \in Int /\ Value(o) = o.n
          BY <1>1, <4>3, OperandRegs DEF Value
        <5>3. Changes(u, a, {"r12"}) /\ a.reg["r12"] = o.n
          <6>1. \A r \in Regs : \A n : n \in Int /\ a = Do(Imm(r, n), u) => Changes(u, a, {r}) /\ a.reg[r] = n
            BY <2>1, ImmParts
          <6> QED BY <1>1, <5>1, <5>2, <6>1
        <5>4. a \in State /\ a.reg[p.a] = Start[p.a]
          BY <2>1, <4>1, <5>3 DEF Changes
        <5>5. \A b \in Regs : v = Do(Lea(d, b, p.a, 1), a) => Changes(a, v, {d}) /\ v.reg[d] = a.reg[b] + a.reg[p.a] + 1
          <6> SUFFICES ASSUME NEW b \in Regs, v = Do(Lea(d, b, p.a, 1), a)
                       PROVE  Changes(a, v, {d}) /\ v.reg[d] = a.reg[b] + a.reg[p.a] + 1
            OBVIOUS
          <6>1. IsPlace(b, p.a, 1)
            BY <4>1 DEF IsPlace
          <6>2. Changes(a, v, {d}) /\ Sums(a, v, d, b, p.a, 1)
            BY <1>1, <4>1, <5>4, <6>1, LeaParts
          <6> QED BY <6>2 DEF Sums
        <5>6. Changes(a, v, {d}) /\ v.reg[d] = o.n + Start[p.a] + 1
          BY <1>1, <5>1, <5>3, <5>4, <5>5
        <5>7. Changes(u, v, {d, "r12"})
          BY <5>3, <5>6 DEF Changes
        <5> QED BY <1>3, <3>2, <4>1, <5>2, <5>6, <5>7
      <4> QED BY <1>1, <4>2, <4>3, OperandRegs DEF IsSum
    <3> QED BY <1>1, <3>1, <3>2
  <2>3. v.mem = StartMem /\ v \in State /\ v.stack = u.stack
    BY <2>1, <2>2 DEF Changes
  <2>4. \A q \in UserRegs \ {d, "r12"} : v.reg[q] = Start[q]
    BY <2>1, <2>2, Names DEF Changes
  <2>5. Matches(v) => Effect(Start[d])
    BY <1>1, <1>3, <2>2, PureEffect DEF Matches
  <2> QED BY <1>3, <2>3, <2>4, <2>5 DEF Served
<1> QED BY <1>3, <1>4, <1>5, BodyServes

\* Through SCRATCH.
LEMMA PlainVia ==
  ASSUME NEW o, IsOperand(o), NEW d
  PROVE  Plain(Via(o, d))
<1>1. Plain(<<Mov(d, Temp)>>)
  BY PlainFew, AllStraight
<1> QED BY <1>1, PlainEval, PlainConcat DEF Via

LEMMA ViaIntact ==
  ASSUME NEW w, NEW t, NEW o, NEW d, w \in State, Fresh(w, o), d \in Regs, Leads(Via(o, d), w, t)
  PROVE  Changes(w, t, Borrowed(o, Temp) \cup {d}) /\ t.reg[d] = Value(o) /\ Value(o) \in Int
<1>1. Temp \in Regs /\ IsOperand(o)
  BY Names DEF Fresh
<1>2. Plain(Eval(o, Temp)) /\ Plain(<<Mov(d, Temp)>>)
  BY <1>1, PlainEval, PlainFew, AllStraight
<1>3. PICK a : Leads(Eval(o, Temp), w, a) /\ Leads(<<Mov(d, Temp)>>, a, t)
  BY <1>2, PlainCode, LeadsThrough DEF Via
<1>4. Changes(w, a, Borrowed(o, Temp)) /\ a.reg[Temp] = Value(o) /\ Value(o) \in Int
  BY <1>1, <1>3, EvalIntact
<1>5. a \in State /\ t = Do(Mov(d, Temp), a)
  BY <1>3, <1>4, LeadsOne DEF Changes
<1>6. Changes(a, t, {d}) /\ t.reg[d] = Value(o)
  BY <1>1, <1>4, <1>5, MovParts
<1> QED BY <1>4, <1>6 DEF Changes

LEMMA CmpParts ==
  ASSUME NEW s \in State, NEW d \in Regs, NEW r \in Regs, NEW t, t = Do(Cmp(d, r), s)
  PROVE  Changes(s, t, {}) /\ t.zf = (s.reg[d] = s.reg[r])
<1>1. t = WithFlag(s, s.reg[d] = s.reg[r])
  BY DoEach
<1>2. \A z \in BOOLEAN : Changes(s, WithFlag(s, z), {}) /\ WithFlag(s, z).zf = z
  BY FlagParts DEF Changes
<1> DEFINE z == s.reg[d] = s.reg[r]
<1>3. z \in BOOLEAN /\ t = WithFlag(s, z)
  BY <1>1
<1> HIDE DEF z
<1>4. Changes(s, t, {}) /\ t.zf = z
  BY <1>2, <1>3
<1> QED BY <1>4 DEF z

LEMMA LeadsFour ==
  ASSUME NEW a, NEW b, NEW c, NEW d, NEW s, NEW t, Plain(a), Plain(b), Plain(c), Plain(d),
         Leads(a \o b \o c \o d, s, t)
  PROVE  \E x, y, z : Leads(a, s, x) /\ Leads(b, x, y) /\ Leads(c, y, z) /\ Leads(d, z, t)
<1>1. Plain(a \o b)
  BY PlainConcat
<1>2. PICK y, z : Leads(a \o b, s, y) /\ Leads(c, y, z) /\ Leads(d, z, t)
  BY <1>1, LeadsThree
<1>3. PICK x : Leads(a, s, x) /\ Leads(b, x, y)
  BY <1>2, PlainCode, LeadsThrough
<1> QED BY <1>2, <1>3

LEMMA CmpDone ==
  ASSUME IsStatement(stmt), stmt.op = "cmp"
  PROVE  Works
<1> DEFINE x == stmt.arg[1]  y == stmt.arg[2]
           keep == <<Push("r11")>>  test == <<Pop("r11"), Cmp("r11", Temp)>>
<1>1. /\ IsOperand(x) /\ IsOperand(y) /\ "r11" \in Regs /\ Temp \in Regs
      /\ IsSum(x) => "r12" \notin RegsOf(y)
      /\ IsSum(x) \/ IsSum(y) => "r12" \in Changed \cup SavedBy(stmt.op)
  <2>1. Arity[stmt.op] = {2}
    BY DEF Arity
  <2>2. RegsOf(y) \cap Written(stmt, 2) = {} /\ (IsSum(x) => "r12" \in Written(stmt, 2))
    BY <2>1, TwoOperands DEF Intact
  <2> QED BY <2>1, <2>2, TwoOperands, Names
<1>2. /\ Body(stmt) = Via(x, "r11") \o keep \o Eval(y, Temp) \o test
      /\ SavedBy(stmt.op) = {"r11"} /\ Memory = StartMem
      /\ stmt.op \notin ReturnOps
      /\ zf = (Value(x) = Value(y)) => Effect(Start[stmt.dest])
  <2>1. Body(stmt) = Compared(x, y)
    BY DEF Body, CpuOps, UnaryOps
  <2>2. Memory = StartMem
    BY DEF Memory
  <2>3. zf = (Value(x) = Value(y)) => Effect(Start[stmt.dest])
    BY DEF Effect, V, ResultOps, CpuOps, UnaryOps, SystemOps, ReturnOps
  <2> QED BY <2>1, <2>2, <2>3, SavedSets DEF Compared, ReturnOps
<1>3. Plain(Via(x, "r11")) /\ Plain(Eval(y, Temp)) /\ Plain(keep) /\ Plain(test)
  <2>1. Plain(Via(x, "r11")) /\ Plain(Eval(y, Temp))
    BY <1>1, PlainEval, PlainVia
  <2>2. Plain(keep) /\ Plain(test)
    BY PlainFew, AllStraight
  <2> QED BY <2>1, <2>2
<1>4. ASSUME NEW u, NEW v, Entered(u), Leads(Body(stmt), u, v)
      PROVE  Served(u, v)
  <2>1. PICK a, b, c : /\ Leads(Via(x, "r11"), u, a) /\ Leads(keep, a, b) /\ Leads(Eval(y, Temp), b, c)
                       /\ Leads(test, c, v)
    <3> HIDE DEF keep, test
    <3> QED BY <1>2, <1>3, <1>4, LeadsFour
  <2>2. b = Do(Push("r11"), a)
    BY <2>1, LeadsOne
  <2>3. PICK d : d = Do(Pop("r11"), c) /\ v = Do(Cmp("r11", Temp), d)
    BY <2>1, TwoSteps
  <2>4. /\ u \in State /\ u.reg = Start /\ u.mem = StartMem /\ u.stack \in Seq(Int) /\ Fresh(u, x)
    BY <1>1, <1>4, Begins DEF Fresh
  <2>5. \A q \in Regs : Leads(Via(x, q), u, a) =>
          Changes(u, a, Borrowed(x, Temp) \cup {q}) /\ a.reg[q] = Value(x) /\ Value(x) \in Int
    BY <2>4, ViaIntact
  <2>6. Changes(u, a, Borrowed(x, Temp) \cup {"r11"}) /\ a.reg["r11"] = Value(x) /\ Value(x) \in Int
    BY <1>1, <2>1, <2>5
  <2>7. a \in State /\ a.stack = u.stack /\ a.mem = StartMem
    BY <2>4, <2>6 DEF Changes
  <2>8. \A q \in Regs : b = Do(Push(q), a) =>
          b \in State /\ b.stack = Append(a.stack, a.reg[q]) /\ b.reg = a.reg /\ b.mem = a.mem
    BY <2>7, PushParts
  <2>9. b \in State /\ b.stack = Append(u.stack, Value(x)) /\ b.reg = a.reg /\ b.mem = StartMem
    BY <1>1, <2>2, <2>6, <2>7, <2>8
  <2>10. \A q \in UserRegs : (IsSum(x) /\ q = "r12") \/ b.reg[q] = Start[q]
    BY <1>1, <2>4, <2>6, <2>9, Names DEF Changes, Borrowed
  <2>11. Fresh(b, y)
    BY <1>1, <2>10, OperandRegs DEF Fresh
  <2>12. Changes(b, c, Borrowed(y, Temp)) /\ c.reg[Temp] = Value(y)
    BY <1>1, <2>1, <2>9, <2>11, EvalIntact
  <2>13. c \in State /\ Topped(c, u.stack, Value(x)) /\ c.mem = StartMem
    BY <2>4, <2>6, <2>9, <2>12 DEF Changes, Topped
  <2>14. \A q \in Regs : \A k, w : d = Do(Pop(q), c) /\ Topped(c, k, w) => Popped(c, d, q, k, w)
    BY <2>13, PopParts
  <2>15. Popped(c, d, "r11", u.stack, Value(x))
    BY <1>1, <2>3, <2>13, <2>14
  <2>16. /\ d \in State /\ d.stack = u.stack /\ d.mem = StartMem /\ d.reg["r11"] = Value(x)
         /\ d.reg[Temp] = Value(y)
         /\ \A q \in UserRegs : (IsSum(x) /\ q = "r12") \/ (IsSum(y) /\ q = "r12") \/ d.reg[q] = Start[q]
    BY <1>1, <2>10, <2>12, <2>13, <2>15, Names DEF Changes, Borrowed, Popped, Goes
  <2>17. \A r, q \in Regs : v = Do(Cmp(r, q), d) => Changes(d, v, {}) /\ v.zf = (d.reg[r] = d.reg[q])
    BY <2>16, CmpParts
  <2>18. Changes(d, v, {}) /\ v.zf = (d.reg["r11"] = d.reg[Temp])
    BY <1>1, <2>3, <2>17
  <2>19. v.mem = StartMem /\ v \in State /\ v.stack = u.stack
    BY <2>16, <2>18 DEF Changes
  <2>20. \A q \in UserRegs \ (Changed \cup SavedBy(stmt.op)) : v.reg[q] = Start[q]
    BY <1>1, <2>16, <2>18, Names DEF Changes
  <2>21. Matches(v) => Effect(Start[stmt.dest])
    BY <1>2, <2>16, <2>18 DEF Matches
  <2> QED BY <1>2, <2>19, <2>20, <2>21 DEF Served
<1>5. Plain(Body(stmt))
  BY <1>2, <1>3, PlainConcat
<1> HIDE DEF keep, test
<1> QED BY <1>2, <1>4, <1>5, BodyServes

-----------------------------------------------------------------------------
(* Several operands into registers.                                        *)

LEMMA Flattened ==
  ASSUME NEW q, Len(q) \in 1..4
  PROVE  /\ Len(q) = 1 => FlattenSeq(q) = q[1]
         /\ Len(q) = 3 => FlattenSeq(q) = q[1] \o q[2] \o q[3]
         /\ Len(q) = 4 => FlattenSeq(q) = q[1] \o q[2] \o q[3] \o q[4]
<1> DEFINE F(f) == [i \in 1..Len(q) |-> IF i = 1 THEN q[i] ELSE f[i - 1] \o q[i]]
           g == [i \in 1..Len(q) |->
                   IF i = 1 THEN q[1] ELSE IF i = 2 THEN q[1] \o q[2]
                   ELSE IF i = 3 THEN q[1] \o q[2] \o q[3] ELSE q[1] \o q[2] \o q[3] \o q[4]]
           flatten == CHOOSE f : f = F(f)
<1>1. g = F(g)
  <2>1. ASSUME NEW i \in 1..Len(q) PROVE g[i] = IF i = 1 THEN q[i] ELSE g[i - 1] \o q[i]
    <3>1. i \in {1, 2, 3, 4} /\ Len(q) \in {1, 2, 3, 4}
      OBVIOUS
    <3> QED BY <3>1
  <2> QED BY <2>1, Zenon
<1> HIDE DEF g
<1>2. flatten = F(flatten)
  BY <1>1, Zenon
<1>3. FlattenSeq(q) = flatten[Len(q)]
  <2>1. Len(q) # 0
    OBVIOUS
  <2> QED BY <2>1, Zenon DEF FlattenSeq
<1> HIDE DEF flatten
<1>4. \A i \in 1..Len(q) : flatten[i] = IF i = 1 THEN q[i] ELSE flatten[i - 1] \o q[i]
  BY <1>2, Zenon
<1>5. Len(q) = 1 => FlattenSeq(q) = q[1]
  BY <1>3, <1>4
<1>6. \A i \in 1..Len(q) : \A k : i # 1 /\ k = i - 1 => flatten[i] = flatten[k] \o q[i]
  BY <1>4
<1>7. ASSUME Len(q) \in {3, 4}
      PROVE  flatten[3] = q[1] \o q[2] \o q[3]
  <2>1. 1 \in 1..Len(q) /\ 2 \in 1..Len(q) /\ 3 \in 1..Len(q) /\ 1 = 2 - 1 /\ 2 = 3 - 1 /\ 2 # 1 /\ 3 # 1
    BY <1>7
  <2>2. flatten[2] = flatten[1] \o q[2] /\ flatten[3] = flatten[2] \o q[3]
    BY <1>6, <2>1, Zenon
  <2>3. flatten[1] = q[1]
    BY <1>4, <2>1
  <2> QED BY <2>2, <2>3, Zenon
<1>8. ASSUME Len(q) = 4
      PROVE  flatten[4] = flatten[3] \o q[4]
  <2>1. 4 \in 1..Len(q) /\ 3 = 4 - 1 /\ 4 # 1
    BY <1>8
  <2> QED BY <1>6, <2>1, Zenon
<1> QED BY <1>3, <1>5, <1>7, <1>8

\* The operands in a can be brought into the registers in x one after another: none of
\* them reads a register that one before it went into or passed through.
Gatherable(a, x, n) ==
  \A k \in 1..n :
    /\ IsOperand(a[k]) /\ x[k] \in UserRegs
    /\ \A j \in 1..(k - 1) :
         /\ x[j] \notin RegsOf(a[k]) /\ x[j] # x[k]
         /\ IsSum(a[j]) => "r12" \notin RegsOf(a[k])
         /\ IsSum(a[k]) => x[j] # "r12"

\* The first n of them are there.
Gathered(u, t, a, x, n) ==
  /\ t \in State /\ t.stack = u.stack /\ t.mem = StartMem /\ t.calls = <<>>
  /\ \A k \in 1..n : t.reg[x[k]] = Value(a[k]) /\ Value(a[k]) \in Int
  /\ \A q \in UserRegs :
       (\E k \in 1..n : q = x[k]) \/ (q = "r12" /\ \E k \in 1..n : IsSum(a[k])) \/ t.reg[q] = Start[q]

LEMMA GatherNone ==
  ASSUME NEW u, Entered(u), NEW a, NEW x
  PROVE  Gathered(u, u, a, x, 0)
BY Begins DEF Gathered

LEMMA GatherOne ==
  ASSUME NEW u, NEW s, NEW t, NEW a, NEW x, NEW n, NEW k \in 1..n, n \in Nat, Gatherable(a, x, n),
         Gathered(u, s, a, x, k - 1), Leads(Eval(a[k], x[k]), s, t)
  PROVE  Gathered(u, t, a, x, k)
<1>1. /\ IsOperand(a[k]) /\ x[k] \in UserRegs /\ x[k] \in Regs
      /\ \A j \in 1..(k - 1) :
           /\ x[j] \notin RegsOf(a[k]) /\ x[j] # x[k] /\ x[j] \in UserRegs
           /\ IsSum(a[j]) => "r12" \notin RegsOf(a[k])
           /\ IsSum(a[k]) => x[j] # "r12"
  <2>1. \A j \in 1..(k - 1) : j \in 1..n
    OBVIOUS
  <2> QED BY <2>1, Names DEF Gatherable
<1>2. /\ s \in State /\ s.stack = u.stack /\ s.mem = StartMem /\ s.calls = <<>>
      /\ \A j \in 1..(k - 1) : s.reg[x[j]] = Value(a[j]) /\ Value(a[j]) \in Int
      /\ \A q \in UserRegs :
           \/ \E j \in 1..(k - 1) : q = x[j]
           \/ q = "r12" /\ \E j \in 1..(k - 1) : IsSum(a[j])
           \/ s.reg[q] = Start[q]
  BY DEF Gathered
<1>3. Fresh(s, a[k])
  BY <1>1, <1>2, OperandRegs DEF Fresh
<1>4. Changes(s, t, Borrowed(a[k], x[k])) /\ t.reg[x[k]] = Value(a[k]) /\ Value(a[k]) \in Int
  BY <1>1, <1>2, <1>3, EvalIntact
<1>5. \A j \in 1..k : j = k \/ j \in 1..(k - 1)
  OBVIOUS
<1>6. ASSUME NEW j \in 1..k PROVE t.reg[x[j]] = Value(a[j]) /\ Value(a[j]) \in Int
  <2>1. CASE j = k
    BY <1>4, <2>1
  <2>2. CASE j \in 1..(k - 1)
    <3>1. x[j] \in Regs \ Borrowed(a[k], x[k])
      BY <1>1, <2>2, Names DEF Borrowed
    <3> QED BY <1>2, <1>4, <2>2, <3>1 DEF Changes
  <2> QED BY <1>5, <2>1, <2>2
<1>7. ASSUME NEW q \in UserRegs
      PROVE  (\E j \in 1..k : q = x[j]) \/ (q = "r12" /\ \E j \in 1..k : IsSum(a[j])) \/ t.reg[q] = Start[q]
  <2>1. k \in 1..k /\ \A j \in 1..(k - 1) : j \in 1..k
    OBVIOUS
  <2>2. CASE q \in Borrowed(a[k], x[k])
    BY <2>1, <2>2, Names DEF Borrowed
  <2>3. CASE q \notin Borrowed(a[k], x[k])
    BY <1>2, <1>4, <2>1, <2>3, Names DEF Changes
  <2> QED BY <2>2, <2>3
<1>8. t \in State /\ t.stack = u.stack /\ t.mem = StartMem /\ t.calls = <<>>
  BY <1>2, <1>4 DEF Changes
<1> QED BY <1>6, <1>7, <1>8 DEF Gathered

LEMMA GatherIs ==
  ASSUME NEW a, NEW x, DOMAIN a = 1..Len(a), Len(a) \in {1, 3, 4}
  PROVE  /\ Len(a) = 1 => Gather(a, x) = Eval(a[1], x[1])
         /\ Len(a) = 3 => Gather(a, x) = Eval(a[1], x[1]) \o Eval(a[2], x[2]) \o Eval(a[3], x[3])
         /\ Len(a) = 4 => Gather(a, x) = Eval(a[1], x[1]) \o Eval(a[2], x[2]) \o Eval(a[3], x[3])
                                          \o Eval(a[4], x[4])
<1> DEFINE q == [k \in DOMAIN a |-> Eval(a[k], x[k])]
<1>1. Len(q) = Len(a) /\ \A k \in 1..Len(a) : q[k] = Eval(a[k], x[k])
  OBVIOUS
<1>2. Gather(a, x) = FlattenSeq(q)
  BY DEF Gather
<1>3. 1 \in 1..Len(a) /\ (Len(a) >= 3 => 2 \in 1..Len(a) /\ 3 \in 1..Len(a)) /\ (Len(a) = 4 => 4 \in 1..Len(a))
  OBVIOUS
<1> HIDE DEF q
<1>4. Len(q) \in 1..4
  BY <1>1
<1>5. CASE Len(a) = 1
  <2>1. FlattenSeq(q) = q[1]
    BY <1>1, <1>4, <1>5, Flattened
  <2> QED BY <1>1, <1>2, <1>3, <1>5, <2>1
<1>6. CASE Len(a) = 3
  <2>1. FlattenSeq(q) = q[1] \o q[2] \o q[3]
    BY <1>1, <1>4, <1>6, Flattened
  <2>2. q[1] = Eval(a[1], x[1]) /\ q[2] = Eval(a[2], x[2]) /\ q[3] = Eval(a[3], x[3])
    BY <1>1, <1>3, <1>6
  <2>3. Gather(a, x) = Eval(a[1], x[1]) \o Eval(a[2], x[2]) \o Eval(a[3], x[3])
    BY <1>2, <2>1, <2>2, Zenon
  <2> QED BY <1>6, <2>3
<1>7. CASE Len(a) = 4
  <2>1. FlattenSeq(q) = q[1] \o q[2] \o q[3] \o q[4]
    BY <1>1, <1>4, <1>7, Flattened
  <2>2. q[1] = Eval(a[1], x[1]) /\ q[2] = Eval(a[2], x[2]) /\ q[3] = Eval(a[3], x[3]) /\ q[4] = Eval(a[4], x[4])
    BY <1>1, <1>3, <1>7
  <2>3. Gather(a, x) = Eval(a[1], x[1]) \o Eval(a[2], x[2]) \o Eval(a[3], x[3]) \o Eval(a[4], x[4])
    BY <1>2, <2>1, <2>2, Zenon
  <2> QED BY <1>7, <2>3
<1> QED BY <1>5, <1>6, <1>7

LEMMA PlainGather ==
  ASSUME NEW a, NEW x, DOMAIN a = 1..Len(a), Len(a) \in {1, 3, 4}, Gatherable(a, x, Len(a))
  PROVE  Plain(Gather(a, x))
<1>1. \A k \in 1..Len(a) : Plain(Eval(a[k], x[k]))
  BY PlainEval DEF Gatherable
<1>2. CASE Len(a) = 1
  <2>1. Plain(Eval(a[1], x[1]))
    BY <1>1, <1>2
  <2> QED BY <1>2, <2>1, GatherIs
<1>3. CASE Len(a) = 3
  <2>1. Plain(Eval(a[1], x[1])) /\ Plain(Eval(a[2], x[2])) /\ Plain(Eval(a[3], x[3]))
    BY <1>1, <1>3
  <2>2. Gather(a, x) = Eval(a[1], x[1]) \o Eval(a[2], x[2]) \o Eval(a[3], x[3])
    BY <1>3, GatherIs
  <2> QED BY <2>1, <2>2, PlainConcat
<1>4. CASE Len(a) = 4
  <2>1. Plain(Eval(a[1], x[1])) /\ Plain(Eval(a[2], x[2])) /\ Plain(Eval(a[3], x[3])) /\ Plain(Eval(a[4], x[4]))
    BY <1>1, <1>4
  <2>2. Gather(a, x) = Eval(a[1], x[1]) \o Eval(a[2], x[2]) \o Eval(a[3], x[3]) \o Eval(a[4], x[4])
    BY <1>4, GatherIs
  <2> QED BY <2>1, <2>2, PlainConcat
<1> QED BY <1>2, <1>3, <1>4

LEMMA Gathers ==
  ASSUME NEW u, Entered(u), NEW t, NEW a, NEW x, DOMAIN a = 1..Len(a), Len(a) \in {1, 3, 4},
         Gatherable(a, x, Len(a))
  PROVE  Leads(Gather(a, x), u, t) => Gathered(u, t, a, x, Len(a))
<1>1. \A k \in 1..Len(a) : Plain(Eval(a[k], x[k]))
  BY PlainEval DEF Gatherable
<1>2. \A s, r : \A k \in 1..Len(a) :
        Gathered(u, s, a, x, k - 1) /\ Leads(Eval(a[k], x[k]), s, r) => Gathered(u, r, a, x, k)
  BY GatherOne
<1>3. \A r : Leads(Eval(a[1], x[1]), u, r) => Gathered(u, r, a, x, 1)
  <2>1. 1 \in 1..Len(a) /\ 1 - 1 = 0
    OBVIOUS
  <2> QED BY <1>2, <2>1, GatherNone
<1>4. CASE Len(a) = 1
  BY <1>1, <1>3, <1>4, GatherIs
<1>5. ASSUME Len(a) \in {3, 4}
      PROVE  /\ \A s, r : Gathered(u, s, a, x, 1) /\ Leads(Eval(a[2], x[2]), s, r) => Gathered(u, r, a, x, 2)
             /\ \A s, r : Gathered(u, s, a, x, 2) /\ Leads(Eval(a[3], x[3]), s, r) => Gathered(u, r, a, x, 3)
  <2>1. 2 \in 1..Len(a) /\ 2 - 1 = 1 /\ 3 \in 1..Len(a) /\ 3 - 1 = 2
    BY <1>5
  <2>2. \A s, r : Gathered(u, s, a, x, 2 - 1) /\ Leads(Eval(a[2], x[2]), s, r) => Gathered(u, r, a, x, 2)
    BY <1>2, <2>1
  <2>3. \A s, r : Gathered(u, s, a, x, 3 - 1) /\ Leads(Eval(a[3], x[3]), s, r) => Gathered(u, r, a, x, 3)
    BY <1>2, <2>1
  <2> QED BY <2>1, <2>2, <2>3
<1>6. CASE Len(a) = 3
  <2>1. Plain(Eval(a[1], x[1])) /\ Plain(Eval(a[2], x[2])) /\ Plain(Eval(a[3], x[3]))
    BY <1>1, <1>6
  <2>2. Gather(a, x) = Eval(a[1], x[1]) \o Eval(a[2], x[2]) \o Eval(a[3], x[3])
    BY <1>6, GatherIs
  <2>3. ASSUME Leads(Gather(a, x), u, t) PROVE Gathered(u, t, a, x, 3)
    <3>1. PICK b, c : Leads(Eval(a[1], x[1]), u, b) /\ Leads(Eval(a[2], x[2]), b, c)
                      /\ Leads(Eval(a[3], x[3]), c, t)
      BY <2>1, <2>2, <2>3, LeadsThree
    <3> QED BY <1>3, <1>5, <1>6, <3>1
  <2> QED BY <1>6, <2>3
<1>7. CASE Len(a) = 4
  <2>1. Plain(Eval(a[1], x[1])) /\ Plain(Eval(a[2], x[2])) /\ Plain(Eval(a[3], x[3])) /\ Plain(Eval(a[4], x[4]))
    BY <1>1, <1>7
  <2>2. Gather(a, x) = Eval(a[1], x[1]) \o Eval(a[2], x[2]) \o Eval(a[3], x[3]) \o Eval(a[4], x[4])
    BY <1>7, GatherIs
  <2>3. ASSUME Leads(Gather(a, x), u, t) PROVE Gathered(u, t, a, x, 4)
    <3>1. PICK b, c, d : Leads(Eval(a[1], x[1]), u, b) /\ Leads(Eval(a[2], x[2]), b, c)
                         /\ Leads(Eval(a[3], x[3]), c, d) /\ Leads(Eval(a[4], x[4]), d, t)
      BY <2>1, <2>2, <2>3, LeadsFour
    <3>2. 4 \in 1..Len(a) /\ 4 - 1 = 3
      BY <1>7
    <3>3. Gathered(u, d, a, x, 3)
      BY <1>3, <1>5, <1>7, <3>1
    <3> QED BY <1>2, <3>1, <3>2, <3>3
  <2> QED BY <1>7, <2>3
<1> QED BY <1>4, <1>6, <1>7

-----------------------------------------------------------------------------
(* System calls.                                                           *)

\* One register set: by a copy, or to a number.
Sets(s, t, d, y) == Changes(s, t, {d}) /\ t.reg[d] = y

LEMMA MovSets ==
  ASSUME NEW s, NEW d, NEW r, NEW t, s \in State, d \in Regs, r \in Regs, t = Do(Mov(d, r), s)
  PROVE  Sets(s, t, d, s.reg[r])
BY MovParts DEF Sets

LEMMA ImmSets ==
  ASSUME NEW s, NEW d, NEW n, NEW t, s \in State, d \in Regs, n \in Int, t = Do(Imm(d, n), s)
  PROVE  Sets(s, t, d, n)
<1>1. \A r \in Regs : \A k : k \in Int /\ t = Do(Imm(r, k), s) => Changes(s, t, {r}) /\ t.reg[r] = k
  BY ImmParts
<1> QED BY <1>1 DEF Sets

\* What the kernel is asked, and what it leaves.
Answers(s, t) ==
  /\ t \in State /\ t.stack = s.stack /\ t.mem = s.mem /\ t.calls = Append(s.calls, Asked(s))
  /\ t.reg["rax"] = SysResult
  /\ \A q \in Regs \ {"rax", "rcx", "r11"} : t.reg[q] = s.reg[q]

LEMMA SyscallAnswers ==
  ASSUME NEW s, NEW t, s \in State, t = Do(Syscall, s)
  PROVE  Answers(s, t)
<1>1. t = Answered(s)
  BY DoIs DEF Syscall
<1>2. Asked(s) \in Requests
  <2>1. \A k \in 1..6 : SysArgs[k] \in Regs
    BY DEF SysArgs, Regs
  <2>2. s.reg["rax"] \in Int /\ \A k \in 1..6 : s.reg[SysArgs[k]] \in Int
    BY <2>1, StateParts, Names
  <2>3. [k \in 1..6 |-> s.reg[SysArgs[k]]] \in Seq(Int)
    BY <2>2
  <2> QED BY <2>2, <2>3 DEF Asked, Requests
<1>3. s.calls \in Seq(Requests) /\ s.reg \in [Regs -> Int] /\ s.mem \in [Cells -> Int] /\ s.stack \in Seq(Int)
      /\ s.zf \in BOOLEAN
  BY StateParts
<1> DEFINE r == [s.reg EXCEPT !["rax"] = SysResult, !["rcx"] = Junk, !["r11"] = Junk]
           c == Append(s.calls, Asked(s))
<1>4. r \in [Regs -> Int] /\ r["rax"] = SysResult /\ \A q \in Regs \ {"rax", "rcx", "r11"} : r[q] = s.reg[q]
  BY <1>3, Names, ProcessorAssumption
<1>5. c \in Seq(Requests)
  BY <1>2, <1>3
<1>6. t = Config(r, s.stack, s.mem, s.zf, c)
  BY <1>1 DEF Answered
<1> HIDE DEF r
<1>7. t.reg = r /\ t.stack = s.stack /\ t.mem = s.mem /\ t.calls = c
  BY <1>6 DEF Config
<1> HIDE DEF c
<1>8. t \in State
  BY <1>3, <1>4, <1>5, <1>6 DEF Config, State
<1> QED BY <1>4, <1>7, <1>8 DEF Answers, c

\* The registers hold a request.
Asks(w, nr, args) ==
  /\ w.reg["rax"] = nr
  /\ DOMAIN args = 1..Len(args) /\ Len(args) \in 1..6
  /\ \A k \in 1..Len(args) : w.reg[SysArgs[k]] = args[k]

\* Nothing was asked yet, nothing was changed that has to stay.
Ready(u, w) ==
  /\ w \in State /\ w.stack = u.stack /\ w.mem = StartMem /\ w.calls = <<>>
  /\ \A q \in UserRegs \ (Changed \cup SavedBy(stmt.op)) : w.reg[q] = Start[q]

LEMMA AsksRequest ==
  ASSUME NEW w, Asks(w, Request.nr, Request.args), calls = <<Asked(w)>>
  PROVE  RequestMade
<1> DEFINE args == Request.args  all == [k \in 1..6 |-> w.reg[SysArgs[k]]]
<1>1. Len(calls) = 1 /\ calls[1].nr = Request.nr /\ calls[1].args = all
  BY DEF Asks, Asked
<1>2. DOMAIN args = 1..Len(args) /\ Len(args) \in 1..6 /\ \A k \in 1..Len(args) : all[k] = args[k]
  <2>1. DOMAIN args = 1..Len(args) /\ Len(args) \in 1..6 /\ \A k \in 1..Len(args) : w.reg[SysArgs[k]] = args[k]
    BY DEF Asks
  <2> HIDE DEF args
  <2>2. \A k \in 1..Len(args) : all[k] = w.reg[SysArgs[k]]
    BY <2>1
  <2> QED BY <2>1, <2>2
<1>3. Len(all) = 6
  OBVIOUS
<1> HIDE DEF args, all
<1>4. IsPrefix(args, all)
  <2>1. SubSeq(args, 1, Len(args)) = [k \in 1..Len(args) |-> args[k]]
    BY <1>2
  <2>2. SubSeq(all, 1, Len(args)) = [k \in 1..Len(args) |-> all[k]]
    BY <1>2, <1>3
  <2>3. Len(args) <= Len(all)
    BY <1>2, <1>3
  <2> QED BY <1>2, <2>1, <2>2, <2>3 DEF IsPrefix
<1> QED BY <1>1, <1>4 DEF RequestMade, args

LEMMA SystemEffect ==
  ASSUME stmt.op \in SystemOps, RequestMade, NEW old,
         stmt.op \in ResultOps => reg[stmt.dest] = Answer(old),
         stmt.op \notin ResultOps => reg["rax"] = SysResult
  PROVE  Effect(old)
BY DEF Effect, Result, SystemOps, ReturnOps

\* Statements that end with a system call, and perhaps a copy of what it returns.
AskOps == SystemOps \ {"syscall", "pulse_now"}

LEMMA AskParts ==
  ASSUME IsStatement(stmt), stmt.op \in AskOps
  PROVE  /\ CallClobbered \subseteq Changed
         /\ "rax" \notin SavedBy(stmt.op)
         /\ stmt.op \in ReturnOps <=> stmt.op \in ResultOps
         /\ stmt.op \in ReturnOps => Answer(Start[stmt.dest]) = SysResult /\ stmt.dest \in Changed \ SavedBy(stmt.op)
         /\ \A k \in DOMAIN stmt.arg : IsSum(stmt.arg[k]) => "r12" \in Changed \cup SavedBy(stmt.op)
<1>1. CallClobbered \subseteq Changed
  BY DEF Changed, AskOps, SystemOps, ReturnOps
<1>2. "rax" \notin SavedBy(stmt.op)
  BY SavedSets, SavedLists DEF SavedBy, AskOps, SystemOps, ReturnOps
<1>3. stmt.op \in ReturnOps <=> stmt.op \in ResultOps
  BY DEF AskOps, SystemOps, ReturnOps, ResultOps, CpuOps, UnaryOps
<1>4. stmt.op \in ReturnOps => Answer(Start[stmt.dest]) = SysResult
  BY DEF Answer, ReturnOps
<1>5. stmt.op \in ReturnOps => stmt.dest \in Changed \ SavedBy(stmt.op)
  BY <1>3, Args DEF Changed
<1>6. \A k \in DOMAIN stmt.arg : IsSum(stmt.arg[k]) => "r12" \in Changed \cup SavedBy(stmt.op)
  BY DEF Changed, SavedBy
<1> QED BY <1>1, <1>2, <1>3, <1>4, <1>5, <1>6

LEMMA CallServes ==
  ASSUME IsStatement(stmt), stmt.op \in AskOps, Memory = StartMem, Plain(Body(stmt)),
         ASSUME NEW u, NEW x, Entered(u), Leads(Body(stmt), u, x)
         PROVE  \E w : x = Do(Syscall, w) /\ Ready(u, w) /\ Asks(w, Request.nr, Request.args)
  PROVE  Works
<1> DEFINE d == stmt.dest  c == IF stmt.op \in ReturnOps THEN Copy(d, "rax") ELSE <<>>
<1>1. d \in Regs /\ d \in UserRegs /\ "rax" \in Regs /\ "rax" \in UserRegs
  BY Args, Names DEF UserRegs
<1>2. Plain(c)
  BY PlainFew, AllStraight DEF Copy
<1>3. ASSUME NEW u, NEW v, Entered(u), Leads(Core(stmt), u, v)
      PROVE  Served(u, v)
  <2>1. PICK x : Leads(Body(stmt), u, x) /\ Leads(c, x, v)
    <3>1. Core(stmt) = Body(stmt) \o c
      BY DEF Core
    <3> HIDE DEF c
    <3> QED BY <1>2, <1>3, <3>1, PlainCode, LeadsThrough
  <2>2. PICK w : x = Do(Syscall, w) /\ Ready(u, w) /\ Asks(w, Request.nr, Request.args)
    BY <1>3, <2>1
  <2>3. Answers(w, x)
    BY <2>2, SyscallAnswers DEF Ready
  <2>4. /\ x \in State /\ x.stack = u.stack /\ x.mem = StartMem /\ x.calls = <<Asked(w)>>
        /\ x.reg["rax"] = SysResult
        /\ \A q \in Regs \ {"rax", "rcx", "r11"} : x.reg[q] = w.reg[q]
    BY <2>2, <2>3 DEF Answers, Ready
  <2>5. \A q \in UserRegs \ (Changed \cup SavedBy(stmt.op)) : x.reg[q] = Start[q]
    <3>1. {"rax", "rcx"} \subseteq Changed /\ "r11" \notin UserRegs
      BY AskParts, Names DEF CallClobbered
    <3> QED BY <2>2, <2>4, <3>1, Names DEF Ready
  <2>6. CASE stmt.op \in ReturnOps
    <3>1. Leads(Copy(d, "rax"), x, v)
      BY <2>1, <2>6
    <3>2. \A r \in Regs : Leads(Copy(d, r), x, v) => Changes(x, v, {d}) /\ v.reg[d] = x.reg[r]
      <4>1. x \in State /\ d \in Regs
        BY <1>1, <2>4
      <4> HIDE DEF d
      <4> QED BY <4>1, CopyLeads
    <3>3. Changes(x, v, {d}) /\ v.reg[d] = SysResult
      BY <1>1, <2>4, <3>1, <3>2
    <3>4. v \in State /\ v.stack = u.stack /\ v.mem = Memory /\ v.calls = <<Asked(w)>>
      BY <2>4, <3>3 DEF Changes
    <3>5. \A q \in UserRegs \ (Changed \cup SavedBy(stmt.op)) : v.reg[q] = Start[q]
      BY <2>5, <2>6, <3>3, AskParts, Names DEF Changes
    <3>6. Matches(v) => Effect(Start[d])
      <4> SUFFICES ASSUME Matches(v) PROVE Effect(Start[d])
        OBVIOUS
      <4>1. calls = <<Asked(w)>> /\ reg[d] = SysResult
        BY <1>1, <2>6, <3>3, <3>4, AskParts DEF Matches
      <4>2. RequestMade
        BY <2>2, <4>1, AsksRequest
      <4> QED BY <2>6, <4>1, <4>2, AskParts, SystemEffect DEF AskOps
    <3> QED BY <3>4, <3>5, <3>6 DEF Served
  <2>7. CASE stmt.op \notin ReturnOps
    <3>1. v = x
      BY <2>1, <2>7, LeadsNone
    <3>2. Matches(v) => Effect(Start[d])
      <4> SUFFICES ASSUME Matches(v) PROVE Effect(Start[d])
        OBVIOUS
      <4>1. calls = <<Asked(w)>> /\ reg["rax"] = SysResult
        BY <1>1, <2>4, <3>1, AskParts DEF Matches
      <4>2. RequestMade
        BY <2>2, <4>1, AsksRequest
      <4> QED BY <2>7, <4>1, <4>2, AskParts, SystemEffect DEF AskOps
    <3> QED BY <2>4, <2>5, <3>1, <3>2 DEF Served
  <2> QED BY <2>6, <2>7
<1> HIDE DEF c
<1> QED BY <1>3, CoreServes

\* What a statement may use on its way.
Free == Changed \cup SavedBy(stmt.op)

\* Operands that are Intact can be gathered into the registers that count as written.
LEMMA IntactGathers ==
  ASSUME IsStatement(stmt), stmt.op \notin BlockOps \cup {"gate_cas"}, NEW x, NEW n, n = Len(stmt.arg),
         \A k \in 1..n : x[k] \in UserRegs,
         \A k \in 1..n : \A j \in 1..(k - 1) : x[j] = Targets(stmt.op)[j] /\ x[j] # x[k]
  PROVE  Gatherable(stmt.arg, x, n)
<1>1. SUFFICES ASSUME NEW k \in 1..n, NEW j \in 1..(k - 1)
               PROVE  /\ x[j] \notin RegsOf(stmt.arg[k])
                      /\ IsSum(stmt.arg[j]) => "r12" \notin RegsOf(stmt.arg[k])
                      /\ IsSum(stmt.arg[k]) => x[j] # "r12"
  BY Args DEF Gatherable
<1>2. Intact(stmt, k)
  BY Args
<1>3. x[j] \in Live(stmt, k) /\ x[j] \in Written(stmt, k)
  BY DEF Live, Written
<1>4. IsSum(stmt.arg[j]) => "r12" \in Written(stmt, k)
  BY DEF Written
<1> QED BY <1>2, <1>3, <1>4 DEF Intact

LEMMA GatheredReady ==
  ASSUME NEW u, NEW t, NEW a, NEW x, NEW n, Gathered(u, t, a, x, n),
         \A k \in 1..n : x[k] \in Free,
         \A k \in 1..n : IsSum(a[k]) => "r12" \in Free
  PROVE  Ready(u, t)
BY DEF Gathered, Ready, Free

LEMMA ReadySets ==
  ASSUME NEW u, NEW s, NEW t, NEW d, NEW y, Ready(u, s), Sets(s, t, d, y), d \in Free
  PROVE  Ready(u, t)
BY Names DEF Sets, Changes, Ready, Free

LEMMA RequestIs ==
  /\ stmt.op = "net_socket" => Request = [nr |-> 41, args |-> <<V(1), V(2), V(3)>>]
  /\ stmt.op = "net_connect" => Request = [nr |-> 42, args |-> <<V(1), V(2), V(3)>>]
  /\ stmt.op = "net_send" => Request = [nr |-> 44, args |-> <<V(1), V(2), V(3), 0>>]
  /\ stmt.op = "net_recv" => Request = [nr |-> 45, args |-> <<V(1), V(2), V(3), 0>>]
  /\ stmt.op = "net_close" => Request = [nr |-> 3, args |-> <<V(1)>>]
  /\ stmt.op = "epoll_create" => Request = [nr |-> 291, args |-> <<V(1)>>]
  /\ stmt.op = "cell_protect" => Request = [nr |-> 10, args |-> <<V(1), V(2), V(3)>>]
  /\ stmt.op = "net_poll" => Request = [nr |-> 7, args |-> <<V(1), V(2), V(3)>>]
  /\ stmt.op = "epoll_ctl" => Request = [nr |-> 233, args |-> <<V(1), V(2), V(3), V(4)>>]
  /\ stmt.op = "epoll_wait" => Request = [nr |-> 232, args |-> <<V(1), V(2), V(3), V(4)>>]
  /\ stmt.op = "cell_map" => Request = [nr |-> 9, args |-> <<0, V(1), VOr(2, 3), VOr(3, 34), Null, 0>>]
  /\ stmt.op = "cell_mapfile" => Request = [nr |-> 9, args |-> <<0, V(1), VOr(4, 3), 2, V(2), VOr(3, 0)>>]
  /\ stmt.op = "cell_free" => Request = [nr |-> 11, args |-> <<V(1), V(2)>>]
BY DEF Request

\* A statement that gathers its operands first.
LEMMA GatheredServes ==
  ASSUME IsStatement(stmt), stmt.op \in AskOps, Memory = StartMem, NEW a, NEW x, NEW n, NEW tail,
         n = Len(a), n \in {1, 3, 4}, DOMAIN a = 1..n, Gatherable(a, x, n),
         \A k \in 1..n : x[k] \in Free /\ (IsSum(a[k]) => "r12" \in Free),
         Body(stmt) = Gather(a, x) \o tail, Plain(tail),
         ASSUME NEW u, NEW t, NEW v, Gathered(u, t, a, x, n), Ready(u, t), Leads(tail, t, v)
         PROVE  \E w : v = Do(Syscall, w) /\ Ready(u, w) /\ Asks(w, Request.nr, Request.args)
  PROVE  Works
<1>1. Plain(Gather(a, x))
  BY PlainGather
<1>2. ASSUME NEW u, NEW v, Entered(u), Leads(Body(stmt), u, v)
      PROVE  \E w : v = Do(Syscall, w) /\ Ready(u, w) /\ Asks(w, Request.nr, Request.args)
  <2>1. PICK t : Leads(Gather(a, x), u, t) /\ Leads(tail, t, v)
    BY <1>1, <1>2, PlainCode, LeadsThrough
  <2>2. Gathered(u, t, a, x, n)
    BY <1>2, <2>1, Gathers
  <2>3. Ready(u, t)
    BY <2>2, GatheredReady
  <2> QED BY <2>1, <2>2, <2>3
<1>3. Plain(Body(stmt))
  BY <1>1, PlainConcat
<1> QED BY <1>2, <1>3, CallServes

LEMMA DirectDone ==
  ASSUME IsStatement(stmt), stmt.op \in {"net_socket", "net_connect", "net_close", "epoll_create"}
  PROVE  Works
<1> DEFINE x == <<"rdi", "rsi", "rdx">>  a == stmt.arg  n == Len(a)
<1>1. /\ n \in {1, 3} /\ DOMAIN a = 1..n /\ n \in Nat
      /\ stmt.op \in {"net_close", "epoll_create"} <=> n = 1
  <2>1. CASE stmt.op \in {"net_close", "epoll_create"}
    <3>1. Arity[stmt.op] = {1}
      BY <2>1 DEF Arity
    <3> QED BY <2>1, <3>1, Args
  <2>2. CASE stmt.op \in {"net_socket", "net_connect"}
    <3>1. Arity[stmt.op] = {3}
      BY <2>2 DEF Arity
    <3> QED BY <2>2, <3>1, Args
  <2> QED BY <2>1, <2>2
<1>2. PICK nr \in Int :
        /\ Body(stmt) = Direct(a, nr)
        /\ Request.nr = nr
        /\ Request.args = IF n = 1 THEN <<V(1)>> ELSE <<V(1), V(2), V(3)>>
  <2>1. \A nr : nr = (CASE stmt.op = "net_socket" -> 41 [] stmt.op = "net_connect" -> 42
                        [] stmt.op = "net_close" -> 3 [] stmt.op = "epoll_create" -> 291) => Body(stmt) = Direct(a, nr)
    BY DEF Body, CpuOps, UnaryOps
  <2> QED BY <1>1, <2>1, RequestIs
<1>3. /\ stmt.op \in AskOps /\ Memory = StartMem /\ stmt.op \notin BlockOps \cup {"gate_cas"}
      /\ n = 3 => Targets(stmt.op) = x
  <2>1. Memory = StartMem
    BY DEF Memory
  <2>2. n = 3 => Targets(stmt.op) = x
    BY <1>1 DEF Targets, BlockOps
  <2> QED BY <2>1, <2>2 DEF AskOps, SystemOps, ReturnOps, BlockOps
<1>4. /\ \A k \in 1..n : x[k] \in UserRegs /\ x[k] \in CallClobbered /\ x[k] # "rax" /\ SysArgs[k] = x[k]
      /\ \A k \in 1..n : \A j \in 1..(k - 1) : x[j] # x[k]
  <2>1. \A k \in {1, 2, 3} : x[k] \in UserRegs /\ x[k] \in CallClobbered /\ x[k] # "rax" /\ SysArgs[k] = x[k]
    BY DEF UserRegs, Regs, CallClobbered, SysArgs
  <2>2. \A j, k \in {1, 2, 3} : x[j] = x[k] => j = k
    OBVIOUS
  <2> HIDE DEF x, n
  <2>3. \A k \in 1..n : k \in {1, 2, 3} /\ \A j \in 1..(k - 1) : j \in {1, 2, 3} /\ j # k
    BY <1>1
  <2> QED BY <2>1, <2>2, <2>3
<1>5. Gatherable(a, x, n)
  <2>1. ASSUME NEW k \in 1..n, NEW j \in 1..(k - 1) PROVE x[j] = Targets(stmt.op)[j]
    <3>1. n = 3
      <4> HIDE DEF n
      <4> QED BY <1>1, <2>1
    <3> QED BY <1>3, <3>1
  <2> HIDE DEF x
  <2> QED BY <1>3, <1>4, <2>1, IntactGathers
<1>6. /\ \A k \in 1..n : x[k] \in Free /\ (IsSum(a[k]) => "r12" \in Free)
      /\ "rax" \in Free /\ "rax" \in Regs
  BY <1>1, <1>3, <1>4, AskParts, Names DEF Free, CallClobbered
<1>7. /\ DOMAIN Request.args = 1..n /\ Len(Request.args) = n
      /\ \A k \in 1..n : Request.args[k] = Value(a[k])
  <2>1. CASE n = 1
    BY <1>2, <2>1 DEF V
  <2>2. CASE n = 3
    BY <1>2, <2>2 DEF V
  <2> QED BY <1>1, <2>1, <2>2
<1> DEFINE tail == <<Imm("rax", nr), Syscall>>
<1>8. Plain(tail) /\ Body(stmt) = Gather(a, x) \o tail
  BY <1>2, PlainFew, AllStraight DEF Direct
<1>9. ASSUME NEW u, NEW t, NEW v, Gathered(u, t, a, x, n), Ready(u, t), Leads(tail, t, v)
      PROVE  \E w : v = Do(Syscall, w) /\ Ready(u, w) /\ Asks(w, Request.nr, Request.args)
  <2>1. PICK w : w = Do(Imm("rax", nr), t) /\ v = Do(Syscall, w)
    BY <1>9, TwoSteps
  <2> HIDE DEF x, tail
  <2>2. Sets(t, w, "rax", nr)
    <3>1. \A r \in Regs : w = Do(Imm(r, nr), t) => Sets(t, w, r, nr)
      BY <1>9, ImmSets DEF Ready
    <3> QED BY <1>6, <2>1, <3>1
  <2>3. Ready(u, w)
    BY <1>6, <1>9, <2>2, ReadySets
  <2>4. Asks(w, Request.nr, Request.args)
    <3>1. w.reg["rax"] = Request.nr
      BY <1>2, <2>2 DEF Sets
    <3>2. ASSUME NEW k \in 1..n PROVE w.reg[SysArgs[k]] = Request.args[k]
      <4>1. x[k] \in Regs \ {"rax"} /\ SysArgs[k] = x[k]
        BY <1>4, Names
      <4> QED BY <1>7, <1>9, <2>2, <4>1 DEF Gathered, Sets, Changes
    <3> QED BY <1>1, <1>7, <3>1, <3>2 DEF Asks
  <2> QED BY <2>1, <2>3, <2>4
<1> HIDE DEF x, tail
<1> QED BY <1>1, <1>3, <1>5, <1>6, <1>8, <1>9, GatheredServes

\* The kernel's fourth argument is in r10.
LEMMA TransferDone ==
  ASSUME IsStatement(stmt), stmt.op \in {"net_send", "net_recv"}
  PROVE  Works
<1> DEFINE x == <<"rdi", "rsi", "rdx">>  a == stmt.arg
<1>1. Len(a) = 3 /\ DOMAIN a = 1..3
  <2>1. Arity[stmt.op] = {3}
    BY DEF Arity
  <2> QED BY <2>1, Args
<1>2. PICK nr \in Int :
        /\ Body(stmt) = NetTransfer(a, nr)
        /\ Request.nr = nr /\ Request.args = <<Value(a[1]), Value(a[2]), Value(a[3]), 0>>
  <2>1. stmt.op = "net_send" => Body(stmt) = NetTransfer(a, 44)
    BY DEF Body, CpuOps, UnaryOps
  <2>2. stmt.op = "net_recv" => Body(stmt) = NetTransfer(a, 45)
    BY DEF Body, CpuOps, UnaryOps
  <2> QED BY <2>1, <2>2, RequestIs DEF V
<1>3. /\ stmt.op \in AskOps /\ Memory = StartMem /\ stmt.op \notin BlockOps \cup {"gate_cas"}
      /\ Targets(stmt.op) = x
  <2>1. Memory = StartMem
    BY DEF Memory
  <2>2. Targets(stmt.op) = x
    BY DEF Targets, BlockOps
  <2> QED BY <2>1, <2>2 DEF AskOps, SystemOps, ReturnOps, BlockOps
<1>4. Gatherable(a, x, 3)
  <2>1. \A k \in 1..3 : x[k] \in UserRegs
    BY DEF UserRegs, Regs
  <2>2. \A k \in 1..3 : \A j \in 1..(k - 1) : x[j] = Targets(stmt.op)[j] /\ x[j] # x[k]
    BY <1>3
  <2> HIDE DEF x
  <2> QED BY <1>1, <1>3, <2>1, <2>2, IntactGathers
<1>5. /\ \A k \in 1..3 : x[k] \in Free
      /\ \A k \in 1..3 : IsSum(a[k]) => "r12" \in Free
      /\ {"rax", "r10"} \subseteq Free /\ {"rax", "r10", "rdi", "rsi", "rdx"} \subseteq Regs
  <2>1. CallClobbered \subseteq Free
    BY <1>3, AskParts DEF Free
  <2>2. \A k \in 1..3 : x[k] \in CallClobbered
    BY DEF CallClobbered
  <2>3. \A k \in 1..3 : IsSum(a[k]) => "r12" \in Free
    BY <1>1, <1>3, AskParts DEF Free
  <2> QED BY <2>1, <2>2, <2>3, Names DEF CallClobbered
<1> DEFINE tail == <<Imm("r10", 0), Imm("rax", nr), Syscall>>
<1>6. Plain(tail) /\ Body(stmt) = Gather(a, x) \o tail
  BY <1>2, PlainFew, AllStraight DEF NetTransfer
<1>7. ASSUME NEW u, NEW t, NEW v, Gathered(u, t, a, x, 3), Ready(u, t), Leads(tail, t, v)
      PROVE  \E w : v = Do(Syscall, w) /\ Ready(u, w) /\ Asks(w, Request.nr, Request.args)
  <2>1. PICK b, w : b = Do(Imm("r10", 0), t) /\ w = Do(Imm("rax", nr), b) /\ v = Do(Syscall, w)
    BY <1>7, ThreeSteps
  <2>2. t.reg["rdi"] = Value(a[1]) /\ t.reg["rsi"] = Value(a[2]) /\ t.reg["rdx"] = Value(a[3])
    BY <1>7 DEF Gathered
  <2> HIDE DEF x, tail
  <2>3. Sets(t, b, "r10", 0) /\ Ready(u, b)
    <3>1. \A r \in Regs : b = Do(Imm(r, 0), t) => Sets(t, b, r, 0)
      BY <1>7, ImmSets DEF Ready
    <3> QED BY <1>5, <1>7, <2>1, <3>1, ReadySets
  <2>4. Sets(b, w, "rax", nr) /\ Ready(u, w)
    <3>1. \A r \in Regs : w = Do(Imm(r, nr), b) => Sets(b, w, r, nr)
      BY <2>3, ImmSets DEF Ready
    <3> QED BY <1>5, <2>1, <2>3, <3>1, ReadySets
  <2>5. /\ w.reg["rdi"] = Value(a[1]) /\ w.reg["rsi"] = Value(a[2]) /\ w.reg["rdx"] = Value(a[3])
        /\ w.reg["r10"] = 0 /\ w.reg["rax"] = nr
    BY <1>5, <2>2, <2>3, <2>4 DEF Sets, Changes
  <2>6. Asks(w, Request.nr, Request.args)
    BY <1>2, <2>5 DEF Asks, SysArgs
  <2> QED BY <2>1, <2>4, <2>6
<1> HIDE DEF x, tail
<1> QED BY <1>1, <1>3, <1>4, <1>5, <1>6, <1>7, GatheredServes

\* Operands through temporaries.
LEMMA ProtectDone ==
  ASSUME IsStatement(stmt), stmt.op \in {"cell_protect", "net_poll"}
  PROVE  Works
<1> DEFINE x == <<"r12", "r13", "r14">>  a == stmt.arg
           moves == <<Mov("rdi", "r12"), Mov("rsi", "r13"), Mov("rdx", "r14")>>
<1>1. Len(a) = 3 /\ DOMAIN a = 1..3
  <2>1. Arity[stmt.op] = {3}
    BY DEF Arity
  <2> QED BY <2>1, Args
<1>2. PICK nr \in Int :
        /\ Body(stmt) = Gather(a, x) \o moves \o <<Imm("rax", nr), Syscall>>
        /\ Request.nr = nr /\ Request.args = <<Value(a[1]), Value(a[2]), Value(a[3])>>
  <2>1. Moves(<<"rdi", "rsi", "rdx">>, x) = moves
    BY DEF Moves
  <2>2. stmt.op = "cell_protect" => Body(stmt) = Gather(a, x) \o moves \o <<Imm("rax", 10), Syscall>>
    <3>1. stmt.op = "cell_protect" => Body(stmt) = Marshalled(a, <<"r12", "r13", "r14">>, <<"rdi", "rsi", "rdx">>, 10)
      BY DEF Body, CpuOps, UnaryOps
    <3> HIDE DEF moves
    <3> QED BY <2>1, <3>1 DEF Marshalled
  <2>3. stmt.op = "net_poll" => Body(stmt) = Gather(a, x) \o moves \o <<Imm("rax", 7), Syscall>>
    <3>1. stmt.op = "net_poll" => Body(stmt) = Marshalled(a, <<"r12", "r13", "r14">>, <<"rdi", "rsi", "rdx">>, 7)
      BY DEF Body, CpuOps, UnaryOps
    <3> HIDE DEF moves
    <3> QED BY <2>1, <3>1 DEF Marshalled
  <2> HIDE DEF x, moves
  <2>4. /\ stmt.op = "cell_protect" => Request.nr = 10 /\ Request.args = <<Value(a[1]), Value(a[2]), Value(a[3])>>
        /\ stmt.op = "net_poll" => Request.nr = 7 /\ Request.args = <<Value(a[1]), Value(a[2]), Value(a[3])>>
    BY RequestIs DEF V
  <2>7. 10 \in Int /\ 7 \in Int
    OBVIOUS
  <2> HIDE DEF a
  <2>5. CASE stmt.op = "cell_protect"
    BY <2>2, <2>4, <2>5, <2>7
  <2>6. CASE stmt.op = "net_poll"
    BY <2>3, <2>4, <2>6, <2>7
  <2> QED BY <2>5, <2>6
<1>3. /\ stmt.op \in AskOps /\ Memory = StartMem /\ stmt.op \notin BlockOps \cup {"gate_cas"}
      /\ Targets(stmt.op) = x
  <2>1. Memory = StartMem
    BY DEF Memory
  <2>2. Targets(stmt.op) = x
    BY DEF Targets, BlockOps, Fours
  <2> QED BY <2>1, <2>2 DEF AskOps, SystemOps, ReturnOps, BlockOps
<1>4. Gatherable(a, x, 3)
  <2>1. \A k \in 1..3 : x[k] \in UserRegs
    BY DEF UserRegs, Regs
  <2>2. \A k \in 1..3 : \A j \in 1..(k - 1) : x[j] = Targets(stmt.op)[j] /\ x[j] # x[k]
    BY <1>3
  <2> HIDE DEF x
  <2> QED BY <1>1, <1>3, <2>1, <2>2, IntactGathers
<1>5. /\ \A k \in 1..3 : x[k] \in Free
      /\ \A k \in 1..3 : IsSum(a[k]) => "r12" \in Free
      /\ {"rdi", "rsi", "rdx"} \cup {"rax"} \subseteq Free
      /\ {"rdi", "rsi", "rdx"} \cup {"rax"} \subseteq Regs /\ {x[k] : k \in 1..3} \subseteq Regs
  <2>1. CallClobbered \subseteq Free
    BY <1>3, AskParts DEF Free
  <2>2. SavedBy(stmt.op) = {"r12", "r13", "r14"}
    BY SavedSets
  <2>3. \A k \in 1..3 : x[k] \in SavedBy(stmt.op)
    BY <2>2
  <2>4. \A k \in 1..3 : IsSum(a[k]) => "r12" \in Free
    BY <1>1, <1>3, AskParts DEF Free
  <2>5. \A k \in 1..3 : x[k] \in Regs
    BY Names
  <2> HIDE DEF x
  <2>6. \A k \in 1..3 : x[k] \in Free
    BY <2>3 DEF Free
  <2> QED BY <2>1, <2>4, <2>5, <2>6, Names DEF CallClobbered
<1> DEFINE ask == <<Imm("rax", nr), Syscall>>  tail == moves \o ask
<1>6. Plain(moves) /\ Plain(ask)
  BY PlainFew, AllStraight
<1>7. Plain(tail) /\ Body(stmt) = Gather(a, x) \o tail
  <2> HIDE DEF x, moves, ask
  <2>1. Plain(Gather(a, x))
    BY <1>1, <1>4, PlainGather
  <2>2. Body(stmt) = Gather(a, x) \o moves \o ask
    BY <1>2 DEF ask
  <2> QED BY <1>6, <2>1, <2>2, PlainConcat, PlainCode, Assoc
<1>8. ASSUME NEW u, NEW t, NEW v, Gathered(u, t, a, x, 3), Ready(u, t), Leads(tail, t, v)
      PROVE  \E w : v = Do(Syscall, w) /\ Ready(u, w) /\ Asks(w, Request.nr, Request.args)
  <2>1. PICK m : Leads(moves, t, m) /\ Leads(ask, m, v)
    <3> HIDE DEF moves, ask
    <3> QED BY <1>6, <1>8, PlainCode, LeadsThrough
  <2>2. PICK w : w = Do(Imm("rax", nr), m) /\ v = Do(Syscall, w)
    BY <2>1, TwoSteps
  <2>3. PICK b, c : b = Do(Mov("rdi", "r12"), t) /\ c = Do(Mov("rsi", "r13"), b) /\ m = Do(Mov("rdx", "r14"), c)
    BY <2>1, ThreeSteps
  <2>4. t.reg["r12"] = Value(a[1]) /\ t.reg["r13"] = Value(a[2]) /\ t.reg["r14"] = Value(a[3])
    BY <1>8 DEF Gathered
  <2>5. {"r12", "r13", "r14"} \subseteq Regs
    BY Names
  <2> HIDE DEF x, moves, ask
  <2>6. Sets(t, b, "rdi", t.reg["r12"]) /\ Ready(u, b)
    <3>1. \A p, q \in Regs : b = Do(Mov(p, q), t) => Sets(t, b, p, t.reg[q])
      BY <1>8, MovSets DEF Ready
    <3>2. Sets(t, b, "rdi", t.reg["r12"])
      BY <1>5, <2>3, <2>5, <3>1
    <3> QED BY <1>5, <1>8, <3>2, ReadySets
  <2>7. Sets(b, c, "rsi", b.reg["r13"]) /\ Ready(u, c)
    <3>1. \A p, q \in Regs : c = Do(Mov(p, q), b) => Sets(b, c, p, b.reg[q])
      BY <2>6, MovSets DEF Ready
    <3>2. Sets(b, c, "rsi", b.reg["r13"])
      BY <1>5, <2>3, <2>5, <3>1
    <3> QED BY <1>5, <2>6, <3>2, ReadySets
  <2>8. Sets(c, m, "rdx", c.reg["r14"]) /\ Ready(u, m)
    <3>1. \A p, q \in Regs : m = Do(Mov(p, q), c) => Sets(c, m, p, c.reg[q])
      BY <2>7, MovSets DEF Ready
    <3>2. Sets(c, m, "rdx", c.reg["r14"])
      BY <1>5, <2>3, <2>5, <3>1
    <3> QED BY <1>5, <2>7, <3>2, ReadySets
  <2>9. Sets(m, w, "rax", nr) /\ Ready(u, w)
    <3>1. \A p \in Regs : w = Do(Imm(p, nr), m) => Sets(m, w, p, nr)
      BY <2>8, ImmSets DEF Ready
    <3>2. Sets(m, w, "rax", nr)
      BY <1>5, <2>2, <3>1
    <3> QED BY <1>5, <2>8, <3>2, ReadySets
  <2>10. w.reg["rax"] = nr /\ w.reg["rdi"] = Value(a[1]) /\ w.reg["rsi"] = Value(a[2]) /\ w.reg["rdx"] = Value(a[3])
    BY <1>5, <2>4, <2>5, <2>6, <2>7, <2>8, <2>9 DEF Sets, Changes
  <2>11. Asks(w, Request.nr, Request.args)
    BY <1>2, <2>10 DEF Asks, SysArgs
  <2> QED BY <2>2, <2>9, <2>11
<1>9. Len(a) \in {1, 3, 4}
  BY <1>1
<1> HIDE DEF x, tail
<1> QED BY <1>1, <1>3, <1>4, <1>5, <1>7, <1>8, <1>9, GatheredServes

LEMMA EventsDone ==
  ASSUME IsStatement(stmt), stmt.op \in {"epoll_ctl", "epoll_wait"}
  PROVE  Works
<1> DEFINE x == <<"r12", "r13", "r14", "rbx">>  a == stmt.arg
           moves == <<Mov("rdi", "r12"), Mov("rsi", "r13"), Mov("rdx", "r14"), Mov("r10", "rbx")>>
<1>1. Len(a) = 4 /\ DOMAIN a = 1..4
  <2>1. Arity[stmt.op] = {4}
    BY DEF Arity
  <2> QED BY <2>1, Args
<1>2. PICK nr \in Int :
        /\ Body(stmt) = Gather(a, x) \o moves \o <<Imm("rax", nr), Syscall>>
        /\ Request.nr = nr /\ Request.args = <<Value(a[1]), Value(a[2]), Value(a[3]), Value(a[4])>>
  <2>1. Moves(<<"rdi", "rsi", "rdx", "r10">>, x) = moves
    BY DEF Moves
  <2>2. stmt.op = "epoll_ctl" => Body(stmt) = Gather(a, x) \o moves \o <<Imm("rax", 233), Syscall>>
    <3>1. stmt.op = "epoll_ctl" => Body(stmt) = Marshalled(a, Fours, <<"rdi", "rsi", "rdx", "r10">>, 233)
      BY DEF Body, CpuOps, UnaryOps
    <3> HIDE DEF moves
    <3> QED BY <2>1, <3>1 DEF Marshalled, Fours
  <2>3. stmt.op = "epoll_wait" => Body(stmt) = Gather(a, x) \o moves \o <<Imm("rax", 232), Syscall>>
    <3>1. stmt.op = "epoll_wait" => Body(stmt) = Marshalled(a, Fours, <<"rdi", "rsi", "rdx", "r10">>, 232)
      BY DEF Body, CpuOps, UnaryOps
    <3> HIDE DEF moves
    <3> QED BY <2>1, <3>1 DEF Marshalled, Fours
  <2> HIDE DEF x, moves
  <2>4. /\ stmt.op = "epoll_ctl" => Request.nr = 233 /\ Request.args = <<Value(a[1]), Value(a[2]), Value(a[3]), Value(a[4])>>
        /\ stmt.op = "epoll_wait" => Request.nr = 232 /\ Request.args = <<Value(a[1]), Value(a[2]), Value(a[3]), Value(a[4])>>
    BY RequestIs DEF V
  <2>7. 233 \in Int /\ 232 \in Int
    OBVIOUS
  <2> HIDE DEF a
  <2>5. CASE stmt.op = "epoll_ctl"
    <3> WITNESS 233 \in Int
    <3> QED BY <2>2, <2>4, <2>5
  <2>6. CASE stmt.op = "epoll_wait"
    <3> WITNESS 232 \in Int
    <3> QED BY <2>3, <2>4, <2>6
  <2> QED BY <2>5, <2>6
<1>3. /\ stmt.op \in AskOps /\ Memory = StartMem /\ stmt.op \notin BlockOps \cup {"gate_cas"}
      /\ Targets(stmt.op) = x
  <2>1. Memory = StartMem
    BY DEF Memory
  <2>2. Targets(stmt.op) = x
    BY DEF Targets, BlockOps, Fours
  <2> QED BY <2>1, <2>2 DEF AskOps, SystemOps, ReturnOps, BlockOps
<1>4. Gatherable(a, x, 4)
  <2>1. \A k \in 1..4 : x[k] \in UserRegs
    BY DEF UserRegs, Regs
  <2>2. \A k \in 1..4 : \A j \in 1..(k - 1) : x[j] = Targets(stmt.op)[j] /\ x[j] # x[k]
    BY <1>3
  <2> HIDE DEF x
  <2> QED BY <1>1, <1>3, <2>1, <2>2, IntactGathers
<1>5. /\ \A k \in 1..4 : x[k] \in Free
      /\ \A k \in 1..4 : IsSum(a[k]) => "r12" \in Free
      /\ {"rdi", "rsi", "rdx", "r10"} \cup {"rax"} \subseteq Free
      /\ {"rdi", "rsi", "rdx", "r10"} \cup {"rax"} \subseteq Regs /\ {x[k] : k \in 1..4} \subseteq Regs
  <2>1. CallClobbered \subseteq Free
    BY <1>3, AskParts DEF Free
  <2>2. SavedBy(stmt.op) = {"r12", "r13", "r14", "rbx"}
    BY SavedSets
  <2>3. \A k \in 1..4 : x[k] \in SavedBy(stmt.op)
    BY <2>2
  <2>4. \A k \in 1..4 : IsSum(a[k]) => "r12" \in Free
    BY <1>1, <1>3, AskParts DEF Free
  <2>5. \A k \in 1..4 : x[k] \in Regs
    BY Names
  <2> HIDE DEF x
  <2>6. \A k \in 1..4 : x[k] \in Free
    BY <2>3 DEF Free
  <2> QED BY <2>1, <2>4, <2>5, <2>6, Names DEF CallClobbered
<1> DEFINE ask == <<Imm("rax", nr), Syscall>>  tail == moves \o ask
<1>6. Plain(moves) /\ Plain(ask)
  BY PlainFew, AllStraight
<1>7. Plain(tail) /\ Body(stmt) = Gather(a, x) \o tail
  <2> HIDE DEF x, moves, ask
  <2>1. Plain(Gather(a, x))
    BY <1>1, <1>4, PlainGather
  <2>2. Body(stmt) = Gather(a, x) \o moves \o ask
    BY <1>2 DEF ask
  <2> QED BY <1>6, <2>1, <2>2, PlainConcat, PlainCode, Assoc
<1>8. ASSUME NEW u, NEW t, NEW v, Gathered(u, t, a, x, 4), Ready(u, t), Leads(tail, t, v)
      PROVE  \E w : v = Do(Syscall, w) /\ Ready(u, w) /\ Asks(w, Request.nr, Request.args)
  <2>1. PICK m : Leads(moves, t, m) /\ Leads(ask, m, v)
    <3> HIDE DEF moves, ask
    <3> QED BY <1>6, <1>8, PlainCode, LeadsThrough
  <2>2. PICK w : w = Do(Imm("rax", nr), m) /\ v = Do(Syscall, w)
    BY <2>1, TwoSteps
  <2>3. PICK b, c, e : b = Do(Mov("rdi", "r12"), t) /\ c = Do(Mov("rsi", "r13"), b) /\ e = Do(Mov("rdx", "r14"), c) /\ m = Do(Mov("r10", "rbx"), e)
    BY <2>1, FourSteps
  <2>4. t.reg["r12"] = Value(a[1]) /\ t.reg["r13"] = Value(a[2]) /\ t.reg["r14"] = Value(a[3]) /\ t.reg["rbx"] = Value(a[4])
    BY <1>8 DEF Gathered
  <2>5. {"r12", "r13", "r14", "rbx"} \subseteq Regs
    BY Names
  <2> HIDE DEF x, moves, ask
  <2>6. Sets(t, b, "rdi", t.reg["r12"]) /\ Ready(u, b)
    <3>1. \A p, q \in Regs : b = Do(Mov(p, q), t) => Sets(t, b, p, t.reg[q])
      BY <1>8, MovSets DEF Ready
    <3>2. Sets(t, b, "rdi", t.reg["r12"])
      BY <1>5, <2>3, <2>5, <3>1
    <3> QED BY <1>5, <1>8, <3>2, ReadySets
  <2>7. Sets(b, c, "rsi", b.reg["r13"]) /\ Ready(u, c)
    <3>1. \A p, q \in Regs : c = Do(Mov(p, q), b) => Sets(b, c, p, b.reg[q])
      BY <2>6, MovSets DEF Ready
    <3>2. Sets(b, c, "rsi", b.reg["r13"])
      BY <1>5, <2>3, <2>5, <3>1
    <3> QED BY <1>5, <2>6, <3>2, ReadySets
  <2>8. Sets(c, e, "rdx", c.reg["r14"]) /\ Ready(u, e)
    <3>1. \A p, q \in Regs : e = Do(Mov(p, q), c) => Sets(c, e, p, c.reg[q])
      BY <2>7, MovSets DEF Ready
    <3>2. Sets(c, e, "rdx", c.reg["r14"])
      BY <1>5, <2>3, <2>5, <3>1
    <3> QED BY <1>5, <2>7, <3>2, ReadySets
  <2>9. Sets(e, m, "r10", e.reg["rbx"]) /\ Ready(u, m)
    <3>1. \A p, q \in Regs : m = Do(Mov(p, q), e) => Sets(e, m, p, e.reg[q])
      BY <2>8, MovSets DEF Ready
    <3>2. Sets(e, m, "r10", e.reg["rbx"])
      BY <1>5, <2>3, <2>5, <3>1
    <3> QED BY <1>5, <2>8, <3>2, ReadySets
  <2>10. Sets(m, w, "rax", nr) /\ Ready(u, w)
    <3>1. \A p \in Regs : w = Do(Imm(p, nr), m) => Sets(m, w, p, nr)
      BY <2>9, ImmSets DEF Ready
    <3>2. Sets(m, w, "rax", nr)
      BY <1>5, <2>2, <3>1
    <3> QED BY <1>5, <2>9, <3>2, ReadySets
  <2>11. w.reg["rax"] = nr /\ w.reg["rdi"] = Value(a[1]) /\ w.reg["rsi"] = Value(a[2]) /\ w.reg["rdx"] = Value(a[3]) /\ w.reg["r10"] = Value(a[4])
    BY <1>5, <2>4, <2>5, <2>6, <2>7, <2>8, <2>9, <2>10 DEF Sets, Changes
  <2>12. Asks(w, Request.nr, Request.args)
    BY <1>2, <2>11 DEF Asks, SysArgs
  <2> QED BY <2>2, <2>10, <2>12
<1>9. Len(a) \in {1, 3, 4}
  BY <1>1
<1> HIDE DEF x, tail
<1> QED BY <1>1, <1>3, <1>4, <1>5, <1>7, <1>8, <1>9, GatheredServes

\* One register of a request filled in.
LEMMA MovReady ==
  ASSUME NEW u, NEW s, NEW t, Ready(u, s)
  PROVE  \A d \in Regs, q \in Regs : d \in Free /\ t = Do(Mov(d, q), s) => Sets(s, t, d, s.reg[q]) /\ Ready(u, t)
<1> SUFFICES ASSUME NEW d \in Regs, NEW q \in Regs, d \in Free, t = Do(Mov(d, q), s)
             PROVE  Sets(s, t, d, s.reg[q]) /\ Ready(u, t)
  OBVIOUS
<1>1. s \in State
  BY DEF Ready
<1>2. Sets(s, t, d, s.reg[q])
  BY <1>1, MovSets
<1> QED BY <1>2, ReadySets

LEMMA ImmReady ==
  ASSUME NEW u, NEW s, NEW t, NEW n, n \in Int, Ready(u, s)
  PROVE  \A d \in Regs : d \in Free /\ t = Do(Imm(d, n), s) => Sets(s, t, d, n) /\ Ready(u, t)
<1> SUFFICES ASSUME NEW d \in Regs, d \in Free, t = Do(Imm(d, n), s)
             PROVE  Sets(s, t, d, n) /\ Ready(u, t)
  OBVIOUS
<1>1. s \in State
  BY DEF Ready
<1>2. Sets(s, t, d, n)
  BY <1>1, ImmSets
<1> QED BY <1>2, ReadySets

\* Operands, and numbers where a statement names none.
Stands(o, a, k) ==
  \/ k <= Len(a) /\ o = a[k]
  \/ k > Len(a) /\ \E v \in Int : o = Num(v)

Completed(a, b, n) == \A k \in 1..n : Stands(b[k], a, k)

\* What stands there is an operand, and has registers only where the statement names some.
Like(o, a, k) ==
  /\ IsOperand(o)
  /\ IsSum(o) => k \in 1..Len(a) /\ IsSum(a[k])
  /\ RegsOf(o) # {} => k \in 1..Len(a) /\ o = a[k]

LEMMA NumParts ==
  ASSUME NEW v \in Int
  PROVE  IsOperand(Num(v)) /\ RegsOf(Num(v)) = {} /\ ~IsSum(Num(v)) /\ Value(Num(v)) = v
<1>1. IsOperand(Num(v))
  BY DEF IsOperand, Num
<1>2. RegsOf(Num(v)) = {} /\ ~IsSum(Num(v)) /\ Value(Num(v)) = v
  BY DEF RegsOf, Num, IsSum, Value
<1> QED BY <1>1, <1>2

LEMMA CompletedParts ==
  ASSUME NEW a, NEW b, NEW n, Completed(a, b, n), Len(a) \in Nat, n \in Nat,
         \A j \in 1..Len(a) : IsOperand(a[j])
  PROVE  \A k \in 1..n : Like(b[k], a, k)
<1> SUFFICES ASSUME NEW k \in 1..n
             PROVE  Like(b[k], a, k)
  OBVIOUS
<1>1. CASE k <= Len(a) /\ b[k] = a[k]
  <2>1. k \in 1..Len(a)
    BY <1>1
  <2> QED BY <1>1, <2>1 DEF Like
<1>2. CASE k > Len(a) /\ \E v \in Int : b[k] = Num(v)
  BY <1>2, NumParts DEF Like
<1> QED BY <1>1, <1>2 DEF Completed, Stands

LEMMA CompletedGathers ==
  ASSUME NEW a, NEW b, NEW x, NEW n, n \in Nat, Completed(a, b, n), NEW m, m = Len(a), m \in Nat, m <= n,
         Gatherable(a, x, m), \A k \in 1..n : x[k] \in UserRegs /\ \A j \in 1..(k - 1) : x[j] # x[k]
  PROVE  Gatherable(b, x, n)
<1>1. \A k \in 1..n : Like(b[k], a, k)
  <2>1. \A j \in 1..Len(a) : IsOperand(a[j])
    BY DEF Gatherable
  <2> QED BY <2>1, CompletedParts
<1>3. \A k \in 1..m : \A j \in 1..(k - 1) :
        /\ x[j] \notin RegsOf(a[k])
        /\ IsSum(a[j]) => "r12" \notin RegsOf(a[k])
        /\ IsSum(a[k]) => x[j] # "r12"
  BY DEF Gatherable
<1>2. ASSUME NEW k \in 1..n
      PROVE  /\ IsOperand(b[k]) /\ x[k] \in UserRegs
             /\ \A j \in 1..(k - 1) :
                  /\ x[j] \notin RegsOf(b[k]) /\ x[j] # x[k]
                  /\ IsSum(b[j]) => "r12" \notin RegsOf(b[k])
                  /\ IsSum(b[k]) => x[j] # "r12"
  <2>1. /\ IsOperand(b[k])
        /\ IsSum(b[k]) => k \in 1..m /\ IsSum(a[k])
        /\ RegsOf(b[k]) # {} => k \in 1..m /\ b[k] = a[k]
    BY <1>1 DEF Like
  <2>2. ASSUME NEW j \in 1..(k - 1)
        PROVE  /\ x[j] \notin RegsOf(b[k]) /\ x[j] # x[k]
               /\ IsSum(b[j]) => "r12" \notin RegsOf(b[k])
               /\ IsSum(b[k]) => x[j] # "r12"
    <3>1. j \in 1..n
      OBVIOUS
    <3>2. IsSum(b[j]) => j \in 1..m /\ IsSum(a[j])
      BY <1>1, <3>1 DEF Like
    <3>3. k \in 1..m => /\ x[j] \notin RegsOf(a[k])
                        /\ IsSum(a[j]) => "r12" \notin RegsOf(a[k])
                        /\ IsSum(a[k]) => x[j] # "r12"
      BY <1>3
    <3> QED BY <2>1, <3>2, <3>3
  <2> QED BY <2>1, <2>2
<1> QED BY <1>2 DEF Gatherable

LEMMA OrElseWorth ==
  ASSUME NEW k, NEW v, v \in Int
  PROVE  Value(OrElse(stmt.arg, k, v)) = VOr(k, v)
<1>1. CASE k <= Len(stmt.arg)
  BY <1>1 DEF OrElse, VOr, V
<1>2. CASE ~(k <= Len(stmt.arg))
  BY <1>2, NumParts DEF OrElse, VOr
<1> QED BY <1>1, <1>2

LEMMA PlainAssoc ==
  ASSUME NEW g, NEW a, NEW b, Plain(g), Plain(a), Plain(b)
  PROVE  Plain(a \o b) /\ (g \o a) \o b = g \o (a \o b)
BY PlainConcat, PlainCode, Assoc

LEMMA OrElseCompletes ==
  ASSUME NEW a, Len(a) \in Nat
  PROVE  \A k \in Nat, v \in Int : Stands(OrElse(a, k, v), a, k)
<1> SUFFICES ASSUME NEW k \in Nat, NEW v \in Int
             PROVE  Stands(OrElse(a, k, v), a, k)
  OBVIOUS
<1>1. CASE k <= Len(a)
  BY <1>1 DEF OrElse, Stands
<1>2. CASE ~(k <= Len(a))
  BY <1>2 DEF OrElse, Stands
<1> QED BY <1>1, <1>2

\* A mapping: three operands through temporaries, and the numbers where there are none.
LEMMA MapDone ==
  ASSUME IsStatement(stmt), stmt.op = "cell_map"
  PROVE  Works
<1> DEFINE x == <<"r12", "r13", "r14">>  a == stmt.arg  m == Len(a)
           b == <<a[1], OrElse(a, 2, 3), OrElse(a, 3, 34)>>
           p1 == <<Imm("rdi", 0)>>
           p2 == <<Mov("rsi", "r12"), Mov("rdx", "r13"), Mov("r10", "r14")>>
           p3 == <<Imm("r8", Null), Imm("r9", 0), Imm("rax", 9), Syscall>>
           tail == (p1 \o p2) \o p3
<1>1. m \in {1, 2, 3} /\ m \in Nat /\ m <= 3 /\ DOMAIN a = 1..m /\ \A j \in 1..m : IsOperand(a[j])
  <2>1. Arity[stmt.op] = {1, 2, 3}
    BY DEF Arity
  <2> QED BY <2>1, Args
<1>2. Len(b) = 3 /\ DOMAIN b = 1..3
  OBVIOUS
<1>3. Completed(a, b, 3)
  <2>1. b[1] = a[1] /\ b[2] = OrElse(a, 2, 3) /\ b[3] = OrElse(a, 3, 34)
    OBVIOUS
  <2>2. \A k \in 1..3 : k \in {1, 2, 3}
    OBVIOUS
  <2> HIDE DEF b
  <2>7. \A k \in Nat, v \in Int : Stands(OrElse(a, k, v), a, k)
    BY <1>1, OrElseCompletes
  <2>5. 1 <= Len(a)
    <3> HIDE DEF a
    <3> QED BY <1>1 DEF m
  <2> HIDE DEF a, m
  <2>3. Stands(b[2], a, 2)
    BY <2>1, <2>7
  <2>4. Stands(b[3], a, 3)
    BY <2>1, <2>7
  <2>6. Stands(b[1], a, 1)
    BY <2>1, <2>5 DEF Stands
  <2> QED BY <2>2, <2>3, <2>4, <2>6 DEF Completed
<1>4. /\ stmt.op \in AskOps /\ Memory = StartMem /\ stmt.op \notin BlockOps \cup {"gate_cas"}
      /\ Targets(stmt.op) = x
  <2>1. Memory = StartMem
    BY DEF Memory
  <2>2. Targets(stmt.op) = x
    BY DEF Targets, BlockOps, Fours
  <2> QED BY <2>1, <2>2 DEF AskOps, SystemOps, ReturnOps, BlockOps
<1>5. \A k \in 1..3 : x[k] \in UserRegs /\ \A j \in 1..(k - 1) : x[j] = Targets(stmt.op)[j] /\ x[j] # x[k]
  <2>1. \A k \in 1..3 : x[k] \in UserRegs
    BY DEF UserRegs, Regs
  <2>2. \A k \in 1..3 : \A j \in 1..(k - 1) : x[j] # x[k]
    OBVIOUS
  <2> HIDE DEF x
  <2> QED BY <1>4, <2>1, <2>2
<1>6. Gatherable(b, x, 3)
  <2> HIDE DEF x, b
  <2>1. \A k \in 1..m : x[k] \in UserRegs /\ \A j \in 1..(k - 1) : x[j] = Targets(stmt.op)[j] /\ x[j] # x[k]
    BY <1>1, <1>5
  <2>2. Gatherable(a, x, m)
    BY <1>1, <1>4, <2>1, IntactGathers
  <2>3. \A k \in 1..3 : x[k] \in UserRegs /\ \A j \in 1..(k - 1) : x[j] # x[k]
    BY <1>5
  <2> HIDE DEF m
  <2> QED BY <1>1, <1>3, <2>2, <2>3, CompletedGathers DEF m
<1>7. /\ \A k \in 1..3 : x[k] \in Free /\ (IsSum(b[k]) => "r12" \in Free)
      /\ CallClobbered \subseteq Free
  <2>1. CallClobbered \subseteq Free
    BY <1>4, AskParts DEF Free
  <2>2. SavedBy(stmt.op) = {"r12", "r13", "r14"}
    BY SavedSets
  <2>3. \A k \in 1..3 : x[k] \in SavedBy(stmt.op)
    BY <2>2
  <2>4. \A k \in 1..3 : IsSum(b[k]) => "r12" \in Free
    BY <2>2 DEF Free
  <2> HIDE DEF x, b
  <2> QED BY <2>1, <2>3, <2>4 DEF Free
<1>8. Plain(p1) /\ Plain(p2) /\ Plain(p3) /\ Plain(tail)
  <2>1. Plain(p1) /\ Plain(p2) /\ Plain(p3)
    BY PlainFew, AllStraight
  <2> HIDE DEF p1, p2, p3
  <2> QED BY <2>1, PlainConcat
<1>9. Body(stmt) = Gather(b, x) \o tail
  <2>1. Plain(Gather(b, x))
    <3> HIDE DEF b, x
    <3> QED BY <1>2, <1>6, PlainGather
  <2>2. Body(stmt) = CellMap(a)
    BY DEF Body, CpuOps, UnaryOps
  <2>3. CellMap(a) = Gather(b, x) \o p1 \o p2 \o p3
    <3>1. Moves(<<"rsi", "rdx", "r10">>, <<"r12", "r13", "r14">>) = p2
      BY DEF Moves
    <3> HIDE DEF p2
    <3> QED BY <3>1, Zenon DEF CellMap, Fours
  <2> HIDE DEF b, x, p1, p2, p3
  <2>4. Plain(p1 \o p2) /\ (Gather(b, x) \o (p1)) \o p2 = Gather(b, x) \o (p1 \o p2)
    BY <1>8, <2>1, PlainAssoc
  <2>5. Plain((p1 \o p2) \o p3) /\ (Gather(b, x) \o (p1 \o p2)) \o p3 = Gather(b, x) \o ((p1 \o p2) \o p3)
    BY <1>8, <2>1, <2>4, PlainAssoc
  <2> QED BY <2>2, <2>3, <2>4, <2>5, Zenon DEF tail
<1>10. ASSUME NEW u, NEW t, NEW v, Gathered(u, t, b, x, 3), Ready(u, t), Leads(tail, t, v)
       PROVE  \E w : v = Do(Syscall, w) /\ Ready(u, w) /\ Asks(w, Request.nr, Request.args)
  <2>1. PICK m1, m2 : Leads(p1, t, m1) /\ Leads(p2, m1, m2) /\ Leads(p3, m2, v)
    <3> HIDE DEF p1, p2, p3
    <3>1. PICK e2 : Leads(p1 \o p2, t, e2) /\ Leads(p3, e2, v)
      <4>1. IsCode(p1 \o p2) /\ IsCode(p3)
        BY <1>8, PlainConcat, PlainCode
      <4> QED BY <1>10, <4>1, LeadsThrough DEF tail
    <3>2. PICK e1 : Leads(p1, t, e1) /\ Leads(p2, e1, e2)
      <4>1. IsCode(p1) /\ IsCode(p2)
        BY <1>8, PlainConcat, PlainCode
      <4> QED BY <3>1, <4>1, LeadsThrough
    <3> QED BY <3>1, <3>2
  <2>2. m1 = Do(Imm("rdi", 0), t)
    BY <2>1, LeadsOne
  <2>3. PICK s2, s3 : s2 = Do(Mov("rsi", "r12"), m1) /\ s3 = Do(Mov("rdx", "r13"), s2) /\ m2 = Do(Mov("r10", "r14"), s3)
    BY <2>1, ThreeSteps
  <2>4. PICK s5, s6, s7 : s5 = Do(Imm("r8", Null), m2) /\ s6 = Do(Imm("r9", 0), s5) /\ s7 = Do(Imm("rax", 9), s6) /\ v = Do(Syscall, s7)
    BY <2>1, FourSteps
  <2>5. t.reg["r12"] = Value(a[1]) /\ t.reg["r13"] = Value(OrElse(a, 2, 3)) /\ t.reg["r14"] = Value(OrElse(a, 3, 34))
    BY <1>10 DEF Gathered, b, x
  <2>6. {"rax", "r12", "r13", "r14", "rbx"} \subseteq Regs /\ CallClobbered \subseteq Regs
    BY Names DEF CallClobbered
  <2>7. {"rdi", "rsi", "rdx", "r10", "r8", "r9", "rax"} \subseteq CallClobbered
    BY DEF CallClobbered
  <2>8. Null \in Int /\ 0 \in Int /\ 9 \in Int
    BY DEF Null
  <2> HIDE DEF b, x, tail, p1, p2, p3
  <2>9. Sets(t, m1, "rdi", 0) /\ Ready(u, m1)
    <3>1. \A d \in Regs : d \in Free /\ m1 = Do(Imm(d, 0), t) => Sets(t, m1, d, 0) /\ Ready(u, m1)
      BY <1>10, <2>8, ImmReady
    <3> QED BY <1>7, <2>2, <2>6, <2>7, <3>1
  <2>10. Sets(m1, s2, "rsi", m1.reg["r12"]) /\ Ready(u, s2)
    <3>1. \A d \in Regs, q \in Regs : d \in Free /\ s2 = Do(Mov(d, q), m1) => Sets(m1, s2, d, m1.reg[q]) /\ Ready(u, s2)
      BY <2>9, MovReady
    <3> QED BY <1>7, <2>3, <2>6, <2>7, <3>1
  <2>11. Sets(s2, s3, "rdx", s2.reg["r13"]) /\ Ready(u, s3)
    <3>1. \A d \in Regs, q \in Regs : d \in Free /\ s3 = Do(Mov(d, q), s2) => Sets(s2, s3, d, s2.reg[q]) /\ Ready(u, s3)
      BY <2>10, MovReady
    <3> QED BY <1>7, <2>3, <2>6, <2>7, <3>1
  <2>12. Sets(s3, m2, "r10", s3.reg["r14"]) /\ Ready(u, m2)
    <3>1. \A d \in Regs, q \in Regs : d \in Free /\ m2 = Do(Mov(d, q), s3) => Sets(s3, m2, d, s3.reg[q]) /\ Ready(u, m2)
      BY <2>11, MovReady
    <3> QED BY <1>7, <2>3, <2>6, <2>7, <3>1
  <2>13. Sets(m2, s5, "r8", Null) /\ Ready(u, s5)
    <3>1. \A d \in Regs : d \in Free /\ s5 = Do(Imm(d, Null), m2) => Sets(m2, s5, d, Null) /\ Ready(u, s5)
      BY <2>12, <2>8, ImmReady
    <3> QED BY <1>7, <2>4, <2>6, <2>7, <3>1
  <2>14. Sets(s5, s6, "r9", 0) /\ Ready(u, s6)
    <3>1. \A d \in Regs : d \in Free /\ s6 = Do(Imm(d, 0), s5) => Sets(s5, s6, d, 0) /\ Ready(u, s6)
      BY <2>13, <2>8, ImmReady
    <3> QED BY <1>7, <2>4, <2>6, <2>7, <3>1
  <2>15. Sets(s6, s7, "rax", 9) /\ Ready(u, s7)
    <3>1. \A d \in Regs : d \in Free /\ s7 = Do(Imm(d, 9), s6) => Sets(s6, s7, d, 9) /\ Ready(u, s7)
      BY <2>14, <2>8, ImmReady
    <3> QED BY <1>7, <2>4, <2>6, <2>7, <3>1
  <2>16. s7.reg["rax"] = 9 /\ s7.reg["rdi"] = 0 /\ s7.reg["rsi"] = Value(a[1]) /\ s7.reg["rdx"] = Value(OrElse(a, 2, 3)) /\ s7.reg["r10"] = Value(OrElse(a, 3, 34)) /\ s7.reg["r8"] = Null /\ s7.reg["r9"] = 0
    BY <2>5, <2>6, <2>7, <2>9, <2>10, <2>11, <2>12, <2>13, <2>14, <2>15 DEF Sets, Changes
  <2>17. Request.nr = 9 /\ Request.args = <<0, Value(a[1]), Value(OrElse(a, 2, 3)), Value(OrElse(a, 3, 34)), Null, 0>>
    BY RequestIs, OrElseWorth DEF V
  <2>18. Asks(s7, Request.nr, Request.args)
    BY <2>16, <2>17 DEF Asks, SysArgs
  <2> QED BY <2>4, <2>15, <2>18
<1> HIDE DEF x, b, tail
<1>11. Len(b) \in {1, 3, 4}
  BY <1>2
<1> QED BY <1>2, <1>4, <1>6, <1>7, <1>8, <1>9, <1>10, <1>11, GatheredServes

LEMMA MapFileDone ==
  ASSUME IsStatement(stmt), stmt.op = "cell_mapfile"
  PROVE  Works
<1> DEFINE x == <<"r12", "r13", "r14", "rbx">>  a == stmt.arg  m == Len(a)
           b == <<a[1], a[2], OrElse(a, 3, 0), OrElse(a, 4, 3)>>
           p1 == <<Imm("rdi", 0)>>
           p2 == <<Mov("rsi", "r12"), Mov("rdx", "rbx")>>
           p3 == <<Imm("r10", 2)>>
           p4 == <<Mov("r8", "r13"), Mov("r9", "r14")>>
           p5 == <<Imm("rax", 9), Syscall>>
           tail == (((p1 \o p2) \o p3) \o p4) \o p5
<1>1. m \in {2, 3, 4} /\ m \in Nat /\ m <= 4 /\ DOMAIN a = 1..m /\ \A j \in 1..m : IsOperand(a[j])
  <2>1. Arity[stmt.op] = {2, 3, 4}
    BY DEF Arity
  <2> QED BY <2>1, Args
<1>2. Len(b) = 4 /\ DOMAIN b = 1..4
  OBVIOUS
<1>3. Completed(a, b, 4)
  <2>1. b[1] = a[1] /\ b[2] = a[2] /\ b[3] = OrElse(a, 3, 0) /\ b[4] = OrElse(a, 4, 3)
    OBVIOUS
  <2>2. \A k \in 1..4 : k \in {1, 2, 3, 4}
    OBVIOUS
  <2> HIDE DEF b
  <2>7. \A k \in Nat, v \in Int : Stands(OrElse(a, k, v), a, k)
    BY <1>1, OrElseCompletes
  <2>5. 1 <= Len(a) /\ 2 <= Len(a)
    <3> HIDE DEF a
    <3> QED BY <1>1 DEF m
  <2> HIDE DEF a, m
  <2>3. Stands(b[3], a, 3)
    BY <2>1, <2>7
  <2>4. Stands(b[4], a, 4)
    BY <2>1, <2>7
  <2>6. Stands(b[1], a, 1) /\ Stands(b[2], a, 2)
    BY <2>1, <2>5 DEF Stands
  <2> QED BY <2>2, <2>3, <2>4, <2>6 DEF Completed
<1>4. /\ stmt.op \in AskOps /\ Memory = StartMem /\ stmt.op \notin BlockOps \cup {"gate_cas"}
      /\ Targets(stmt.op) = x
  <2>1. Memory = StartMem
    BY DEF Memory
  <2>2. Targets(stmt.op) = x
    BY DEF Targets, BlockOps, Fours
  <2> QED BY <2>1, <2>2 DEF AskOps, SystemOps, ReturnOps, BlockOps
<1>5. \A k \in 1..4 : x[k] \in UserRegs /\ \A j \in 1..(k - 1) : x[j] = Targets(stmt.op)[j] /\ x[j] # x[k]
  <2>1. \A k \in 1..4 : x[k] \in UserRegs
    BY DEF UserRegs, Regs
  <2>2. \A k \in 1..4 : \A j \in 1..(k - 1) : x[j] # x[k]
    OBVIOUS
  <2> HIDE DEF x
  <2> QED BY <1>4, <2>1, <2>2
<1>6. Gatherable(b, x, 4)
  <2> HIDE DEF x, b
  <2>1. \A k \in 1..m : x[k] \in UserRegs /\ \A j \in 1..(k - 1) : x[j] = Targets(stmt.op)[j] /\ x[j] # x[k]
    BY <1>1, <1>5
  <2>2. Gatherable(a, x, m)
    BY <1>1, <1>4, <2>1, IntactGathers
  <2>3. \A k \in 1..4 : x[k] \in UserRegs /\ \A j \in 1..(k - 1) : x[j] # x[k]
    BY <1>5
  <2> HIDE DEF m
  <2> QED BY <1>1, <1>3, <2>2, <2>3, CompletedGathers DEF m
<1>7. /\ \A k \in 1..4 : x[k] \in Free /\ (IsSum(b[k]) => "r12" \in Free)
      /\ CallClobbered \subseteq Free
  <2>1. CallClobbered \subseteq Free
    BY <1>4, AskParts DEF Free
  <2>2. SavedBy(stmt.op) = {"r12", "r13", "r14", "rbx"}
    BY SavedSets
  <2>3. \A k \in 1..4 : x[k] \in SavedBy(stmt.op)
    BY <2>2
  <2>4. \A k \in 1..4 : IsSum(b[k]) => "r12" \in Free
    BY <2>2 DEF Free
  <2> HIDE DEF x, b
  <2> QED BY <2>1, <2>3, <2>4 DEF Free
<1>8. Plain(p1) /\ Plain(p2) /\ Plain(p3) /\ Plain(p4) /\ Plain(p5) /\ Plain(tail)
  <2>1. Plain(p1) /\ Plain(p2) /\ Plain(p3) /\ Plain(p4) /\ Plain(p5)
    BY PlainFew, AllStraight
  <2> HIDE DEF p1, p2, p3, p4, p5
  <2> QED BY <2>1, PlainConcat
<1>9. Body(stmt) = Gather(b, x) \o tail
  <2>1. Plain(Gather(b, x))
    <3> HIDE DEF b, x
    <3> QED BY <1>2, <1>6, PlainGather
  <2>2. Body(stmt) = CellMapFile(a)
    BY DEF Body, CpuOps, UnaryOps
  <2>3. CellMapFile(a) = Gather(b, x) \o p1 \o p2 \o p3 \o p4 \o p5
    <3>1. Moves(<<"rsi", "rdx">>, <<"r12", "rbx">>) = p2
      BY DEF Moves
    <3>2. Moves(<<"r8", "r9">>, <<"r13", "r14">>) = p4
      BY DEF Moves
    <3> HIDE DEF p2, p4
    <3> QED BY <3>1, <3>2, Zenon DEF CellMapFile, Fours
  <2> DEFINE g == Gather(b, x)  q2 == p1 \o p2  q3 == q2 \o p3  q4 == q3 \o p4  q5 == q4 \o p5
  <2>9. tail = q5
    BY Zenon
  <2> HIDE DEF b, x, p1, p2, p3, p4, p5, tail, g
  <2>4. Plain(q2) /\ (g \o p1) \o p2 = g \o q2
    BY <1>8, <2>1, PlainAssoc DEF g
  <2> HIDE DEF q2
  <2>5. Plain(q3) /\ (g \o q2) \o p3 = g \o q3
    BY <1>8, <2>1, <2>4, PlainAssoc DEF g
  <2> HIDE DEF q3
  <2>6. Plain(q4) /\ (g \o q3) \o p4 = g \o q4
    BY <1>8, <2>1, <2>5, PlainAssoc DEF g
  <2> HIDE DEF q4
  <2>7. Plain(q5) /\ (g \o q4) \o p5 = g \o q5
    BY <1>8, <2>1, <2>6, PlainAssoc DEF g
  <2> HIDE DEF q5
  <2> QED BY <2>2, <2>3, <2>4, <2>5, <2>6, <2>7, <2>9, Zenon DEF g
<1>10. ASSUME NEW u, NEW t, NEW v, Gathered(u, t, b, x, 4), Ready(u, t), Leads(tail, t, v)
       PROVE  \E w : v = Do(Syscall, w) /\ Ready(u, w) /\ Asks(w, Request.nr, Request.args)
  <2>1. PICK m1, m2, m3, m4 : Leads(p1, t, m1) /\ Leads(p2, m1, m2) /\ Leads(p3, m2, m3) /\ Leads(p4, m3, m4) /\ Leads(p5, m4, v)
    <3> HIDE DEF p1, p2, p3, p4, p5
    <3>1. PICK e4 : Leads(((p1 \o p2) \o p3) \o p4, t, e4) /\ Leads(p5, e4, v)
      <4>1. IsCode(((p1 \o p2) \o p3) \o p4) /\ IsCode(p5)
        BY <1>8, PlainConcat, PlainCode
      <4> QED BY <1>10, <4>1, LeadsThrough DEF tail
    <3>2. PICK e3 : Leads((p1 \o p2) \o p3, t, e3) /\ Leads(p4, e3, e4)
      <4>1. IsCode((p1 \o p2) \o p3) /\ IsCode(p4)
        BY <1>8, PlainConcat, PlainCode
      <4> QED BY <3>1, <4>1, LeadsThrough
    <3>3. PICK e2 : Leads(p1 \o p2, t, e2) /\ Leads(p3, e2, e3)
      <4>1. IsCode(p1 \o p2) /\ IsCode(p3)
        BY <1>8, PlainConcat, PlainCode
      <4> QED BY <3>2, <4>1, LeadsThrough
    <3>4. PICK e1 : Leads(p1, t, e1) /\ Leads(p2, e1, e2)
      <4>1. IsCode(p1) /\ IsCode(p2)
        BY <1>8, PlainConcat, PlainCode
      <4> QED BY <3>3, <4>1, LeadsThrough
    <3> QED BY <3>1, <3>2, <3>3, <3>4
  <2>2. m1 = Do(Imm("rdi", 0), t)
    BY <2>1, LeadsOne
  <2>3. PICK s2 : s2 = Do(Mov("rsi", "r12"), m1) /\ m2 = Do(Mov("rdx", "rbx"), s2)
    BY <2>1, TwoSteps
  <2>4. m3 = Do(Imm("r10", 2), m2)
    BY <2>1, LeadsOne
  <2>5. PICK s5 : s5 = Do(Mov("r8", "r13"), m3) /\ m4 = Do(Mov("r9", "r14"), s5)
    BY <2>1, TwoSteps
  <2>6. PICK s7 : s7 = Do(Imm("rax", 9), m4) /\ v = Do(Syscall, s7)
    BY <2>1, TwoSteps
  <2>7. t.reg["r12"] = Value(a[1]) /\ t.reg["r13"] = Value(a[2]) /\ t.reg["r14"] = Value(OrElse(a, 3, 0)) /\ t.reg["rbx"] = Value(OrElse(a, 4, 3))
    BY <1>10 DEF Gathered, b, x
  <2>8. {"rax", "r12", "r13", "r14", "rbx"} \subseteq Regs /\ CallClobbered \subseteq Regs
    BY Names DEF CallClobbered
  <2>9. {"rdi", "rsi", "rdx", "r10", "r8", "r9", "rax"} \subseteq CallClobbered
    BY DEF CallClobbered
  <2>10. 0 \in Int /\ 2 \in Int /\ 9 \in Int
    OBVIOUS
  <2> HIDE DEF b, x, tail, p1, p2, p3, p4, p5
  <2>11. Sets(t, m1, "rdi", 0) /\ Ready(u, m1)
    <3>1. \A d \in Regs : d \in Free /\ m1 = Do(Imm(d, 0), t) => Sets(t, m1, d, 0) /\ Ready(u, m1)
      BY <1>10, <2>10, ImmReady
    <3> QED BY <1>7, <2>2, <2>8, <2>9, <3>1
  <2>12. Sets(m1, s2, "rsi", m1.reg["r12"]) /\ Ready(u, s2)
    <3>1. \A d \in Regs, q \in Regs : d \in Free /\ s2 = Do(Mov(d, q), m1) => Sets(m1, s2, d, m1.reg[q]) /\ Ready(u, s2)
      BY <2>11, MovReady
    <3> QED BY <1>7, <2>3, <2>8, <2>9, <3>1
  <2>13. Sets(s2, m2, "rdx", s2.reg["rbx"]) /\ Ready(u, m2)
    <3>1. \A d \in Regs, q \in Regs : d \in Free /\ m2 = Do(Mov(d, q), s2) => Sets(s2, m2, d, s2.reg[q]) /\ Ready(u, m2)
      BY <2>12, MovReady
    <3> QED BY <1>7, <2>3, <2>8, <2>9, <3>1
  <2>14. Sets(m2, m3, "r10", 2) /\ Ready(u, m3)
    <3>1. \A d \in Regs : d \in Free /\ m3 = Do(Imm(d, 2), m2) => Sets(m2, m3, d, 2) /\ Ready(u, m3)
      BY <2>13, <2>10, ImmReady
    <3> QED BY <1>7, <2>4, <2>8, <2>9, <3>1
  <2>15. Sets(m3, s5, "r8", m3.reg["r13"]) /\ Ready(u, s5)
    <3>1. \A d \in Regs, q \in Regs : d \in Free /\ s5 = Do(Mov(d, q), m3) => Sets(m3, s5, d, m3.reg[q]) /\ Ready(u, s5)
      BY <2>14, MovReady
    <3> QED BY <1>7, <2>5, <2>8, <2>9, <3>1
  <2>16. Sets(s5, m4, "r9", s5.reg["r14"]) /\ Ready(u, m4)
    <3>1. \A d \in Regs, q \in Regs : d \in Free /\ m4 = Do(Mov(d, q), s5) => Sets(s5, m4, d, s5.reg[q]) /\ Ready(u, m4)
      BY <2>15, MovReady
    <3> QED BY <1>7, <2>5, <2>8, <2>9, <3>1
  <2>17. Sets(m4, s7, "rax", 9) /\ Ready(u, s7)
    <3>1. \A d \in Regs : d \in Free /\ s7 = Do(Imm(d, 9), m4) => Sets(m4, s7, d, 9) /\ Ready(u, s7)
      BY <2>16, <2>10, ImmReady
    <3> QED BY <1>7, <2>6, <2>8, <2>9, <3>1
  <2>18. s7.reg["rax"] = 9 /\ s7.reg["rdi"] = 0 /\ s7.reg["rsi"] = Value(a[1]) /\ s7.reg["rdx"] = Value(OrElse(a, 4, 3)) /\ s7.reg["r10"] = 2 /\ s7.reg["r8"] = Value(a[2]) /\ s7.reg["r9"] = Value(OrElse(a, 3, 0))
    BY <2>7, <2>8, <2>9, <2>11, <2>12, <2>13, <2>14, <2>15, <2>16, <2>17 DEF Sets, Changes
  <2>19. Request.nr = 9 /\ Request.args = <<0, Value(a[1]), Value(OrElse(a, 4, 3)), 2, Value(a[2]), Value(OrElse(a, 3, 0))>>
    BY RequestIs, OrElseWorth DEF V
  <2>20. Asks(s7, Request.nr, Request.args)
    BY <2>18, <2>19 DEF Asks, SysArgs
  <2> QED BY <2>6, <2>17, <2>20
<1> HIDE DEF x, b, tail
<1>11. Len(b) \in {1, 3, 4}
  BY <1>2
<1> QED BY <1>2, <1>4, <1>6, <1>7, <1>8, <1>9, <1>10, <1>11, GatheredServes

\* The first operand waits on the stack for the second.
LEMMA FreeDone ==
  ASSUME IsStatement(stmt), stmt.op = "cell_free"
  PROVE  Works
<1> DEFINE x == stmt.arg[1]  y == stmt.arg[2]
           keep == <<Push(Temp)>>  ask == <<Pop("rdi"), Imm("rax", 11), Syscall>>
<1>1. /\ IsOperand(x) /\ IsOperand(y) /\ {"rdi", "rsi", "rax", "r11", "r12", Temp} \subseteq Regs
      /\ IsSum(x) => "r12" \notin RegsOf(y)
      /\ IsSum(x) \/ IsSum(y) => "r12" \in Free
  <2>1. Arity[stmt.op] = {2}
    BY DEF Arity
  <2>2. RegsOf(y) \cap Written(stmt, 2) = {} /\ (IsSum(x) => "r12" \in Written(stmt, 2))
    BY <2>1, TwoOperands DEF Intact
  <2> QED BY <2>1, <2>2, TwoOperands, Names DEF Free
<1>2. /\ stmt.op \in AskOps /\ Memory = StartMem
      /\ Body(stmt) = Eval(x, Temp) \o keep \o Via(y, "rsi") \o ask
      /\ Request.nr = 11 /\ Request.args = <<Value(x), Value(y)>>
  <2>1. Body(stmt) = CellFree(stmt.arg)
    BY DEF Body, CpuOps, UnaryOps
  <2>2. Memory = StartMem
    BY DEF Memory
  <2> QED BY <2>1, <2>2, RequestIs DEF CellFree, AskOps, SystemOps, ReturnOps, V
<1>3. {"rdi", "rsi", "rax"} \subseteq Free
  <2>1. CallClobbered \subseteq Free
    BY <1>2, AskParts DEF Free
  <2> QED BY <2>1 DEF CallClobbered
<1>4. Plain(Eval(x, Temp)) /\ Plain(Via(y, "rsi")) /\ Plain(keep) /\ Plain(ask)
  <2>1. Plain(Eval(x, Temp)) /\ Plain(Via(y, "rsi"))
    BY <1>1, PlainEval, PlainVia
  <2>2. Plain(keep) /\ Plain(ask)
    BY PlainFew, AllStraight
  <2> QED BY <2>1, <2>2
<1>5. ASSUME NEW u, NEW v, Entered(u), Leads(Body(stmt), u, v)
      PROVE  \E w : v = Do(Syscall, w) /\ Ready(u, w) /\ Asks(w, Request.nr, Request.args)
  <2>1. PICK a, b, c : /\ Leads(Eval(x, Temp), u, a) /\ Leads(keep, a, b) /\ Leads(Via(y, "rsi"), b, c)
                       /\ Leads(ask, c, v)
    <3> HIDE DEF keep, ask
    <3> QED BY <1>2, <1>4, <1>5, LeadsFour
  <2>2. b = Do(Push(Temp), a)
    BY <2>1, LeadsOne
  <2>3. PICK d, w : d = Do(Pop("rdi"), c) /\ w = Do(Imm("rax", 11), d) /\ v = Do(Syscall, w)
    BY <2>1, ThreeSteps
  <2> HIDE DEF keep, ask
  <2>4. u.stack \in Seq(Int)
    BY <1>5, Begins
  <2>5. /\ a \in State /\ a.stack = u.stack /\ a.mem = StartMem /\ a.calls = <<>>
        /\ a.reg[Temp] = Value(x) /\ Value(x) \in Int
        /\ \A q \in Regs \ Borrowed(x, Temp) : a.reg[q] = Start[q]
    BY <1>1, <1>5, <2>1, FirstOperand
  <2>6. \A q \in Regs : b = Do(Push(q), a) =>
          /\ b \in State /\ b.stack = Append(a.stack, a.reg[q]) /\ b.reg = a.reg /\ b.mem = a.mem
          /\ b.calls = a.calls
    BY <2>5, PushParts
  <2>7. b \in State /\ b.stack = Append(u.stack, Value(x)) /\ b.reg = a.reg /\ b.mem = StartMem /\ b.calls = <<>>
    BY <1>1, <2>2, <2>5, <2>6
  <2>8. \A q \in UserRegs : (IsSum(x) /\ q = "r12") \/ b.reg[q] = Start[q]
    BY <2>5, <2>7, Names DEF Borrowed
  <2>9. Fresh(b, y)
    BY <1>1, <2>8, OperandRegs DEF Fresh
  <2>10. \A q \in Regs : Leads(Via(y, q), b, c) =>
           Changes(b, c, Borrowed(y, Temp) \cup {q}) /\ c.reg[q] = Value(y) /\ Value(y) \in Int
    BY <2>7, <2>9, ViaIntact
  <2>11. Changes(b, c, Borrowed(y, Temp) \cup {"rsi"}) /\ c.reg["rsi"] = Value(y) /\ Value(y) \in Int
    BY <1>1, <2>1, <2>10
  <2>12. c \in State /\ Topped(c, u.stack, Value(x)) /\ c.mem = StartMem /\ c.calls = <<>>
    BY <2>4, <2>5, <2>7, <2>11 DEF Changes, Topped
  <2>13. \A q \in UserRegs \ Free : c.reg[q] = Start[q]
    BY <1>1, <1>3, <2>8, <2>11, Names DEF Changes, Borrowed
  <2>14. \A q \in Regs : \A k, n : d = Do(Pop(q), c) /\ Topped(c, k, n) => Popped(c, d, q, k, n)
    BY <2>12, PopParts
  <2>15. Popped(c, d, "rdi", u.stack, Value(x))
    BY <1>1, <2>3, <2>12, <2>14
  <2>16. Ready(u, d) /\ d.reg["rdi"] = Value(x) /\ d.reg["rsi"] = Value(y)
    <3>1. d \in State /\ d.stack = u.stack /\ d.mem = StartMem /\ d.calls = <<>> /\ d.reg["rdi"] = Value(x)
      BY <2>12, <2>15 DEF Popped, Goes
    <3>2. d.reg["rsi"] = Value(y)
      BY <1>1, <2>11, <2>15 DEF Popped, Goes
    <3>3. \A q \in UserRegs \ Free : d.reg[q] = Start[q]
      BY <1>3, <2>13, <2>15, Names DEF Popped, Goes
    <3> QED BY <3>1, <3>2, <3>3 DEF Ready, Free
  <2>17. Sets(d, w, "rax", 11) /\ Ready(u, w)
    <3>1. 11 \in Int
      OBVIOUS
    <3>2. \A q \in Regs : q \in Free /\ w = Do(Imm(q, 11), d) => Sets(d, w, q, 11) /\ Ready(u, w)
      BY <2>16, <3>1, ImmReady
    <3> QED BY <1>1, <1>3, <2>3, <3>2
  <2>18. w.reg["rax"] = 11 /\ w.reg["rdi"] = Value(x) /\ w.reg["rsi"] = Value(y)
    BY <1>1, <2>16, <2>17 DEF Sets, Changes
  <2>19. Asks(w, Request.nr, Request.args)
    BY <1>2, <2>18 DEF Asks, SysArgs
  <2> QED BY <2>3, <2>17, <2>19
<1>6. Plain(Body(stmt))
  BY <1>2, <1>4, PlainConcat
<1> HIDE DEF keep, ask
<1> QED BY <1>2, <1>5, <1>6, CallServes

-----------------------------------------------------------------------------
(* The compare-and-swap.                                                   *)

LEMMA MovAny ==
  ASSUME NEW s, NEW t, s \in State
  PROVE  \A d, r \in Regs : t = Do(Mov(d, r), s) => Changes(s, t, {d}) /\ t.reg[d] = s.reg[r]
<1>1. ASSUME NEW d \in Regs, NEW r \in Regs, t = Do(Mov(d, r), s)
      PROVE  Changes(s, t, {d}) /\ t.reg[d] = s.reg[r]
  BY <1>1, MovParts
<1> QED BY <1>1

\* A move that is made if yes.
MovedIf(yes, d, r, s, t) ==
  Leads(IF yes THEN <<Mov(d, r)>> ELSE <<>>, s, t) =>
    Changes(s, t, {d}) /\ (yes => t.reg[d] = s.reg[r]) /\ (~yes => t = s)

LEMMA MovSome ==
  ASSUME NEW s, NEW t, NEW yes, s \in State
  PROVE  \A d, r \in Regs : MovedIf(yes, d, r, s, t)
<1> SUFFICES ASSUME NEW d \in Regs, NEW r \in Regs, Leads(IF yes THEN <<Mov(d, r)>> ELSE <<>>, s, t)
             PROVE  Changes(s, t, {d}) /\ (yes => t.reg[d] = s.reg[r]) /\ (~yes => t = s)
  BY DEF MovedIf
<1>1. CASE yes
  <2>1. t = Do(Mov(d, r), s)
    BY <1>1, LeadsOne
  <2> QED BY <1>1, <2>1, MovParts
<1>2. CASE ~yes
  <2>1. t = s
    BY <1>2, LeadsNone
  <2> QED BY <1>2, <2>1 DEF Changes
<1> QED BY <1>1, <1>2

LEMMA PlainSome ==
  ASSUME NEW d, NEW r, NEW yes
  PROVE  Plain(IF yes THEN <<Mov(d, r)>> ELSE <<>>)
BY PlainFew, AllStraight

\* Whether or not the cell holds what rax does, rax holds afterwards what the cell held.
Exchanges(s, t, a, r) ==
  /\ t \in State /\ t.stack = s.stack /\ t.calls = s.calls
  /\ t.mem = [s.mem EXCEPT ![a] = IF s.mem[a] = s.reg["rax"] THEN s.reg[r] ELSE s.mem[a]]
  /\ t.reg["rax"] = s.mem[a]
  /\ \A q \in Regs \ {"rax"} : t.reg[q] = s.reg[q]

LEMMA CmpxchgParts ==
  ASSUME NEW s, NEW b, NEW r, NEW t, s \in State, b \in Regs, r \in Regs, t = Do(LockCmpxchg(b, r), s)
  PROVE  Exchanges(s, t, Cell(s.reg[b]), r)
<1> DEFINE a == Cell(s.reg[b])
           g == IF s.mem[a] = s.reg["rax"] THEN s.reg ELSE [s.reg EXCEPT !["rax"] = s.mem[a]]
           m == IF s.mem[a] = s.reg["rax"] THEN [s.mem EXCEPT ![a] = s.reg[r]] ELSE s.mem
           z == s.mem[a] = s.reg["rax"]
<1>1. t = Config(g, s.stack, m, z, s.calls)
  <2>1. t = Exchange(s, LockCmpxchg(b, r)) /\ LockCmpxchg(b, r).b = b /\ LockCmpxchg(b, r).s = r
    BY DoIs DEF LockCmpxchg
  <2> QED BY <2>1, Zenon DEF Exchange
<1>2. a \in Cells
  BY StateParts, CellParts
<1> HIDE DEF a
<1>3. s.mem[a] \in Int /\ s.reg[r] \in Int /\ s.reg \in [Regs -> Int] /\ s.mem \in [Cells -> Int] /\ "rax" \in Regs
      /\ s.stack \in Seq(Int) /\ s.calls \in Seq(Requests)
  BY <1>2, StateParts, Names
<1>4. /\ g \in [Regs -> Int] /\ g["rax"] = s.mem[a]
      /\ \A q \in Regs \ {"rax"} : g[q] = s.reg[q]
  BY <1>3
<1>5. m \in [Cells -> Int] /\ m = [s.mem EXCEPT ![a] = IF s.mem[a] = s.reg["rax"] THEN s.reg[r] ELSE s.mem[a]]
  BY <1>2, <1>3
<1>6. z \in BOOLEAN
  OBVIOUS
<1> HIDE DEF g, m, z
<1>7. t.reg = g /\ t.mem = m /\ t.stack = s.stack /\ t.calls = s.calls /\ t \in State
  BY <1>1, <1>3, <1>4, <1>5, <1>6 DEF Config, State
<1> QED BY <1>4, <1>5, <1>7 DEF Exchanges, a

\* The operands of gate:cas are registers; the value expected is not where the address is,
\* and neither it nor the value desired is where they pass through.
LEMMA GateParts ==
  ASSUME IsStatement(stmt), stmt.op = "gate_cas", NEW x, NEW y, NEW z,
         x = stmt.arg[1].a, y = stmt.arg[2].a, z = stmt.arg[3].a
  PROVE  /\ {x, y, z} \subseteq UserRegs
         /\ x # y /\ {y, z} \cap {"r12", "r13"} = {}
         /\ V(1) = Start[x] /\ V(2) = Start[y] /\ V(3) = Start[z]
         /\ Body(stmt) = GateCas(x, y, z)
         /\ stmt.op \notin ReturnOps /\ SavedBy(stmt.op) = {} /\ {y, "r12", "r13"} \subseteq Changed
         /\ Memory = [StartMem EXCEPT ![Cell(V(1))] = IF StartMem[Cell(V(1))] = V(2) THEN V(3) ELSE StartMem[Cell(V(1))]]
         /\ Effect(Start[stmt.dest]) <=> reg[y] = StartMem[Cell(V(1))]
<1> DEFINE o == stmt.arg
<1>1. Len(o) = 3 /\ DOMAIN o = 1..3
  <2>1. Arity[stmt.op] = {3}
    BY DEF Arity
  <2> QED BY <2>1, Args
<1>2. \A k \in 1..3 : IsOperand(o[k]) /\ o[k].kind = "reg" /\ o[k].a \in UserRegs /\ RegsOf(o[k]) = {o[k].a}
                      /\ o[k] = Reg(o[k].a)
  <2>1. RegisterArgs(stmt.op) = {1, 2, 3}
    BY DEF RegisterArgs, BlockOps
  <2>2. \A k \in 1..3 : IsOperand(o[k]) /\ o[k].kind = "reg"
    BY <1>1, <2>1, Args DEF IsStatement, WellFormed
  <2>3. ASSUME NEW p, IsOperand(p), p.kind = "reg" PROVE p = Reg(p.a)
    BY <2>3 DEF IsOperand, Reg, Num, Sum
  <2> QED BY <2>2, <2>3, OperandRegs
<1>3. x # y
  <2>1. o[1] # o[2]
    BY DEF IsStatement, Apart
  <2> QED BY <1>2, <2>1
<1>4. {y, z} \cap {"r12", "r13"} = {}
  <2>1. First(stmt) = {"r12", "r13"}
    BY DEF First
  <2>2. \A k \in 2..3 : Intact(stmt, k) /\ First(stmt) \subseteq Written(stmt, k)
    BY <1>1, Args DEF Written, Live
  <2>3. \A k \in 2..3 : RegsOf(o[k]) \cap {"r12", "r13"} = {}
    BY <2>1, <2>2 DEF Intact
  <2> QED BY <1>2, <2>3
<1>5. V(1) = Start[x] /\ V(2) = Start[y] /\ V(3) = Start[z]
  BY <1>2 DEF V, Value
<1>6. Body(stmt) = GateCas(x, y, z)
  BY DEF Body, CpuOps, UnaryOps
<1>7. SavedBy(stmt.op) = {} /\ stmt.op \notin ReturnOps
  BY SavedSets DEF ReturnOps
<1>8. {y, "r12", "r13"} \subseteq Changed
  BY DEF Changed, SystemOps, ReturnOps
<1>9. Memory = [StartMem EXCEPT ![Cell(V(1))] = IF StartMem[Cell(V(1))] = V(2) THEN V(3) ELSE StartMem[Cell(V(1))]]
  <2>1. Memory = [StartMem EXCEPT ![Cell(V(1))] = IF @ = V(2) THEN V(3) ELSE @]
    BY DEF Memory
  <2> QED BY <2>1
<1>10. Effect(Start[stmt.dest]) <=> reg[y] = StartMem[Cell(V(1))]
  BY DEF Effect, ResultOps, CpuOps, UnaryOps, SystemOps, ReturnOps
<1> QED BY <1>2, <1>3, <1>4, <1>5, <1>6, <1>7, <1>8, <1>9, <1>10

LEMMA GateDone ==
  ASSUME IsStatement(stmt), stmt.op = "gate_cas"
  PROVE  Works
<1> DEFINE x == stmt.arg[1].a  y == stmt.arg[2].a  z == stmt.arg[3].a
           keeps == x # "rax" /\ y # "rax"
           moved == z \in {"rax", "r11", "r13"}
           from == IF moved THEN "r12" ELSE z
           c1 == <<Mov("r11", x)>>
           c2 == IF keeps THEN <<Mov("r13", "rax")>> ELSE <<>>
           c3 == IF moved THEN <<Mov("r12", z)>> ELSE <<>>
           c4 == Copy("rax", y)
           c5 == <<LockCmpxchg("r11", from)>>
           c6 == Copy(y, "rax")
           c7 == IF x = "rax" THEN <<Mov("rax", "r11")>> ELSE IF keeps THEN <<Mov("rax", "r13")>> ELSE <<>>
           at == Cell(Start[x])
<1>0. /\ {x, y, z} \subseteq UserRegs
      /\ x # y /\ {y, z} \cap {"r12", "r13"} = {}
      /\ V(1) = Start[x] /\ V(2) = Start[y] /\ V(3) = Start[z]
      /\ Body(stmt) = GateCas(x, y, z)
      /\ stmt.op \notin ReturnOps /\ SavedBy(stmt.op) = {} /\ {y, "r12", "r13"} \subseteq Changed
      /\ Memory = [StartMem EXCEPT ![Cell(V(1))] = IF StartMem[Cell(V(1))] = V(2) THEN V(3) ELSE StartMem[Cell(V(1))]]
      /\ Effect(Start[stmt.dest]) <=> reg[y] = StartMem[Cell(V(1))]
  BY GateParts
<1>1. /\ {x, y, z, "rax", "r11", "r12", "r13"} \subseteq Regs /\ y \notin {"r11", "r12", "r13"}
      /\ z \notin {"r11", "r12", "r13"} /\ x # "r11"
  BY <1>0, Names
<1>2. Body(stmt) = c1 \o c2 \o c3 \o c4 \o c5 \o c6 \o c7
  BY <1>0, Zenon DEF GateCas
<1>3. Plain(c1) /\ Plain(c2) /\ Plain(c3) /\ Plain(c4) /\ Plain(c5) /\ Plain(c6) /\ Plain(c7)
  <2>1. Plain(c1) /\ Plain(c5)
    BY PlainFew, AllStraight
  <2>2. Plain(c2) /\ Plain(c3)
    BY PlainSome
  <2>3. Plain(c4) /\ Plain(c6) /\ Plain(c7)
    BY PlainFew, AllStraight DEF Copy
  <2> QED BY <2>1, <2>2, <2>3
<1>4. from \in Regs /\ from # "rax" /\ from # "r11" /\ from # "r13" /\ (~moved => from = z) /\ (moved => from = "r12")
  BY <1>1
<1>5. ASSUME NEW u, NEW v, Entered(u), Leads(Body(stmt), u, v)
      PROVE  Served(u, v)
  <2>1. PICK a, b, c, d, e, f :
          /\ Leads(c1, u, a) /\ Leads(c2, a, b) /\ Leads(c3, b, c) /\ Leads(c4, c, d) /\ Leads(c5, d, e)
          /\ Leads(c6, e, f) /\ Leads(c7, f, v)
    <3> HIDE DEF c1, c2, c3, c4, c5, c6, c7
    <3> DEFINE all == c1 \o c2 \o c3 \o c4 \o c5
    <3>1. Plain(all)
      BY <1>3, PlainConcat
    <3>2. Leads(all \o c6 \o c7, u, v)
      BY <1>2, <1>5
    <3>3. PICK e, f : Leads(all, u, e) /\ Leads(c6, e, f) /\ Leads(c7, f, v)
      <4> HIDE DEF all
      <4> QED BY <1>3, <3>1, <3>2, LeadsThree
    <3> QED BY <1>3, <3>3, LeadsFive
  <2>2. u \in State /\ u.reg = Start /\ u.mem = StartMem /\ u.calls = <<>>
    BY <1>5, Begins
  <2>3. Changes(u, a, {"r11"}) /\ a.reg["r11"] = Start[x]
    <3>1. a = Do(Mov("r11", x), u)
      BY <2>1, LeadsOne
    <3>0. u \in State
      BY <2>2
    <3>2. \A r, q \in Regs : a = Do(Mov(r, q), u) => Changes(u, a, {r}) /\ a.reg[r] = u.reg[q]
      BY <3>0, MovAny
    <3> QED BY <1>1, <2>2, <3>1, <3>2
  <2>4. Changes(a, b, {"r13"}) /\ (keeps => b.reg["r13"] = a.reg["rax"])
    <3> HIDE DEF keeps
    <3>1. a \in State
      BY <2>3 DEF Changes
    <3>2. \A r, q \in Regs : MovedIf(keeps, r, q, a, b)
      BY <3>1, MovSome
    <3> QED BY <1>1, <2>1, <3>2 DEF MovedIf
  <2>5. Changes(b, c, {"r12"}) /\ (moved => c.reg["r12"] = b.reg[z])
    <3> HIDE DEF moved
    <3>1. b \in State
      BY <2>4 DEF Changes
    <3>2. \A r, q \in Regs : MovedIf(moved, r, q, b, c)
      BY <3>1, MovSome
    <3> QED BY <1>1, <2>1, <3>2 DEF MovedIf
  <2> HIDE DEF keeps, moved, c1, c2, c3, c5, c7, from
  <2>6. Changes(c, d, {"rax"}) /\ d.reg["rax"] = c.reg[y]
    <3>1. \A r \in Regs : \A q \in Regs : Leads(Copy(r, q), c, d) => Changes(c, d, {r}) /\ d.reg[r] = c.reg[q]
      BY <2>5, CopyLeads DEF Changes
    <3> QED BY <1>1, <2>1, <3>1
  <2>7. /\ d \in State /\ d.mem = StartMem /\ d.stack = u.stack /\ d.calls = <<>>
        /\ d.reg["rax"] = Start[y] /\ d.reg["r11"] = Start[x] /\ d.reg[from] = Start[z]
        /\ keeps => d.reg["r13"] = Start["rax"]
        /\ \A q \in UserRegs \ {"rax", "r12", "r13"} : d.reg[q] = Start[q]
    <3>1. d \in State /\ d.mem = StartMem /\ d.stack = u.stack /\ d.calls = <<>>
      BY <2>2, <2>3, <2>4, <2>5, <2>6 DEF Changes
    <3>2. d.reg["rax"] = Start[y] /\ d.reg["r11"] = Start[x]
      BY <1>1, <2>2, <2>3, <2>4, <2>5, <2>6 DEF Changes
    <3>3. d.reg[from] = Start[z]
      <4>1. b.reg[z] = Start[z]
        BY <1>1, <2>2, <2>3, <2>4 DEF Changes
      <4>2. c.reg[from] = Start[z]
        BY <1>1, <1>4, <2>5, <4>1 DEF Changes
      <4> QED BY <1>4, <2>6, <4>2 DEF Changes
    <3>4. keeps => d.reg["r13"] = Start["rax"]
      BY <1>1, <2>2, <2>3, <2>4, <2>5, <2>6 DEF Changes
    <3>5. \A q \in UserRegs \ {"rax", "r12", "r13"} : d.reg[q] = Start[q]
      BY <2>2, <2>3, <2>4, <2>5, <2>6, Names DEF Changes
    <3> QED BY <3>1, <3>2, <3>3, <3>4, <3>5
  <2>8. Exchanges(d, e, at, from)
    <3>1. e = Do(LockCmpxchg("r11", from), d)
      BY <2>1, LeadsOne DEF c5
    <3>2. \A r \in Regs : e = Do(LockCmpxchg(r, from), d) => Exchanges(d, e, Cell(d.reg[r]), from)
      BY <1>4, <2>7, CmpxchgParts
    <3> QED BY <1>1, <2>7, <3>1, <3>2
  <2>9. Changes(e, f, {y}) /\ f.reg[y] = e.reg["rax"]
    <3>1. \A r \in Regs : \A q \in Regs : Leads(Copy(r, q), e, f) => Changes(e, f, {r}) /\ f.reg[r] = e.reg[q]
      BY <2>8, CopyLeads DEF Exchanges
    <3> QED BY <1>1, <2>1, <3>1
  <2>10. /\ f \in State /\ f.mem = Memory /\ f.stack = u.stack /\ f.reg[y] = StartMem[at]
         /\ f.reg["r11"] = Start[x] /\ (keeps => f.reg["r13"] = Start["rax"])
         /\ \A q \in UserRegs \ {"rax", "r12", "r13", y} : f.reg[q] = Start[q]
    <3>1. f \in State /\ f.stack = u.stack /\ f.reg[y] = StartMem[at]
      BY <2>7, <2>8, <2>9 DEF Changes, Exchanges
    <3>2. f.mem = Memory
      <4>1. f.mem = [StartMem EXCEPT ![at] = IF StartMem[at] = Start[y] THEN Start[z] ELSE StartMem[at]]
        BY <2>7, <2>8, <2>9 DEF Changes, Exchanges
      <4> QED BY <1>0, <4>1
    <3>3. \A q \in Regs \ {"rax", y} : f.reg[q] = d.reg[q]
      BY <2>8, <2>9 DEF Changes, Exchanges
    <3> QED BY <1>1, <2>7, <3>1, <3>2, <3>3, Names
  <2>11. Changes(f, v, {"rax"}) /\ v.reg["rax"] = IF y = "rax" THEN f.reg["rax"] ELSE Start["rax"]
    <3>0. f \in State
      BY <2>10
    <3>1. \A r, q \in Regs : v = Do(Mov(r, q), f) => Changes(f, v, {r}) /\ v.reg[r] = f.reg[q]
      BY <3>0, MovAny
    <3>2. CASE x = "rax"
      <4>1. v = Do(Mov("rax", "r11"), f)
        BY <2>1, <3>2, LeadsOne DEF c7
      <4> QED BY <1>0, <1>1, <2>10, <3>1, <3>2, <4>1
    <3>3. CASE x # "rax" /\ keeps
      <4>1. v = Do(Mov("rax", "r13"), f)
        BY <2>1, <3>3, LeadsOne DEF c7
      <4> QED BY <1>0, <1>1, <2>10, <3>1, <3>3, <4>1 DEF keeps
    <3>4. CASE x # "rax" /\ ~keeps
      <4>1. v = f
        BY <2>1, <3>4, LeadsNone DEF c7
      <4> QED BY <2>10, <3>4, <4>1 DEF keeps, Changes
    <3> QED BY <3>2, <3>3, <3>4
  <2>12. v.mem = Memory /\ v \in State /\ v.stack = u.stack /\ v.reg[y] = StartMem[at]
    BY <1>1, <2>10, <2>11 DEF Changes
  <2>13. \A q \in UserRegs \ {"r12", "r13", y} : v.reg[q] = Start[q]
    BY <2>10, <2>11, Names DEF Changes
  <2>14. Matches(v) => Effect(Start[stmt.dest])
    BY <1>0, <1>1, <2>12 DEF Matches
  <2> QED BY <1>0, <2>12, <2>13, <2>14 DEF Served
<1>6. Plain(Body(stmt))
  <2> HIDE DEF c1, c2, c3, c4, c5, c6, c7
  <2> QED BY <1>2, <1>3, PlainConcat
<1>7. stmt.op \notin ReturnOps
  BY <1>0
<1> QED BY <1>5, <1>6, <1>7, BodyServes

-----------------------------------------------------------------------------
(* Pulses.                                                                 *)

LEMMA ReadyAtOnce ==
  ASSUME NEW u, Entered(u)
  PROVE  Ready(u, u)
BY Begins, Names DEF Ready

LEMMA NowDone ==
  ASSUME IsStatement(stmt), stmt.op = "pulse_now"
  PROVE  Works
<1> DEFINE d == stmt.dest
<1>1. /\ d \in Regs /\ d \in UserRegs /\ {"rax", "rdi", "rsi", "r11"} \subseteq Regs /\ "r11" \notin UserRegs
  BY Args, Names
<1>2. /\ Body(stmt) = <<Imm("rdi", 1), Imm("rsi", Timespec), Imm("rax", 228), Syscall,
                        Imm("r11", Timespec), Load(d, "r11", "none", 0)>>
      /\ SavedBy(stmt.op) = {} /\ d \in Changed /\ CallClobbered \subseteq Changed /\ Memory = StartMem
      /\ stmt.op \notin ReturnOps /\ stmt.op \in SystemOps /\ stmt.op \in ResultOps
      /\ Answer(Start[d]) = StartMem[Timespec]
      /\ Request = [nr |-> 228, args |-> <<1, Timespec>>]
  <2>1. Body(stmt) = PulseNow(d)
    BY DEF Body, CpuOps, UnaryOps
  <2>2. Memory = StartMem /\ Answer(Start[d]) = StartMem[Timespec]
    BY DEF Memory, Answer, ReturnOps
  <2>3. stmt.op \in SystemOps /\ stmt.op \in ResultOps /\ stmt.op \notin ReturnOps
    BY DEF SystemOps, ResultOps, ReturnOps
  <2>4. d \in Changed
    BY <2>3 DEF Changed
  <2>5. CallClobbered \subseteq Changed
    BY <2>3 DEF Changed
  <2>6. Request = [nr |-> 228, args |-> <<1, Timespec>>]
    BY DEF Request
  <2> QED BY <2>1, <2>2, <2>3, <2>4, <2>5, <2>6, SavedSets DEF PulseNow
<1>3. Plain(Body(stmt))
  BY <1>2, PlainSix, AllStraight
<1>4. {"rax", "rdi", "rsi", "rcx"} \subseteq Changed /\ {"rax", "rdi", "rsi"} \subseteq Free
  BY <1>2 DEF CallClobbered, Free
<1>5. ASSUME NEW u, NEW v, Entered(u), Leads(Body(stmt), u, v)
      PROVE  Served(u, v)
  <2>1. PICK a, b, w, x, y :
          /\ a = Do(Imm("rdi", 1), u) /\ b = Do(Imm("rsi", Timespec), a) /\ w = Do(Imm("rax", 228), b)
          /\ x = Do(Syscall, w) /\ y = Do(Imm("r11", Timespec), x) /\ v = Do(Load(d, "r11", "none", 0), y)
    BY <1>2, <1>5, SixSteps
  <2>2. Ready(u, u) /\ Timespec \in Int /\ Timespec \in 0..NicCell /\ 1 \in Int /\ 228 \in Int
    BY <1>5, ReadyAtOnce, NamedCells DEF Timespec
  <2>3. Sets(u, a, "rdi", 1) /\ Ready(u, a)
    <3>1. \A q \in Regs : q \in Free /\ a = Do(Imm(q, 1), u) => Sets(u, a, q, 1) /\ Ready(u, a)
      BY <2>2, ImmReady
    <3> QED BY <1>1, <1>4, <2>1, <3>1
  <2>4. Sets(a, b, "rsi", Timespec) /\ Ready(u, b)
    <3>1. \A q \in Regs : q \in Free /\ b = Do(Imm(q, Timespec), a) => Sets(a, b, q, Timespec) /\ Ready(u, b)
      BY <2>2, <2>3, ImmReady
    <3> QED BY <1>1, <1>4, <2>1, <3>1
  <2>5. Sets(b, w, "rax", 228) /\ Ready(u, w)
    <3>1. \A q \in Regs : q \in Free /\ w = Do(Imm(q, 228), b) => Sets(b, w, q, 228) /\ Ready(u, w)
      BY <2>2, <2>4, ImmReady
    <3> QED BY <1>1, <1>4, <2>1, <3>1
  <2>6. w.reg["rax"] = 228 /\ w.reg["rdi"] = 1 /\ w.reg["rsi"] = Timespec
    BY <1>1, <2>3, <2>4, <2>5 DEF Sets, Changes
  <2>7. Asks(w, Request.nr, Request.args)
    <3>1. Request.nr = 228 /\ Request.args = <<1, Timespec>>
      BY <1>2
    <3>2. SysArgs[1] = "rdi" /\ SysArgs[2] = "rsi"
      BY DEF SysArgs
    <3> QED BY <2>6, <3>1, <3>2 DEF Asks
  <2>8. Answers(w, x)
    BY <2>1, <2>5, SyscallAnswers DEF Ready
  <2>9. /\ x \in State /\ x.stack = u.stack /\ x.mem = StartMem /\ x.calls = <<Asked(w)>>
        /\ \A q \in UserRegs \ Changed : x.reg[q] = Start[q]
    <3>1. x \in State /\ x.stack = u.stack /\ x.mem = StartMem /\ x.calls = <<Asked(w)>>
      BY <2>5, <2>8 DEF Answers, Ready
    <3>2. \A q \in UserRegs \ Changed : x.reg[q] = Start[q]
      BY <1>1, <1>2, <1>4, <2>5, <2>8, Names DEF Answers, Ready
    <3> QED BY <3>1, <3>2
  <2>10. Changes(x, y, {"r11"}) /\ y.reg["r11"] = Timespec
    <3>1. \A q \in Regs : y = Do(Imm(q, Timespec), x) => Changes(x, y, {q}) /\ y.reg[q] = Timespec
      BY <2>2, <2>9, ImmParts
    <3> QED BY <1>1, <2>1, <3>1
  <2>11. y \in State /\ Points(y, "r11", Timespec)
    BY <2>2, <2>10 DEF Changes, Points
  <2>12. Changes(y, v, {d}) /\ v.reg[d] = y.mem[Timespec]
    <3>1. \A q \in Regs : v = Do(Load(d, q, "none", 0), y) /\ Points(y, q, Timespec) =>
            Changes(y, v, {d}) /\ v.reg[d] = y.mem[Timespec]
      <4>1. y \in State /\ d \in Regs
        BY <1>1, <2>11
      <4> HIDE DEF d
      <4> QED BY <4>1, LoadNamed
    <3> QED BY <1>1, <2>1, <2>11, <3>1
  <2>13. /\ v \in State /\ v.stack = u.stack /\ v.mem = StartMem /\ v.calls = <<Asked(w)>>
         /\ v.reg[d] = StartMem[Timespec]
    BY <2>9, <2>10, <2>12 DEF Changes
  <2>14. \A q \in UserRegs \ Changed : v.reg[q] = Start[q]
    BY <1>1, <1>2, <2>9, <2>10, <2>12, Names DEF Changes
  <2>15. Matches(v) => Effect(Start[d])
    <3> SUFFICES ASSUME Matches(v) PROVE Effect(Start[d])
      OBVIOUS
    <3>1. calls = <<Asked(w)>> /\ reg[d] = Answer(Start[d])
      BY <1>1, <1>2, <2>13 DEF Matches
    <3>2. RequestMade
      BY <2>7, <3>1, AsksRequest
    <3> QED BY <1>2, <3>1, <3>2, SystemEffect
  <2> QED BY <1>2, <2>13, <2>14, <2>15 DEF Served
<1>6. stmt.op \notin ReturnOps
  BY <1>2
<1> QED BY <1>3, <1>5, <1>6, BodyServes

LEMMA StoreNext ==
  ASSUME NEW s, NEW t, NEW n, s \in State, n \in Nat, n + 1 \in 0..NicCell
  PROVE  \A b, r \in Regs : t = Do(Store(b, "none", 1, r), s) /\ s.reg[b] = n => Writes(s, t, n + 1, s.reg[r])
<1> SUFFICES ASSUME NEW b \in Regs, NEW r \in Regs, t = Do(Store(b, "none", 1, r), s), s.reg[b] = n
             PROVE  Writes(s, t, n + 1, s.reg[r])
  OBVIOUS
<1>1. \A x \in Regs \cup {"none"} : t = Do(Store(b, x, 1, r), s) => Writes(s, t, Place(s, b, x, 1), s.reg[r])
  BY StoreParts
<1>2. Writes(s, t, Place(s, b, "none", 1), s.reg[r])
  BY <1>1
<1>3. Place(s, b, "none", 1) = Cell(n + 0 + 1)
  BY DEF Place, IndexIn
<1>4. n + 0 + 1 = n + 1 /\ Cell(n + 1) = n + 1
  BY NamedCells
<1> QED BY <1>2, <1>3, <1>4

LEMMA SleepDone ==
  ASSUME IsStatement(stmt), stmt.op = "pulse_sleep"
  PROVE  Works
<1> DEFINE o == stmt.arg[1]
           before == <<Imm("rdi", Timespec), Imm("rax", 0), Store("rdi", "none", 0, "rax")>>
           after == <<Store("rdi", "none", 1, "rax"), Imm("rsi", 0), Imm("rax", 35), Syscall>>
<1>1. /\ IsOperand(o) /\ {"rax", "rdi", "rsi", "rcx", "r11", "r12"} \subseteq Regs
      /\ RegsOf(o) \cap {"rdi", "rax"} = {} /\ (IsSum(o) => "r12" \in Free)
  <2>1. First(stmt) = {"rdi", "rax"}
    BY DEF First
  <2>2. Arity[stmt.op] = {1} /\ stmt.op \notin BlockOps \cup {"gate_cas"}
    BY DEF Arity, BlockOps
  <2> QED BY <2>1, <2>2, SingleOperand, Names DEF Free
<1>2. /\ Body(stmt) = before \o Eval(o, "rax") \o after
      /\ SavedBy(stmt.op) = {} /\ CallClobbered \subseteq Changed
      /\ Memory = [[StartMem EXCEPT ![Timespec] = 0] EXCEPT ![Timespec + 1] = Value(o)]
      /\ stmt.op \notin ReturnOps /\ stmt.op \in SystemOps /\ stmt.op \notin ResultOps
      /\ Request = [nr |-> 35, args |-> <<Timespec, 0>>]
  <2>1. Body(stmt) = PulseSleep(o)
    BY DEF Body, CpuOps, UnaryOps
  <2>2. Memory = [[StartMem EXCEPT ![Timespec] = 0] EXCEPT ![Timespec + 1] = Value(o)]
    <3>1. Memory = [StartMem EXCEPT ![Timespec] = 0, ![Timespec + 1] = V(1)]
      BY DEF Memory
    <3> QED BY <3>1 DEF V
  <2>3. stmt.op \in SystemOps /\ stmt.op \notin ResultOps /\ stmt.op \notin ReturnOps
    BY DEF SystemOps, ResultOps, ReturnOps, CpuOps, UnaryOps
  <2>4. CallClobbered \subseteq Changed
    BY <2>3 DEF Changed
  <2>5. Request = [nr |-> 35, args |-> <<Timespec, 0>>]
    BY DEF Request
  <2> QED BY <2>1, <2>2, <2>3, <2>4, <2>5, SavedSets DEF PulseSleep
<1>3. Plain(Eval(o, "rax")) /\ Plain(before) /\ Plain(after)
  <2>1. Plain(Eval(o, "rax"))
    BY <1>1, PlainEval
  <2>2. Plain(before)
    BY PlainFew, AllStraight
  <2>3. Plain(after)
    BY PlainFew, AllStraight
  <2> QED BY <2>1, <2>2, <2>3
<1>4. /\ {"rax", "rdi", "rsi", "rcx"} \subseteq Changed /\ {"rax", "rdi", "rsi"} \subseteq Free
      /\ Free = Changed
  BY <1>2 DEF CallClobbered, Free
<1>5. ASSUME NEW u, NEW v, Entered(u), Leads(Body(stmt), u, v)
      PROVE  Served(u, v)
  <2>1. PICK c, d : Leads(before, u, c) /\ Leads(Eval(o, "rax"), c, d) /\ Leads(after, d, v)
    <3> HIDE DEF before, after
    <3> QED BY <1>2, <1>3, <1>5, LeadsThree
  <2>2. PICK a, b : a = Do(Imm("rdi", Timespec), u) /\ b = Do(Imm("rax", 0), a)
                      /\ c = Do(Store("rdi", "none", 0, "rax"), b)
    BY <2>1, ThreeSteps
  <2>3. PICK e, f, w : e = Do(Store("rdi", "none", 1, "rax"), d) /\ f = Do(Imm("rsi", 0), e)
                         /\ w = Do(Imm("rax", 35), f) /\ v = Do(Syscall, w)
    BY <2>1, FourSteps
  <2> HIDE DEF before, after
  <2>4. /\ u \in State /\ Timespec \in Int /\ Timespec \in Nat /\ Timespec \in 0..NicCell
        /\ Timespec + 1 \in 0..NicCell /\ 0 \in Int /\ 35 \in Int /\ Timespec \in Cells
    BY <1>5, Begins, NamedCells DEF Timespec
  <2>5. Changes(u, a, {"rdi"}) /\ a.reg["rdi"] = Timespec
    <3>1. \A q \in Regs : a = Do(Imm(q, Timespec), u) => Changes(u, a, {q}) /\ a.reg[q] = Timespec
      BY <2>4, ImmParts
    <3> QED BY <1>1, <2>2, <3>1
  <2>6. Changes(a, b, {"rax"}) /\ b.reg["rax"] = 0
    <3>0. a \in State
      BY <2>5 DEF Changes
    <3>1. \A q \in Regs : b = Do(Imm(q, 0), a) => Changes(a, b, {q}) /\ b.reg[q] = 0
      BY <2>4, <3>0, ImmParts
    <3> QED BY <1>1, <2>2, <3>1
  <2>7. b \in State /\ Points(b, "rdi", Timespec)
    BY <1>1, <2>4, <2>5, <2>6 DEF Changes, Points
  <2>8. Writes(b, c, Timespec, 0)
    <3>0. b \in State
      BY <2>7
    <3>1. \A p, q \in Regs : c = Do(Store(p, "none", 0, q), b) /\ Points(b, p, Timespec) =>
            Writes(b, c, Timespec, b.reg[q])
      BY <3>0, StoreNamed
    <3> QED BY <1>1, <2>2, <2>6, <2>7, <3>1
  <2>9. /\ c \in State /\ c.stack = u.stack /\ c.mem = [StartMem EXCEPT ![Timespec] = 0] /\ c.calls = <<>>
        /\ c.reg["rdi"] = Timespec /\ \A q \in UserRegs \ {"rdi", "rax"} : c.reg[q] = Start[q]
    <3>1. u.reg = Start /\ u.mem = StartMem /\ u.calls = <<>>
      BY <1>5, Begins
    <3> QED BY <1>1, <2>5, <2>6, <2>8, <3>1, Names DEF Changes, Writes
  <2>10. Fresh(c, o)
    BY <1>1, <2>9, OperandRegs DEF Fresh
  <2>11. Changes(c, d, Borrowed(o, "rax")) /\ d.reg["rax"] = Value(o)
    <3>1. \A q \in Regs : Leads(Eval(o, q), c, d) => Changes(c, d, Borrowed(o, q)) /\ d.reg[q] = Value(o)
      BY <1>1, <2>9, <2>10, EvalIntact
    <3> QED BY <1>1, <2>1, <3>1
  <2>12. d \in State /\ d.reg["rdi"] = Timespec
    BY <1>1, <2>9, <2>11 DEF Changes, Borrowed
  <2>13. Writes(d, e, Timespec + 1, Value(o))
    <3>1. \A p, q \in Regs : e = Do(Store(p, "none", 1, q), d) /\ d.reg[p] = Timespec =>
            Writes(d, e, Timespec + 1, d.reg[q])
      BY <2>4, <2>12, StoreNext
    <3> QED BY <1>1, <2>3, <2>11, <2>12, <3>1
  <2>14. /\ e \in State /\ e.stack = u.stack /\ e.mem = Memory /\ e.calls = <<>> /\ e.reg["rdi"] = Timespec
         /\ \A q \in UserRegs \ Changed : e.reg[q] = Start[q]
    <3>1. e \in State /\ e.stack = u.stack /\ e.mem = Memory /\ e.calls = <<>> /\ e.reg["rdi"] = Timespec
      BY <1>2, <2>9, <2>11, <2>12, <2>13 DEF Changes, Writes
    <3>2. \A q \in UserRegs \ Changed : e.reg[q] = Start[q]
      BY <1>1, <1>4, <2>9, <2>11, <2>13, Names DEF Changes, Writes, Borrowed
    <3> QED BY <3>1, <3>2
  <2>15. Changes(e, f, {"rsi"}) /\ f.reg["rsi"] = 0
    <3>1. \A q \in Regs : f = Do(Imm(q, 0), e) => Changes(e, f, {q}) /\ f.reg[q] = 0
      BY <2>4, <2>14, ImmParts
    <3> QED BY <1>1, <2>3, <3>1
  <2>16. Changes(f, w, {"rax"}) /\ w.reg["rax"] = 35
    <3>0. f \in State
      BY <2>15 DEF Changes
    <3>1. \A q \in Regs : w = Do(Imm(q, 35), f) => Changes(f, w, {q}) /\ w.reg[q] = 35
      BY <2>4, <3>0, ImmParts
    <3> QED BY <1>1, <2>3, <3>1
  <2>17. w \in State /\ w.reg["rax"] = 35 /\ w.reg["rdi"] = Timespec /\ w.reg["rsi"] = 0
    BY <1>1, <2>14, <2>15, <2>16 DEF Changes
  <2>18. Asks(w, Request.nr, Request.args)
    <3>1. Request.nr = 35 /\ Request.args = <<Timespec, 0>>
      BY <1>2
    <3>2. SysArgs[1] = "rdi" /\ SysArgs[2] = "rsi"
      BY DEF SysArgs
    <3> QED BY <2>17, <3>1, <3>2 DEF Asks
  <2>19. Answers(w, v)
    BY <2>3, <2>17, SyscallAnswers
  <2>20. /\ v \in State /\ v.stack = u.stack /\ v.mem = Memory /\ v.calls = <<Asked(w)>>
         /\ v.reg["rax"] = SysResult
    BY <2>14, <2>15, <2>16, <2>19 DEF Answers, Changes
  <2>21. \A q \in UserRegs \ Changed : v.reg[q] = Start[q]
    BY <1>4, <2>14, <2>15, <2>16, <2>19, Names DEF Answers, Changes
  <2>22. Matches(v) => Effect(Start[stmt.dest])
    <3> SUFFICES ASSUME Matches(v) PROVE Effect(Start[stmt.dest])
      OBVIOUS
    <3>1. calls = <<Asked(w)>> /\ reg["rax"] = SysResult
      BY <1>1, <1>2, <2>20 DEF Matches
    <3>2. RequestMade
      BY <2>18, <3>1, AsksRequest
    <3> QED BY <1>2, <3>1, <3>2, SystemEffect
  <2> QED BY <1>2, <2>20, <2>21, <2>22 DEF Served
<1>6. Plain(Body(stmt))
  <2> HIDE DEF before, after
  <2> QED BY <1>2, <1>3, PlainConcat
<1>7. stmt.op \notin ReturnOps
  BY <1>2
<1> HIDE DEF before, after
<1> QED BY <1>5, <1>6, <1>7, BodyServes

-----------------------------------------------------------------------------
(* Arguments through the stack.                                            *)

\* No operand reads a register that one before it has passed through.
Independent(a, n) ==
  \A k \in 1..n : IsOperand(a[k]) /\ \A j \in 1..(k - 1) : IsSum(a[j]) => "r12" \notin RegsOf(a[k])

\* The first n operands have been evaluated, the stack is k.
Held(t, a, n, k) ==
  /\ t \in State /\ t.stack = k /\ k \in Seq(Int) /\ t.mem = StartMem /\ t.calls = <<>>
  /\ \A q \in UserRegs : (q = "r12" /\ \E j \in 1..n : IsSum(a[j])) \/ t.reg[q] = Start[q]

LEMMA HeldNext ==
  ASSUME NEW a, NEW n, n \in Nat, Independent(a, n), NEW j, j \in 1..n, NEW s, NEW t, NEW k,
         Held(s, a, j - 1, k), Leads(Eval(a[j], Temp) \o <<Push(Temp)>>, s, t)
  PROVE  Held(t, a, j, Append(k, Value(a[j]))) /\ Value(a[j]) \in Int
<1>1. IsOperand(a[j]) /\ \A i \in 1..(j - 1) : IsSum(a[i]) => "r12" \notin RegsOf(a[j])
  BY DEF Independent
<1>2. /\ s \in State /\ s.stack = k /\ k \in Seq(Int) /\ s.mem = StartMem /\ s.calls = <<>>
      /\ \A q \in UserRegs : (q = "r12" /\ \E i \in 1..(j - 1) : IsSum(a[i])) \/ s.reg[q] = Start[q]
  BY DEF Held
<1>3. Fresh(s, a[j])
  BY <1>1, <1>2, OperandRegs DEF Fresh
<1>4. Temp \in Regs /\ Temp \notin UserRegs /\ "r11" \notin UserRegs
  BY Names
<1>5. PICK e : Leads(Eval(a[j], Temp), s, e) /\ t = Do(Push(Temp), e)
  <2>1. IsCode(Eval(a[j], Temp)) /\ IsCode(<<Push(Temp)>>)
    BY <1>1, <1>4, PlainEval, PlainCode, Tuples
  <2> QED BY <2>1, LeadsThrough, LeadsOne
<1>6. Changes(s, e, Borrowed(a[j], Temp)) /\ e.reg[Temp] = Value(a[j]) /\ Value(a[j]) \in Int
  BY <1>2, <1>3, <1>4, <1>5, EvalIntact
<1>7. e \in State /\ e.stack = k /\ e.mem = StartMem /\ e.calls = <<>>
  BY <1>2, <1>6 DEF Changes
<1>8. \A r \in Regs : t = Do(Push(r), e) =>
        /\ t \in State /\ t.stack = Append(e.stack, e.reg[r]) /\ t.reg = e.reg /\ t.mem = e.mem
        /\ t.calls = e.calls
  BY <1>7, PushParts
<1>9. /\ t \in State /\ t.stack = Append(k, Value(a[j])) /\ t.reg = e.reg /\ t.mem = StartMem
      /\ t.calls = <<>>
  BY <1>4, <1>5, <1>6, <1>7, <1>8
<1>10. ASSUME NEW q \in UserRegs
       PROVE  (q = "r12" /\ \E i \in 1..j : IsSum(a[i])) \/ t.reg[q] = Start[q]
  <2>1. j \in 1..j /\ \A i \in 1..(j - 1) : i \in 1..j
    OBVIOUS
  <2>2. CASE q \in Borrowed(a[j], Temp)
    BY <1>4, <2>1, <2>2 DEF Borrowed
  <2>3. CASE q \notin Borrowed(a[j], Temp)
    <3>1. t.reg[q] = s.reg[q]
      BY <1>6, <1>9, <2>3, Names DEF Changes
    <3> QED BY <1>2, <2>1, <3>1
  <2> QED BY <2>2, <2>3
<1>11. Append(k, Value(a[j])) \in Seq(Int)
  BY <1>2, <1>6
<1> QED BY <1>6, <1>9, <1>10, <1>11 DEF Held

StackArgs == <<"rdi", "rsi", "rdx">>

\* What the stack gives back goes to the argument registers.
LEMMA HeldOne ==
  ASSUME NEW u, NEW a, NEW s, NEW t, NEW k, k = u.stack, k \in Seq(Int),
         Held(s, a, 1, Append(k, Value(a[1]))), Value(a[1]) \in Int, t = Do(Pop("rdi"), s)
  PROVE  Gathered(u, t, a, StackArgs, 1)
<1>1. s \in State /\ Topped(s, k, Value(a[1]))
  BY DEF Held, Topped
<1>2. \A r \in Regs : t = Do(Pop(r), s) => Popped(s, t, r, k, Value(a[1]))
  BY <1>1, PopParts
<1>3. Popped(s, t, "rdi", k, Value(a[1]))
  BY <1>2, Names
<1>4. /\ t \in State /\ t.stack = u.stack /\ t.mem = StartMem /\ t.calls = <<>>
      /\ t.reg["rdi"] = Value(a[1]) /\ \A q \in UserRegs : q = "rdi" \/ t.reg[q] = s.reg[q]
  BY <1>3, Names DEF Held, Popped, Goes
<1>5. \A i \in 1..1 : i = 1
  OBVIOUS
<1>6. StackArgs[1] = "rdi" /\ 1 \in 1..1
  BY DEF StackArgs
<1>7. \A q \in UserRegs : (q = "r12" /\ \E j \in 1..1 : IsSum(a[j])) \/ s.reg[q] = Start[q]
  BY DEF Held
<1>8. \A q \in UserRegs :
        (\E j \in 1..1 : q = StackArgs[j]) \/ (q = "r12" /\ \E j \in 1..1 : IsSum(a[j])) \/ t.reg[q] = Start[q]
  BY <1>4, <1>6, <1>7
<1> QED BY <1>4, <1>5, <1>6, <1>8 DEF Gathered

LEMMA HeldThree ==
  ASSUME NEW u, NEW a, NEW s, NEW p, NEW q, NEW t, NEW k, NEW l, NEW m, k = u.stack, k \in Seq(Int),
         l = Append(k, Value(a[1])), m = Append(l, Value(a[2])),
         Held(s, a, 3, Append(m, Value(a[3]))),
         Value(a[1]) \in Int, Value(a[2]) \in Int, Value(a[3]) \in Int,
         p = Do(Pop("rdx"), s), q = Do(Pop("rsi"), p), t = Do(Pop("rdi"), q)
  PROVE  Gathered(u, t, a, StackArgs, 3)
<1>1. l \in Seq(Int) /\ m \in Seq(Int)
  OBVIOUS
<1>2. s \in State /\ Topped(s, m, Value(a[3]))
  BY <1>1 DEF Held, Topped
<1>3. Popped(s, p, "rdx", m, Value(a[3]))
  <2>1. \A r \in Regs : p = Do(Pop(r), s) => Popped(s, p, r, m, Value(a[3]))
    BY <1>2, PopParts
  <2> QED BY <2>1, Names
<1>4. p \in State /\ Topped(p, l, Value(a[2]))
  BY <1>1, <1>3 DEF Popped, Goes, Topped
<1>5. Popped(p, q, "rsi", l, Value(a[2]))
  <2>1. \A r \in Regs : q = Do(Pop(r), p) => Popped(p, q, r, l, Value(a[2]))
    BY <1>4, PopParts
  <2> QED BY <2>1, Names
<1>6. q \in State /\ Topped(q, k, Value(a[1]))
  BY <1>1, <1>5 DEF Popped, Goes, Topped
<1>7. Popped(q, t, "rdi", k, Value(a[1]))
  <2>1. \A r \in Regs : t = Do(Pop(r), q) => Popped(q, t, r, k, Value(a[1]))
    BY <1>6, PopParts
  <2> QED BY <2>1, Names
<1>8. s.mem = StartMem /\ s.calls = <<>>
  BY DEF Held
<1>9. t \in State /\ t.stack = u.stack /\ t.mem = StartMem /\ t.calls = <<>>
  BY <1>3, <1>5, <1>7, <1>8 DEF Popped, Goes
<1>10. t.reg["rdi"] = Value(a[1]) /\ t.reg["rsi"] = Value(a[2]) /\ t.reg["rdx"] = Value(a[3])
  <2>1. t.reg["rdi"] = Value(a[1]) /\ q.reg["rsi"] = Value(a[2]) /\ p.reg["rdx"] = Value(a[3])
    BY <1>3, <1>5, <1>7 DEF Popped
  <2>2. q.reg["rdx"] = p.reg["rdx"] /\ t.reg["rdx"] = q.reg["rdx"] /\ t.reg["rsi"] = q.reg["rsi"]
    BY <1>5, <1>7, Names DEF Popped, Goes
  <2> QED BY <2>1, <2>2
<1>11. \A r \in UserRegs : r \in {"rdi", "rsi", "rdx"} \/ t.reg[r] = s.reg[r]
  BY <1>3, <1>5, <1>7, Names DEF Popped, Goes
<1>12. StackArgs[1] = "rdi" /\ StackArgs[2] = "rsi" /\ StackArgs[3] = "rdx" /\ {1, 2, 3} \subseteq 1..3
  BY DEF StackArgs
<1>13. \A i \in 1..3 : i \in {1, 2, 3}
  OBVIOUS
<1>14. \A r \in UserRegs : (r = "r12" /\ \E j \in 1..3 : IsSum(a[j])) \/ s.reg[r] = Start[r]
  BY DEF Held
<1>15. \A r \in UserRegs :
        (\E j \in 1..3 : r = StackArgs[j]) \/ (r = "r12" /\ \E j \in 1..3 : IsSum(a[j])) \/ t.reg[r] = Start[r]
  BY <1>11, <1>12, <1>14
<1>16. \A i \in 1..3 : t.reg[StackArgs[i]] = Value(a[i]) /\ Value(a[i]) \in Int
  BY <1>10, <1>12, <1>13
<1> QED BY <1>9, <1>15, <1>16 DEF Gathered

Placed(o) == Eval(o, Temp) \o <<Push(Temp)>>

LEMMA StackedIs ==
  ASSUME NEW a, NEW x, DOMAIN a = 1..Len(a), Len(a) \in {1, 3}, x \in {SysArgs, CallArgs}
  PROVE  /\ Len(a) = 1 => Stacked(a, x) = Placed(a[1]) \o <<Pop("rdi")>>
         /\ Len(a) = 3 => Stacked(a, x) = (Placed(a[1]) \o Placed(a[2]) \o Placed(a[3]))
                                             \o <<Pop("rdx"), Pop("rsi"), Pop("rdi")>>
<1> DEFINE f == [k \in DOMAIN a |-> Placed(a[k])]
<1>1. Len(f) = Len(a) /\ \A k \in 1..Len(a) : f[k] = Placed(a[k])
  OBVIOUS
<1>2. Stacked(a, x) = FlattenSeq(f) \o Restore(SubSeq(x, 1, Len(a)))
  BY DEF Stacked, Placed
<1>3. 1 \in 1..Len(a) /\ (Len(a) = 3 => 2 \in 1..Len(a) /\ 3 \in 1..Len(a))
  OBVIOUS
<1>4. SubSeq(x, 1, 1) = <<"rdi">> /\ SubSeq(x, 1, 3) = <<"rdi", "rsi", "rdx">>
  <2>1. Len(x) = 6 /\ x[1] = "rdi" /\ x[2] = "rsi" /\ x[3] = "rdx"
    <3>1. Len(SysArgs) = 6 /\ SysArgs[1] = "rdi" /\ SysArgs[2] = "rsi" /\ SysArgs[3] = "rdx"
      BY DEF SysArgs
    <3>2. Len(CallArgs) = 6 /\ CallArgs[1] = "rdi" /\ CallArgs[2] = "rsi" /\ CallArgs[3] = "rdx"
      BY DEF CallArgs
    <3> QED BY <3>1, <3>2
  <2>2. SubSeq(x, 1, 1) = [k \in 1..1 |-> x[k]] /\ SubSeq(x, 1, 3) = [k \in 1..3 |-> x[k]]
    BY <2>1
  <2>3. [k \in 1..1 |-> x[k]] = <<x[1]>>
    OBVIOUS
  <2>4. [k \in 1..3 |-> x[k]] = <<x[1], x[2], x[3]>>
    OBVIOUS
  <2> QED BY <2>1, <2>2, <2>3, <2>4
<1>5. Restore(<<"rdi">>) = <<Pop("rdi")>>
      /\ Restore(<<"rdi", "rsi", "rdx">>) = <<Pop("rdx"), Pop("rsi"), Pop("rdi")>>
  BY SaveFew, Zenon
<1>6. Len(f) \in 1..4
  BY <1>1
<1> HIDE DEF f
<1>7. CASE Len(a) = 1
  <2>1. FlattenSeq(f) = f[1]
    BY <1>1, <1>6, <1>7, Flattened
  <2>2. f[1] = Placed(a[1])
    BY <1>1, <1>3
  <2>3. SubSeq(x, 1, Len(a)) = <<"rdi">>
    BY <1>4, <1>7
  <2>4. Stacked(a, x) = Placed(a[1]) \o <<Pop("rdi")>>
    BY <1>2, <1>5, <2>1, <2>2, <2>3, Zenon
  <2> QED BY <1>7, <2>4
<1>8. CASE Len(a) = 3
  <2>1. FlattenSeq(f) = f[1] \o f[2] \o f[3]
    BY <1>1, <1>6, <1>8, Flattened
  <2>2. f[1] = Placed(a[1]) /\ f[2] = Placed(a[2]) /\ f[3] = Placed(a[3])
    BY <1>1, <1>3, <1>8
  <2>3. SubSeq(x, 1, Len(a)) = <<"rdi", "rsi", "rdx">>
    BY <1>4, <1>8
  <2>4. Stacked(a, x) = (Placed(a[1]) \o Placed(a[2]) \o Placed(a[3])) \o <<Pop("rdx"), Pop("rsi"), Pop("rdi")>>
    BY <1>2, <1>5, <2>1, <2>2, <2>3, Zenon
  <2> QED BY <1>8, <2>4
<1> QED BY <1>7, <1>8

LEMMA PlainPlaced ==
  ASSUME NEW o, IsOperand(o)
  PROVE  Plain(Placed(o))
<1>1. Plain(Eval(o, Temp))
  BY PlainEval, Names
<1>2. Plain(<<Push(Temp)>>)
  BY PlainFew, AllStraight
<1> QED BY <1>1, <1>2, PlainConcat DEF Placed

LEMMA PlainPops == Plain(<<Pop("rdi")>>) /\ Plain(<<Pop("rdx"), Pop("rsi"), Pop("rdi")>>)
<1>1. Plain(<<Pop("rdi")>>)
  BY PlainFew, AllStraight
<1>2. Plain(<<Pop("rdx"), Pop("rsi"), Pop("rdi")>>)
  BY PlainFew, AllStraight
<1> QED BY <1>1, <1>2

LEMMA PlainStacked ==
  ASSUME NEW a, NEW x, DOMAIN a = 1..Len(a), Len(a) \in {1, 3}, x \in {SysArgs, CallArgs}, Independent(a, Len(a))
  PROVE  Plain(Stacked(a, x))
<1>1. \A k \in 1..Len(a) : Plain(Placed(a[k]))
  BY PlainPlaced DEF Independent
<1>2. CASE Len(a) = 1
  <2>1. Plain(Placed(a[1]))
    BY <1>1, <1>2
  <2> QED BY <1>2, <2>1, StackedIs, PlainPops, PlainConcat
<1>3. CASE Len(a) = 3
  <2>1. Plain(Placed(a[1])) /\ Plain(Placed(a[2])) /\ Plain(Placed(a[3]))
    BY <1>1, <1>3
  <2>2. Plain(Placed(a[1]) \o Placed(a[2]) \o Placed(a[3]))
    BY <2>1, PlainConcat
  <2> QED BY <1>3, <2>2, StackedIs, PlainPops, PlainConcat
<1> QED BY <1>2, <1>3

\* Whatever the operands are, an argument register written early spoils none of them.
LEMMA StackedGathers ==
  ASSUME NEW u, Entered(u), NEW t, NEW a, NEW x, DOMAIN a = 1..Len(a), Len(a) \in {1, 3},
         x \in {SysArgs, CallArgs}, Independent(a, Len(a)), Leads(Stacked(a, x), u, t)
  PROVE  Gathered(u, t, a, StackArgs, Len(a))
<1> DEFINE k == u.stack  l == Append(k, Value(a[1]))  m == Append(l, Value(a[2]))
<1>1. /\ k \in Seq(Int) /\ Held(u, a, 0, k)
      /\ \A i \in 1..Len(a) : Plain(Placed(a[i]))
  <2>1. u \in State /\ u.mem = StartMem /\ u.calls = <<>> /\ u.reg = Start /\ k \in Seq(Int)
    BY Begins
  <2> QED BY <2>1, PlainPlaced DEF Held, Independent
<1>2. \A i \in 1..Len(a) : \A s, r, h :
        Held(s, a, i - 1, h) /\ Leads(Placed(a[i]), s, r) =>
          Held(r, a, i, Append(h, Value(a[i]))) /\ Value(a[i]) \in Int
  BY HeldNext DEF Placed
<1>3. \A r : Leads(Placed(a[1]), u, r) => Held(r, a, 1, l) /\ Value(a[1]) \in Int
  <2>1. 1 \in 1..Len(a) /\ 1 - 1 = 0
    OBVIOUS
  <2> QED BY <1>1, <1>2, <2>1
<1> HIDE DEF k
<1>4. CASE Len(a) = 1
  <2>1. Plain(Placed(a[1])) /\ Stacked(a, x) = Placed(a[1]) \o <<Pop("rdi")>>
    <3>1. Len(a) = 1 => Stacked(a, x) = Placed(a[1]) \o <<Pop("rdi")>>
      BY StackedIs
    <3> QED BY <1>1, <1>4, <3>1
  <2>2. PICK s : Leads(Placed(a[1]), u, s) /\ Leads(<<Pop("rdi")>>, s, t)
    BY <2>1, PlainPops, PlainCode, LeadsThrough
  <2>3. t = Do(Pop("rdi"), s)
    BY <2>2, LeadsOne
  <2>4. Held(s, a, 1, l) /\ Value(a[1]) \in Int
    BY <1>3, <2>2
  <2> QED BY <1>1, <1>4, <2>3, <2>4, HeldOne DEF k
<1>5. CASE Len(a) = 3
  <2>1. Plain(Placed(a[1])) /\ Plain(Placed(a[2])) /\ Plain(Placed(a[3]))
    BY <1>1, <1>5
  <2>2. Stacked(a, x) = (Placed(a[1]) \o Placed(a[2]) \o Placed(a[3])) \o <<Pop("rdx"), Pop("rsi"), Pop("rdi")>>
    BY <1>5, StackedIs
  <2>3. PICK s : /\ Leads(Placed(a[1]) \o Placed(a[2]) \o Placed(a[3]), u, s)
                 /\ Leads(<<Pop("rdx"), Pop("rsi"), Pop("rdi")>>, s, t)
    <3>1. Plain(Placed(a[1]) \o Placed(a[2]) \o Placed(a[3]))
      BY <2>1, PlainConcat
    <3> QED BY <2>2, <3>1, PlainPops, PlainCode, LeadsThrough
  <2>4. PICK b, c : Leads(Placed(a[1]), u, b) /\ Leads(Placed(a[2]), b, c) /\ Leads(Placed(a[3]), c, s)
    BY <2>1, <2>3, LeadsThree
  <2>5. PICK p, q : p = Do(Pop("rdx"), s) /\ q = Do(Pop("rsi"), p) /\ t = Do(Pop("rdi"), q)
    BY <2>3, ThreeSteps
  <2>6. 2 \in 1..Len(a) /\ 2 - 1 = 1 /\ 3 \in 1..Len(a) /\ 3 - 1 = 2
    BY <1>5
  <2>7. Held(b, a, 1, l) /\ Value(a[1]) \in Int
    BY <1>3, <2>4
  <2> HIDE DEF l
  <2>8. Held(c, a, 2, m) /\ Value(a[2]) \in Int
    BY <1>2, <2>4, <2>6, <2>7
  <2> HIDE DEF m
  <2>9. Held(s, a, 3, Append(m, Value(a[3]))) /\ Value(a[3]) \in Int
    BY <1>2, <2>4, <2>6, <2>8
  <2>10. k = u.stack /\ l = Append(k, Value(a[1])) /\ m = Append(l, Value(a[2]))
    BY DEF k, l, m
  <2> QED BY <1>1, <1>5, <2>5, <2>7, <2>8, <2>9, <2>10, HeldThree
<1> QED BY <1>4, <1>5

LEMMA StackedOperands ==
  ASSUME IsStatement(stmt), stmt.op \in {"call", "syscall"}
  PROVE  /\ DOMAIN stmt.arg = 1..Len(stmt.arg) /\ Len(stmt.arg) \in {1, 3}
         /\ Independent(stmt.arg, Len(stmt.arg)) /\ SavedBy(stmt.op) = {}
         /\ Memory = StartMem /\ stmt.op \notin ReturnOps \cup ResultOps
         /\ \A k \in 1..Len(stmt.arg) : StackArgs[k] \in Free /\ (IsSum(stmt.arg[k]) => "r12" \in Free)
         /\ \A k \in 1..Len(stmt.arg) : StackArgs[k] = CallArgs[k] /\ StackArgs[k] = SysArgs[k]
<1> DEFINE a == stmt.arg  n == Len(stmt.arg)
<1>1. DOMAIN a = 1..n /\ n \in {1, 3} /\ \A k \in 1..n : IsOperand(a[k])
  <2>1. Arity[stmt.op] \subseteq {1, 3}
    BY DEF Arity
  <2> QED BY <2>1, Args
<1>2. ASSUME NEW k \in 1..n, NEW j \in 1..(k - 1), IsSum(a[j])
      PROVE  "r12" \notin RegsOf(a[k])
  <2>1. Intact(stmt, k)
    BY Args DEF BlockOps
  <2>2. "r12" \in Written(stmt, k)
    BY <1>2 DEF Written
  <2> QED BY <2>1, <2>2 DEF Intact
<1>3. Memory = StartMem /\ stmt.op \notin ReturnOps \cup ResultOps
  BY DEF Memory, ReturnOps, ResultOps, CpuOps, UnaryOps
<1>4. SavedBy(stmt.op) = {}
  BY SavedSets
<1>5. ASSUME NEW k \in 1..n
      PROVE  StackArgs[k] = CallArgs[k] /\ StackArgs[k] = SysArgs[k]
  <2>1. k \in {1, 2, 3}
    BY <1>1
  <2> QED BY <2>1 DEF StackArgs, CallArgs, SysArgs
<1>6. \A k \in 1..n : StackArgs[k] \in Changed
  <2>1. CASE stmt.op = "call"
    <3>1. {CallArgs[k] : k \in DOMAIN a} \subseteq Changed
      BY <2>1 DEF Changed, SystemOps, ReturnOps
    <3> QED BY <1>1, <1>5, <3>1
  <2>2. CASE stmt.op = "syscall"
    <3>1. {SysArgs[k] : k \in DOMAIN a} \subseteq Changed
      BY <2>2 DEF Changed
    <3> QED BY <1>1, <1>5, <3>1
  <2> QED BY <2>1, <2>2
<1>7. \A k \in 1..n : IsSum(a[k]) => "r12" \in Changed \cup SavedBy(stmt.op)
  BY <1>1 DEF Changed, SavedBy
<1> QED BY <1>1, <1>2, <1>3, <1>4, <1>5, <1>6, <1>7 DEF Independent, Free

LEMMA CallDone ==
  ASSUME IsStatement(stmt), stmt.op = "call"
  PROVE  Works
<1> DEFINE a == stmt.arg  n == Len(stmt.arg)
<1>1. Body(stmt) = Stacked(a, CallArgs)
  <2>1. Body(stmt) = Call(a)
    BY DEF Body, CpuOps, UnaryOps
  <2> QED BY <2>1 DEF Call
<1>2. Plain(Body(stmt))
  BY <1>1, StackedOperands, PlainStacked
<1>3. ASSUME NEW u, NEW v, Entered(u), Leads(Body(stmt), u, v)
      PROVE  Served(u, v)
  <2>1. Gathered(u, v, a, StackArgs, n)
    BY <1>1, <1>3, StackedOperands, StackedGathers
  <2>2. Ready(u, v)
    BY <2>1, StackedOperands, GatheredReady
  <2>3. \A k \in 1..n : v.reg[CallArgs[k]] = Value(a[k])
    BY <2>1, StackedOperands DEF Gathered
  <2>4. Matches(v) => Effect(Start[stmt.dest])
    <3> SUFFICES ASSUME Matches(v) PROVE Effect(Start[stmt.dest])
      OBVIOUS
    <3>1. \A k \in 1..n : reg[CallArgs[k]] = V(k)
      <4>1. ASSUME NEW k \in 1..n PROVE CallArgs[k] \in Regs
        <5>1. k \in {1, 2, 3}
          BY StackedOperands
        <5> QED BY <5>1, Names DEF CallArgs
      <4> QED BY <2>3, <4>1, StackedOperands DEF Matches, V
    <3>2. stmt.op \notin SystemOps
      BY DEF SystemOps, ReturnOps
    <3> QED BY <3>1, <3>2, StackedOperands DEF Effect
  <2> QED BY <2>2, <2>4, StackedOperands DEF Served, Ready
<1>4. stmt.op \notin ReturnOps
  BY StackedOperands
<1> QED BY <1>2, <1>3, <1>4, BodyServes

\* rcx and r11, which the processor loses, are on the stack during the call.
LEMMA SyscallDone ==
  ASSUME IsStatement(stmt), stmt.op = "syscall"
  PROVE  Works
<1> DEFINE a == stmt.arg  n == Len(stmt.arg)
           load == <<Imm("rax", 39)>>  save == <<Push("rcx"), Push("r11")>>
           restore == <<Pop("r11"), Pop("rcx")>>
<1>1. /\ Body(stmt) = Stacked(a, SysArgs) \o load \o save \o <<Syscall>> \o restore
      /\ Plain(Stacked(a, SysArgs)) /\ Plain(load) /\ Plain(save) /\ Plain(<<Syscall>>) /\ Plain(restore)
  <2>1. Body(stmt) = SysCall(a)
    BY DEF Body, CpuOps, UnaryOps
  <2>2. Save(<<"rcx", "r11">>) = save /\ Restore(<<"rcx", "r11">>) = restore
    BY SaveFew, Zenon
  <2>3. Plain(Stacked(a, SysArgs))
    BY StackedOperands, PlainStacked
  <2>4. Plain(load) /\ Plain(save) /\ Plain(<<Syscall>>) /\ Plain(restore)
    BY PlainFew, AllStraight
  <2> HIDE DEF save, restore
  <2>5. Body(stmt) = Stacked(a, SysArgs) \o load \o save \o <<Syscall>> \o restore
    BY <2>1, <2>2, Zenon DEF SysCall
  <2> QED BY <2>3, <2>4, <2>5
<1>2. Plain(Body(stmt))
  BY <1>1, PlainConcat
<1>3. stmt.op \in SystemOps /\ "rax" \in Changed /\ Request = [nr |-> 39, args |-> [k \in DOMAIN a |-> V(k)]]
  BY DEF SystemOps, Changed, Request
<1>4. ASSUME NEW u, NEW v, Entered(u), Leads(Body(stmt), u, v)
      PROVE  Served(u, v)
  <2>1. PICK g, b, d, x : /\ Leads(Stacked(a, SysArgs), u, g) /\ Leads(load, g, b) /\ Leads(save, b, d)
                          /\ Leads(<<Syscall>>, d, x) /\ Leads(restore, x, v)
    <3> HIDE DEF load, save, restore
    <3> QED BY <1>1, <1>4, LeadsFive
  <2>2. PICK c, y : /\ b = Do(Imm("rax", 39), g) /\ c = Do(Push("rcx"), b) /\ d = Do(Push("r11"), c)
                    /\ x = Do(Syscall, d) /\ y = Do(Pop("r11"), x) /\ v = Do(Pop("rcx"), y)
    <3>1. b = Do(Imm("rax", 39), g) /\ x = Do(Syscall, d)
      BY <2>1, LeadsOne
    <3>2. PICK c : c = Do(Push("rcx"), b) /\ d = Do(Push("r11"), c)
      BY <2>1, TwoSteps
    <3>3. PICK y : y = Do(Pop("r11"), x) /\ v = Do(Pop("rcx"), y)
      BY <2>1, TwoSteps
    <3> QED BY <3>1, <3>2, <3>3
  <2>3. Gathered(u, g, a, StackArgs, n)
    BY <1>4, <2>1, StackedOperands, StackedGathers
  <2>4. Ready(u, g)
    BY <2>3, StackedOperands, GatheredReady
  <2>5. Sets(g, b, "rax", 39)
    <3>1. \A r \in Regs : b = Do(Imm(r, 39), g) => Sets(g, b, r, 39)
      BY <2>4, ImmSets DEF Ready
    <3> QED BY <2>2, <3>1, Names
  <2>6. /\ b \in State /\ b.stack = u.stack /\ b.mem = StartMem /\ b.calls = <<>> /\ b.reg["rax"] = 39
        /\ \A q \in Regs \ {"rax"} : b.reg[q] = g.reg[q]
    BY <2>4, <2>5 DEF Ready, Sets, Changes
  <2>7. /\ c \in State /\ c.stack = Append(b.stack, b.reg["rcx"]) /\ c.reg = b.reg /\ c.mem = b.mem
        /\ c.calls = b.calls
    <3>1. \A r \in Regs : c = Do(Push(r), b) =>
            /\ c \in State /\ c.stack = Append(b.stack, b.reg[r]) /\ c.reg = b.reg /\ c.mem = b.mem
            /\ c.calls = b.calls
      BY <2>6, PushParts
    <3> QED BY <2>2, <3>1, Names
  <2>8. /\ d \in State /\ d.stack = Append(c.stack, c.reg["r11"]) /\ d.reg = c.reg /\ d.mem = c.mem
        /\ d.calls = c.calls
    <3>1. \A r \in Regs : d = Do(Push(r), c) =>
            /\ d \in State /\ d.stack = Append(c.stack, c.reg[r]) /\ d.reg = c.reg /\ d.mem = c.mem
            /\ d.calls = c.calls
      BY <2>7, PushParts
    <3> QED BY <2>2, <3>1, Names
  <2>9. Answers(d, x)
    BY <2>2, <2>8, SyscallAnswers
  <2>10. /\ x \in State /\ x.stack = d.stack /\ x.mem = StartMem /\ x.calls = <<Asked(d)>>
         /\ x.reg["rax"] = SysResult /\ \A q \in Regs \ {"rax", "rcx", "r11"} : x.reg[q] = g.reg[q]
    BY <2>6, <2>7, <2>8, <2>9 DEF Answers
  <2>11. /\ Topped(x, c.stack, b.reg["r11"]) /\ c.stack = Append(u.stack, b.reg["rcx"])
         /\ u.stack \in Seq(Int) /\ b.reg["rcx"] \in Int
    <3>1. c.stack \in Seq(Int) /\ b.stack \in Seq(Int) /\ b.reg["rcx"] \in Int /\ b.reg["r11"] \in Int
      BY <2>6, <2>7, StateParts, Names
    <3> QED BY <2>6, <2>7, <2>8, <2>10, <3>1 DEF Topped
  <2>12. Popped(x, y, "r11", c.stack, b.reg["r11"])
    <3>1. \A r \in Regs : y = Do(Pop(r), x) => Popped(x, y, r, c.stack, b.reg["r11"])
      BY <2>10, <2>11, PopParts
    <3> QED BY <2>2, <3>1, Names
  <2>13. y \in State /\ Topped(y, u.stack, b.reg["rcx"])
    BY <2>11, <2>12 DEF Popped, Goes, Topped
  <2>14. Popped(y, v, "rcx", u.stack, b.reg["rcx"])
    <3>1. \A r \in Regs : v = Do(Pop(r), y) => Popped(y, v, r, u.stack, b.reg["rcx"])
      BY <2>13, PopParts
    <3> QED BY <2>2, <3>1, Names
  <2>15. v \in State /\ v.stack = u.stack /\ v.mem = StartMem /\ v.calls = <<Asked(d)>>
    BY <2>10, <2>12, <2>14 DEF Popped, Goes
  <2>16. v.reg["rax"] = SysResult /\ v.reg["rcx"] = g.reg["rcx"]
         /\ \A q \in Regs \ {"rax", "rcx", "r11"} : v.reg[q] = g.reg[q]
    BY <2>6, <2>10, <2>12, <2>14, Names DEF Popped, Goes
  <2>17. \A q \in UserRegs \ (Changed \cup SavedBy(stmt.op)) : v.reg[q] = Start[q]
    BY <1>3, <2>4, <2>16, Names DEF Ready
  <2>18. Asks(d, Request.nr, Request.args)
    <3> DEFINE args == [k \in DOMAIN a |-> V(k)]
    <3>1. DOMAIN args = 1..n /\ Len(args) = n /\ n \in 1..6
      BY StackedOperands
    <3>2. \A k \in 1..n : d.reg[SysArgs[k]] = args[k]
      <4>1. ASSUME NEW k \in 1..n PROVE SysArgs[k] \in Regs \ {"rax"}
        <5>1. k \in {1, 2, 3}
          BY StackedOperands
        <5> QED BY <5>1, Names DEF SysArgs
      <4> QED BY <2>3, <2>6, <2>7, <2>8, <4>1, StackedOperands DEF Gathered, V
    <3>3. d.reg["rax"] = 39 /\ Request.nr = 39 /\ Request.args = args
      BY <1>3, <2>6, <2>7, <2>8
    <3> HIDE DEF args
    <3> QED BY <3>1, <3>2, <3>3 DEF Asks
  <2>19. Matches(v) => Effect(Start[stmt.dest])
    <3> SUFFICES ASSUME Matches(v) PROVE Effect(Start[stmt.dest])
      OBVIOUS
    <3>1. calls = <<Asked(d)>> /\ reg["rax"] = SysResult
      BY <2>15, <2>16, StackedOperands, Names DEF Matches
    <3>2. RequestMade
      BY <2>18, <3>1, AsksRequest
    <3> QED BY <1>3, <3>1, <3>2, StackedOperands, SystemEffect
  <2> QED BY <2>15, <2>17, <2>19, StackedOperands DEF Served
<1>5. stmt.op \notin ReturnOps
  BY StackedOperands
<1> QED BY <1>2, <1>4, <1>5, BodyServes

-----------------------------------------------------------------------------
(* To user mode.                                                           *)

\* The stack is k, and of the user's registers only those of R are used.
Staged(t, k, R) ==
  /\ t \in State /\ t.stack = k /\ k \in Seq(Int) /\ t.mem = StartMem /\ t.calls = <<>>
  /\ \A q \in UserRegs \ R : t.reg[q] = Start[q]

\* What evaluating o by way of rax uses.
Uses(o) == {"rax"} \cup {r \in {"r12"} : IsSum(o)}

LEMMA EvalStaged ==
  ASSUME NEW s, NEW k, NEW R, Staged(s, k, R), NEW t, NEW o, IsOperand(o), RegsOf(o) \cap R = {},
         Leads(Eval(o, "rax"), s, t)
  PROVE  Staged(t, k, R \cup Uses(o)) /\ t.reg["rax"] = Value(o) /\ Value(o) \in Int
<1>1. s \in State /\ Fresh(s, o)
  BY OperandRegs DEF Staged, Fresh
<1>2. \A d \in Regs : Leads(Eval(o, d), s, t) =>
        Changes(s, t, Borrowed(o, d)) /\ t.reg[d] = Value(o) /\ Value(o) \in Int
  BY <1>1, EvalIntact
<1>3. Changes(s, t, Borrowed(o, "rax")) /\ t.reg["rax"] = Value(o) /\ Value(o) \in Int
  BY <1>2, Names
<1>4. Borrowed(o, "rax") \subseteq Uses(o) \cup {"r11"} /\ "r11" \notin UserRegs
  BY Names DEF Borrowed, Uses
<1> QED BY <1>3, <1>4, Names DEF Staged, Changes

LEMMA PushedStaged ==
  ASSUME NEW s, NEW k, NEW R, Staged(s, k, R), NEW t, NEW o, IsOperand(o), RegsOf(o) \cap R = {},
         Leads(Pushed(o), s, t)
  PROVE  Staged(t, Append(k, Value(o)), R \cup Uses(o)) /\ Value(o) \in Int
<1>1. PICK e : Leads(Eval(o, "rax"), s, e) /\ t = Do(Push("rax"), e)
  <2>1. IsCode(Eval(o, "rax")) /\ IsCode(<<Push("rax")>>)
    BY PlainEval, PlainCode, Tuples
  <2> QED BY <2>1, LeadsThrough, LeadsOne DEF Pushed
<1>2. Staged(e, k, R \cup Uses(o)) /\ e.reg["rax"] = Value(o) /\ Value(o) \in Int
  BY <1>1, EvalStaged
<1>3. e \in State /\ e.stack = k /\ k \in Seq(Int)
  BY <1>2 DEF Staged
<1>4. \A r \in Regs : t = Do(Push(r), e) =>
        /\ t \in State /\ t.stack = Append(e.stack, e.reg[r]) /\ t.reg = e.reg /\ t.mem = e.mem
        /\ t.calls = e.calls
  BY <1>3, PushParts
<1>5. /\ t \in State /\ t.stack = Append(k, Value(o)) /\ t.reg = e.reg /\ t.mem = e.mem
      /\ t.calls = e.calls
  BY <1>1, <1>2, <1>3, <1>4, Names
<1>6. Append(k, Value(o)) \in Seq(Int)
  BY <1>2, <1>3
<1> QED BY <1>2, <1>5, <1>6 DEF Staged

LEMMA PlainPushed ==
  ASSUME NEW o, IsOperand(o)
  PROVE  Plain(Pushed(o))
<1>1. Plain(Eval(o, "rax")) /\ Plain(<<Push("rax")>>)
  BY PlainEval, PlainFew, AllStraight
<1> QED BY <1>1, PlainConcat DEF Pushed

LEMMA EmptyStaged ==
  ASSUME NEW s, NEW k, NEW R, Staged(s, k, R), NEW t, t = Do(SetStack("rax"), s)
  PROVE  Staged(t, <<>>, R)
<1>1. t = WithStack(s, <<>>)
  BY DoIs DEF SetStack
<1> DEFINE k0 == <<>>
<1>2. k0 \in Seq(Int)
  OBVIOUS
<1>3. s \in State /\ t = WithStack(s, k0)
  BY <1>1 DEF Staged
<1> HIDE DEF k0
<1>4. t \in State /\ t.stack = k0 /\ t.reg = s.reg /\ t.mem = s.mem /\ t.calls = s.calls
  BY <1>2, <1>3, StackParts
<1>5. Staged(t, k0, R)
  BY <1>2, <1>4 DEF Staged
<1> QED BY <1>5 DEF k0

LEMMA UserOperands ==
  ASSUME IsStatement(stmt), stmt.op = "enter_user"
  PROVE  /\ IsOperand(stmt.arg[1]) /\ IsOperand(stmt.arg[2])
         /\ RegsOf(stmt.arg[1]) \cap ({"rax"} \cup Uses(stmt.arg[1])) = {}
         /\ RegsOf(stmt.arg[2]) \cap ({"rax"} \cup Uses(stmt.arg[1])) = {}
         /\ "rax" \in Changed /\ Uses(stmt.arg[1]) \subseteq Changed /\ Uses(stmt.arg[2]) \subseteq Changed
<1> DEFINE a == stmt.arg[1]  b == stmt.arg[2]
<1>1. Arity[stmt.op] = {2} /\ SavedBy(stmt.op) = {}
  BY SavedSets DEF Arity
<1>2. First(stmt) = {"rax"}
  BY DEF First
<1>3. /\ IsOperand(a) /\ IsOperand(b) /\ Intact(stmt, 1) /\ Intact(stmt, 2)
      /\ IsSum(a) \/ IsSum(b) => "r12" \in Changed
      /\ "rax" \in Written(stmt, 1) /\ "rax" \in Written(stmt, 2)
      /\ IsSum(a) => "r12" \in Written(stmt, 2)
  BY <1>1, <1>2, TwoOperands
<1>4. IsSum(a) => "r12" \notin RegsOf(a)
  BY DEF IsStatement, Apart
<1>5. "rax" \in Changed
  BY DEF Changed, SystemOps, ReturnOps
<1> QED BY <1>3, <1>4, <1>5 DEF Intact, Uses

LEMMA Appended ==
  ASSUME NEW k, NEW v, NEW t, k \in Seq(Int), v \in Int, t = Append(k, v)
  PROVE  /\ t \in Seq(Int) /\ Len(t) = Len(k) + 1 /\ t[Len(k) + 1] = v
         /\ \A i \in 1..Len(k) : t[i] = k[i]
OBVIOUS

LEMMA FiveAppended ==
  ASSUME NEW v \in Int, NEW w \in Int, NEW x \in Int, NEW y \in Int, NEW z \in Int
  PROVE  Append(Append(Append(Append(Append(<<>>, v), w), x), y), z) = <<v, w, x, y, z>>
<1> DEFINE one == Append(<<>>, v)  two == Append(one, w)  three == Append(two, x)  four == Append(three, y)
           all == Append(four, z)
<1>1. one \in Seq(Int) /\ Len(one) = 1 /\ one[1] = v
  OBVIOUS
<1> HIDE DEF one
<1>2. two \in Seq(Int) /\ Len(two) = 2 /\ two[1] = v /\ two[2] = w
  <2>1. /\ two \in Seq(Int) /\ Len(two) = Len(one) + 1 /\ two[Len(one) + 1] = w
        /\ \A i \in 1..Len(one) : two[i] = one[i]
    BY <1>1, Appended
  <2> HIDE DEF two
  <2> QED BY <1>1, <2>1
<1> HIDE DEF two
<1>3. three \in Seq(Int) /\ Len(three) = 3 /\ three[1] = v /\ three[2] = w /\ three[3] = x
  <2>1. /\ three \in Seq(Int) /\ Len(three) = Len(two) + 1 /\ three[Len(two) + 1] = x
        /\ \A i \in 1..Len(two) : three[i] = two[i]
    BY <1>2, Appended
  <2> HIDE DEF three
  <2> QED BY <1>2, <2>1
<1> HIDE DEF three
<1>4. four \in Seq(Int) /\ Len(four) = 4 /\ four[1] = v /\ four[2] = w /\ four[3] = x /\ four[4] = y
  <2>1. /\ four \in Seq(Int) /\ Len(four) = Len(three) + 1 /\ four[Len(three) + 1] = y
        /\ \A i \in 1..Len(three) : four[i] = three[i]
    BY <1>3, Appended
  <2> HIDE DEF four
  <2> QED BY <1>3, <2>1
<1> HIDE DEF four
<1>5. all \in Seq(Int) /\ Len(all) = 5 /\ all[1] = v /\ all[2] = w /\ all[3] = x /\ all[4] = y /\ all[5] = z
  <2>1. /\ all \in Seq(Int) /\ Len(all) = Len(four) + 1 /\ all[Len(four) + 1] = z
        /\ \A i \in 1..Len(four) : all[i] = four[i]
    BY <1>4, Appended
  <2> HIDE DEF all
  <2> QED BY <1>4, <2>1
<1> HIDE DEF all
<1>6. all = <<all[1], all[2], all[3], all[4], all[5]>>
  BY <1>5
<1>7. all = <<v, w, x, y, z>>
  BY <1>5, <1>6
<1> QED BY <1>7 DEF all, four, three, two, one

LEMMA UserDone ==
  ASSUME IsStatement(stmt), stmt.op = "enter_user"
  PROVE  Works
<1> DEFINE a == stmt.arg[1]  b == stmt.arg[2]
           start == <<Push("rax")>>  switch == <<SetStack("rax")>>
           five == Pushed(Num(35))  flags == Pushed(Num(514))  code27 == Pushed(Num(27))
           body == start \o Eval(a, "rax") \o switch \o five \o Pushed(a) \o flags \o code27 \o Pushed(b) \o <<Iretq>>
<1>1. Body(stmt) = body
  <2>1. Body(stmt) = EnterUser(a, b)
    BY DEF Body, CpuOps, UnaryOps
  <2> QED BY <2>1 DEF EnterUser
<1>2. /\ Plain(start) /\ Plain(Eval(a, "rax")) /\ Plain(switch) /\ Plain(five) /\ Plain(Pushed(a))
      /\ Plain(flags) /\ Plain(code27) /\ Plain(Pushed(b)) /\ Plain(<<Iretq>>)
  <2>1. Plain(start) /\ Plain(switch) /\ Plain(<<Iretq>>)
    BY PlainFew, AllStraight
  <2>2. Plain(Eval(a, "rax")) /\ Plain(Pushed(a)) /\ Plain(Pushed(b))
    BY UserOperands, PlainEval, PlainPushed
  <2>3. Plain(five) /\ Plain(flags) /\ Plain(code27)
    BY NumParts, PlainPushed
  <2> QED BY <2>1, <2>2, <2>3
<1> HIDE DEF start, switch, five, flags, code27
<1>3. Plain(start \o Eval(a, "rax") \o switch \o five \o Pushed(a)) /\ Plain(Body(stmt))
  BY <1>1, <1>2, PlainConcat
<1>4. Emit(stmt) = Body(stmt)
  <2>1. stmt.op \notin ReturnOps /\ Saved(stmt.op) = <<>>
    BY SavedLists DEF ReturnOps
  <2>2. Save(<<>>) = <<>> /\ Restore(<<>>) = <<>>
    BY SaveFew
  <2>3. Emit(stmt) = <<>> \o Body(stmt) \o <<>> \o <<>>
    BY <2>1, <2>2, Zenon DEF Emit
  <2> QED BY <1>3, <2>3, PlainCode, NothingAround
<1>5. ASSUME NEW s, Begun(s), Leads(Emit(stmt), s, Now)
      PROVE  Fulfilled
  <2>1. PICK w, x, y, z : /\ Leads(start \o Eval(a, "rax") \o switch \o five \o Pushed(a), s, w)
                          /\ Leads(flags, w, x) /\ Leads(code27, x, y) /\ Leads(Pushed(b), y, z)
                          /\ Leads(<<Iretq>>, z, Now)
    BY <1>1, <1>2, <1>3, <1>4, <1>5, LeadsFive
  <2>2. PICK c, d, e, f : /\ Leads(start, s, c) /\ Leads(Eval(a, "rax"), c, d) /\ Leads(switch, d, e)
                          /\ Leads(five, e, f) /\ Leads(Pushed(a), f, w)
    BY <1>2, <2>1, LeadsFive
  <2> DEFINE k == Append(s.stack, s.reg["rax"])  R == {"rax"} \cup Uses(a)
             none == <<>>  one == Append(none, 35)  two == Append(one, Value(a))  three == Append(two, 514)
             four == Append(three, 27)  all == Append(four, Value(b))
  <2>3. Staged(c, k, {})
    <3>1. s \in State /\ s.reg = Start /\ s.mem = StartMem /\ s.calls = <<>>
      BY <1>5 DEF Begun
    <3>2. \A r \in Regs : c = Do(Push(r), s) =>
            /\ c \in State /\ c.stack = Append(s.stack, s.reg[r]) /\ c.reg = s.reg /\ c.mem = s.mem
            /\ c.calls = s.calls
      BY <3>1, PushParts
    <3>3. c = Do(Push("rax"), s)
      BY <2>2, LeadsOne DEF start
    <3>4. c \in State /\ c.stack = k /\ c.reg = Start /\ c.mem = StartMem /\ c.calls = <<>>
      BY <3>1, <3>2, <3>3, Names
    <3>5. k \in Seq(Int)
      BY <3>4, StateParts
    <3> QED BY <3>4, <3>5 DEF Staged
  <2> HIDE DEF k
  <2>4. Staged(d, k, R)
    <3>1. RegsOf(a) \cap {} = {} /\ {} \cup Uses(a) = R
      BY DEF Uses
    <3> HIDE DEF R
    <3> QED BY <2>2, <2>3, <3>1, UserOperands, EvalStaged
  <2>5. Staged(e, none, R)
    BY <2>2, <2>4, LeadsOne, EmptyStaged DEF switch
  <2>6. /\ RegsOf(a) \cap R = {} /\ RegsOf(b) \cap R = {} /\ R \cup Uses(a) = R
        /\ \A n \in Int : R \cup Uses(Num(n)) = R /\ RegsOf(Num(n)) \cap R = {}
    BY UserOperands, NumParts DEF Uses
  <2> HIDE DEF none, R
  <2>7. \A n \in Int : \A h, p, q :
          Staged(p, h, R) /\ Leads(Pushed(Num(n)), p, q) => Staged(q, Append(h, n), R)
    <3>1. ASSUME NEW n \in Int, NEW h, NEW p, NEW q, Staged(p, h, R), Leads(Pushed(Num(n)), p, q)
          PROVE  Staged(q, Append(h, n), R)
      <4>1. IsOperand(Num(n)) /\ Value(Num(n)) = n /\ RegsOf(Num(n)) \cap R = {} /\ R \cup Uses(Num(n)) = R
        BY <2>6, NumParts
      <4>2. Staged(q, Append(h, Value(Num(n))), R \cup Uses(Num(n)))
        BY <3>1, <4>1, PushedStaged
      <4> QED BY <4>1, <4>2
    <3> QED BY <3>1
  <2>8. Staged(f, one, R)
    <3>1. 35 \in Int /\ Leads(Pushed(Num(35)), e, f)
      BY <2>2 DEF five
    <3> QED BY <2>5, <2>7, <3>1
  <2> HIDE DEF one
  <2>9. Staged(w, two, R)
    <3>1. Staged(w, Append(one, Value(a)), R \cup Uses(a))
      BY <2>2, <2>6, <2>8, UserOperands, PushedStaged
    <3> QED BY <2>6, <3>1
  <2> HIDE DEF two
  <2>10. Staged(x, three, R)
    <3>1. 514 \in Int /\ Leads(Pushed(Num(514)), w, x)
      BY <2>1 DEF flags
    <3> QED BY <2>7, <2>9, <3>1
  <2> HIDE DEF three
  <2>11. Staged(y, four, R)
    <3>1. 27 \in Int /\ Leads(Pushed(Num(27)), x, y)
      BY <2>1 DEF code27
    <3> QED BY <2>7, <2>10, <3>1
  <2> HIDE DEF four
  <2>12. Staged(z, all, R \cup Uses(b))
    BY <2>1, <2>6, <2>11, UserOperands, PushedStaged
  <2>13. all = <<35, Value(a), 514, 27, Value(b)>>
    <3>1. Append(Append(Append(Append(Append(<<>>, 35), Value(a)), 514), 27), Value(b)) = <<35, Value(a), 514, 27, Value(b)>>
      <4>1. Value(a) \in Int /\ Value(b) \in Int
        BY <2>1, <2>2, <2>4, <2>6, <2>8, <2>11, UserOperands, PushedStaged
      <4> QED BY <4>1, FiveAppended
    <3> QED BY <3>1 DEF all, four, three, two, one, none
  <2> HIDE DEF all
  <2>14. Now = Left(z)
    <3>1. Now = Do(Iretq, z)
      BY <2>1, LeadsOne
    <3> QED BY <3>1, DoIs DEF Iretq
  <2>15. reg = z.reg /\ stack = <<>> /\ mem = z.mem /\ calls = Append(z.calls, [nr |-> ToUser, args |-> z.stack])
    <3>1. /\ Now.reg = z.reg /\ Now.stack = <<>> /\ Now.mem = z.mem
          /\ Now.calls = Append(z.calls, [nr |-> ToUser, args |-> z.stack])
      BY <2>14 DEF Left, Config
    <3> QED BY <3>1, NowParts
  <2>16. /\ z.stack = all /\ z.mem = StartMem /\ z.calls = <<>>
         /\ \A q \in UserRegs \ (R \cup Uses(b)) : z.reg[q] = Start[q]
    BY <2>12 DEF Staged
  <2>17. calls = <<[nr |-> ToUser, args |-> <<35, V(1), 514, 27, V(2)>>]>>
    BY <2>13, <2>15, <2>16 DEF V
  <2>18. stmt.op \notin SystemOps \cup ResultOps /\ Memory = StartMem
    BY DEF SystemOps, ReturnOps, ResultOps, CpuOps, UnaryOps, Memory
  <2>19. Effect(Start[stmt.dest])
    BY <2>17, <2>18 DEF Effect
  <2>20. Kept
    <3>1. R \cup Uses(b) \subseteq Changed
      BY UserOperands DEF R
    <3> QED BY <2>15, <2>16, <3>1 DEF Kept
  <2> QED BY <2>15, <2>16, <2>18, <2>19, <2>20 DEF Fulfilled
<1> QED BY <1>3, <1>5 DEF Works

-----------------------------------------------------------------------------
(* Contexts.                                                               *)

\* The place of each register in a context.
Slot == [rax |-> 1, rbx |-> 2, rcx |-> 3, rdx |-> 4, rsi |-> 5, rdi |-> 6, r8 |-> 7, r9 |-> 8, r10 |-> 9,
         r11 |-> 10, r12 |-> 11, r13 |-> 12, r14 |-> 13, r15 |-> 14, rbp |-> 15]

LEMMA Slots ==
  /\ DOMAIN Context = 1..15 /\ Len(Context) = 15
  /\ \A i \in 1..15 : Context[i] \in Regs /\ Slot[Context[i]] = i /\ (i # 14 => Context[i] # "r15")
  /\ Context[14] = "r15"
  /\ \A r \in Regs : Slot[r] \in 1..15 /\ Context[Slot[r]] = r
<1>1. DOMAIN Context = 1..15 /\ Len(Context) = 15 /\ Context[14] = "r15"
  BY DEF Context
<1>2. ASSUME NEW i \in 1..15
      PROVE  Context[i] \in Regs /\ Slot[Context[i]] = i /\ (i # 14 => Context[i] # "r15")
  <2>1. i \in {1, 2, 3, 4, 5, 6, 7, 8, 9, 10, 11, 12, 13, 14, 15}
    OBVIOUS
  <2> QED BY <2>1 DEF Context, Slot, Regs
<1>3. ASSUME NEW r \in Regs
      PROVE  Slot[r] \in 1..15 /\ Context[Slot[r]] = r
  BY DEF Context, Slot, Regs
<1> QED BY <1>1, <1>2, <1>3

\* Sixteen cells in a row are different.
LEMMA CellsDiffer ==
  ASSUME NEW a, a \in Int, NEW i, i \in 0..15, NEW j, j \in 0..15, Cell(a + i) = Cell(a + j)
  PROVE  i = j
<1> DEFINE N == MemSize  x == a + i  y == a + j  p == x \div N  q == y \div N
<1>1. N \in Nat /\ N > 15
  BY LoweringAssumption, ProcessorAssumption DEF NicCell
<1>2. x \in Int /\ y \in Int /\ x - y = i - j /\ p \in Int /\ q \in Int
  BY <1>1
<1>3. x = N * p + (x % N) /\ y = N * q + (y % N)
  BY <1>1, <1>2
<1>4. x % N = y % N
  BY DEF Cell
<1> HIDE DEF N, x, y, p, q
<1>5. x - y = N * (p - q)
  BY <1>1, <1>2, <1>3, <1>4
<1>6. x - y \in -15..15
  BY <1>2
<1>7. p - q = 0
  <2>1. CASE p - q >= 1
    <3>1. N * (p - q) >= N
      BY <1>1, <1>2, <2>1
    <3> QED BY <1>1, <1>5, <1>6, <3>1
  <2>2. CASE p - q <= -1
    <3>1. N * (p - q) <= -N
      BY <1>1, <1>2, <2>2
    <3> QED BY <1>1, <1>5, <1>6, <3>1
  <2> QED BY <1>2, <2>1, <2>2
<1>8. x = y
  BY <1>1, <1>2, <1>5, <1>7
<1> QED BY <1>2, <1>8

Spills == [i \in DOMAIN Context |-> Store(Temp, "none", i - 1, Context[i])]
Reloads == [i \in DOMAIN Context |-> Load(Context[i], Temp, "none", i - 1)]

LEMMA PlainContext == Plain(Spills) /\ Plain(Reloads) /\ Len(Spills) = 15 /\ Len(Reloads) = 15
<1>1. Spills \in Seq({Spills[i] : i \in 1..15}) /\ Len(Spills) = 15
  BY Slots DEF Spills
<1>2. \A x \in {Spills[i] : i \in 1..15} : x.op \in Straight
  BY Slots, AllStraight DEF Spills
<1>3. Reloads \in Seq({Reloads[i] : i \in 1..15}) /\ Len(Reloads) = 15
  BY Slots DEF Reloads
<1>4. \A x \in {Reloads[i] : i \in 1..15} : x.op \in Straight
  BY Slots, AllStraight DEF Reloads
<1>5. Plain(Spills)
  BY <1>1, <1>2, PlainIf
<1>6. Plain(Reloads)
  BY <1>3, <1>4, PlainIf
<1> QED BY <1>1, <1>3, <1>5, <1>6

\* Fifteen steps, each from what the one before it has reached.
LEMMA Fifteen ==
  ASSUME NEW S, 0 \in S, \A k \in 1..15 : k - 1 \in S => k \in S
  PROVE  15 \in S
<1>1. 1 \in S /\ 2 \in S /\ 3 \in S
  OBVIOUS
<1>2. 4 \in S /\ 5 \in S /\ 6 \in S
  BY <1>1
<1>3. 7 \in S /\ 8 \in S /\ 9 \in S
  BY <1>2
<1>4. 10 \in S /\ 11 \in S /\ 12 \in S
  BY <1>3
<1> QED BY <1>4

\* From s, the first n registers are stored from address a on.
Spilled(s, t, a, n) ==
  /\ t \in State /\ t.reg = s.reg /\ t.stack = s.stack /\ t.calls = s.calls
  /\ \A i \in 1..n : t.mem[Cell(a + (i - 1))] = s.reg[Context[i]]
  /\ \A c \in Cells \ {Cell(a + (i - 1)) : i \in 1..n} : t.mem[c] = s.mem[c]

LEMMA SpillNext ==
  ASSUME NEW s, NEW t, NEW u, NEW a, a \in Int, NEW n, n \in 1..15, s.reg[Temp] = a, s \in State,
         Spilled(s, t, a, n - 1), u = Do(Spills[n], t)
  PROVE  Spilled(s, u, a, n)
<1>1. /\ t \in State /\ t.reg = s.reg /\ t.stack = s.stack /\ t.calls = s.calls
      /\ Context[n] \in Regs /\ Temp \in Regs
      /\ u = Do(Store(Temp, "none", n - 1, Context[n]), t)
  BY Slots, Names DEF Spilled, Spills
<1>2. \A x \in Regs \cup {"none"} : u = Do(Store(Temp, x, n - 1, Context[n]), t) =>
        Writes(t, u, Place(t, Temp, x, n - 1), t.reg[Context[n]])
  BY <1>1, StoreParts
<1>3. Writes(t, u, Place(t, Temp, "none", n - 1), t.reg[Context[n]])
  BY <1>1, <1>2
<1>4. Place(t, Temp, "none", n - 1) = Cell(a + (n - 1)) /\ Cell(a + (n - 1)) \in Cells
  <2>1. Place(t, Temp, "none", n - 1) = Cell(a + 0 + (n - 1))
    BY <1>1 DEF Place, IndexIn
  <2>2. a + 0 + (n - 1) = a + (n - 1) /\ a + (n - 1) \in Int
    OBVIOUS
  <2> QED BY <2>1, <2>2, CellParts
<1> DEFINE e == Cell(a + (n - 1))
<1>5. /\ u \in State /\ u.reg = s.reg /\ u.stack = s.stack /\ u.calls = s.calls
      /\ u.mem = [t.mem EXCEPT ![e] = s.reg[Context[n]]]
  BY <1>1, <1>3, <1>4 DEF Writes
<1>6. t.mem \in [Cells -> Int]
  BY <1>1, StateParts
<1>7. ASSUME NEW i \in 1..n PROVE u.mem[Cell(a + (i - 1))] = s.reg[Context[i]]
  <2>1. CASE i = n
    BY <1>4, <1>5, <1>6, <2>1
  <2>2. CASE i # n
    <3>1. i \in 1..(n - 1) /\ i - 1 \in 0..15 /\ n - 1 \in 0..15 /\ i - 1 # n - 1
      BY <2>2
    <3>2. Cell(a + (i - 1)) # e
      BY <3>1, CellsDiffer
    <3>3. Cell(a + (i - 1)) \in Cells
      BY <3>1, CellParts
    <3>4. t.mem[Cell(a + (i - 1))] = s.reg[Context[i]]
      BY <3>1 DEF Spilled
    <3> HIDE DEF e
    <3> QED BY <1>5, <1>6, <3>2, <3>3, <3>4
  <2> QED BY <2>1, <2>2
<1>8. ASSUME NEW c \in Cells \ {Cell(a + (i - 1)) : i \in 1..n}
      PROVE  u.mem[c] = s.mem[c]
  <2>1. c # e /\ c \notin {Cell(a + (i - 1)) : i \in 1..(n - 1)}
    OBVIOUS
  <2>2. t.mem[c] = s.mem[c]
    BY <2>1 DEF Spilled
  <2> HIDE DEF e
  <2> QED BY <1>5, <1>6, <2>1, <2>2
<1> QED BY <1>5, <1>7, <1>8 DEF Spilled

LEMMA SpillLeads ==
  ASSUME NEW s, NEW t, NEW a, a \in Int, s \in State, s.reg[Temp] = a, Leads(Spills, s, t)
  PROVE  Spilled(s, t, a, 15)
<1>1. PICK run : /\ run[0] = s /\ run[15] = t
                 /\ \A k \in 1..15 : run[k] = Do(Spills[k], run[k - 1])
  BY PlainContext DEF Leads
<1> DEFINE S == {k \in 0..15 : Spilled(s, run[k], a, k)}
<1>2. 0 \in S
  <2>1. Spilled(s, s, a, 0)
    BY DEF Spilled
  <2> QED BY <1>1, <2>1
<1>3. ASSUME NEW k \in 1..15, k - 1 \in S PROVE k \in S
  <2>1. Spilled(s, run[k - 1], a, k - 1)
    BY <1>3
  <2>2. run[k] = Do(Spills[k], run[k - 1])
    BY <1>1
  <2>3. Spilled(s, run[k], a, k)
    BY <2>1, <2>2, SpillNext
  <2> QED BY <2>3
<1>4. 15 \in S
  <2> HIDE DEF S
  <2> QED BY <1>2, <1>3, Fifteen
<1> QED BY <1>1, <1>4

\* The first n registers are loaded from address a on.
Reloaded(s, t, a, n) ==
  /\ t \in State /\ t.mem = s.mem /\ t.stack = s.stack /\ t.calls = s.calls /\ t.reg["r15"] = a
  /\ \A i \in 1..n : t.reg[Context[i]] = s.mem[Cell(a + (i - 1))]

\* r15, through which the loads go, is loaded with what it holds.
LEMMA ReloadNext ==
  ASSUME NEW s, NEW t, NEW u, NEW a, a \in Int, NEW n, n \in 1..15, s \in State, s.mem[Cell(a + 13)] = a,
         Reloaded(s, t, a, n - 1), u = Do(Reloads[n], t)
  PROVE  Reloaded(s, u, a, n)
<1>1. /\ t \in State /\ t.mem = s.mem /\ t.stack = s.stack /\ t.calls = s.calls
      /\ Context[n] \in Regs /\ Temp \in Regs /\ Temp = "r15" /\ t.reg[Temp] = a
      /\ u = Do(Load(Context[n], Temp, "none", n - 1), t)
  BY Slots, Names DEF Reloaded, Reloads
<1>2. IsPlace(Temp, "none", n - 1)
  BY <1>1 DEF IsPlace
<1>3. Changes(t, u, {Context[n]}) /\ u.reg[Context[n]] = t.mem[Place(t, Temp, "none", n - 1)]
  <2>0. t \in State
    BY <1>1
  <2>1. \A d, b, x, m : d \in Regs /\ IsPlace(b, x, m) /\ u = Do(Load(d, b, x, m), t) =>
          Changes(t, u, {d}) /\ u.reg[d] = t.mem[Place(t, b, x, m)]
    BY <2>0, LoadAnywhere
  <2> QED BY <1>1, <1>2, <2>1
<1>4. Place(t, Temp, "none", n - 1) = Cell(a + (n - 1))
  <2>1. Place(t, Temp, "none", n - 1) = Cell(a + 0 + (n - 1))
    BY <1>1 DEF Place, IndexIn
  <2>2. a + 0 + (n - 1) = a + (n - 1)
    OBVIOUS
  <2> QED BY <2>1, <2>2
<1>5. /\ u \in State /\ u.mem = s.mem /\ u.stack = s.stack /\ u.calls = s.calls
      /\ u.reg[Context[n]] = s.mem[Cell(a + (n - 1))]
      /\ \A q \in Regs \ {Context[n]} : u.reg[q] = t.reg[q]
  BY <1>1, <1>3, <1>4 DEF Changes
<1>6. u.reg["r15"] = a
  <2>1. CASE n = 14
    <3>1. a + (n - 1) = a + 13 /\ Context[n] = "r15"
      BY <2>1, Slots
    <3> QED BY <1>5, <3>1
  <2>2. CASE n # 14
    <3>1. "r15" \in Regs \ {Context[n]}
      BY <2>2, Slots, Names
    <3> QED BY <1>1, <1>5, <3>1
  <2> QED BY <2>1, <2>2
<1>7. ASSUME NEW i \in 1..n PROVE u.reg[Context[i]] = s.mem[Cell(a + (i - 1))]
  <2>1. CASE i = n
    BY <1>5, <2>1
  <2>2. CASE i # n
    <3>1. i \in 1..(n - 1) /\ i \in 1..15
      BY <2>2
    <3>2. Context[i] \in Regs \ {Context[n]}
      BY <2>2, <3>1, Slots
    <3>3. t.reg[Context[i]] = s.mem[Cell(a + (i - 1))]
      BY <3>1 DEF Reloaded
    <3> QED BY <1>5, <3>2, <3>3
  <2> QED BY <2>1, <2>2
<1> QED BY <1>5, <1>6, <1>7 DEF Reloaded

LEMMA ReloadLeads ==
  ASSUME NEW s, NEW t, NEW a, a \in Int, s \in State, s.reg[Temp] = a, s.mem[Cell(a + 13)] = a,
         Leads(Reloads, s, t)
  PROVE  Reloaded(s, t, a, 15)
<1>1. PICK run : /\ run[0] = s /\ run[15] = t
                 /\ \A k \in 1..15 : run[k] = Do(Reloads[k], run[k - 1])
  BY PlainContext DEF Leads
<1> DEFINE S == {k \in 0..15 : Reloaded(s, run[k], a, k)}
<1>2. 0 \in S
  <2>1. Reloaded(s, s, a, 0)
    BY Names DEF Reloaded
  <2> QED BY <1>1, <2>1
<1>3. ASSUME NEW k \in 1..15, k - 1 \in S PROVE k \in S
  <2>1. Reloaded(s, run[k - 1], a, k - 1)
    BY <1>3
  <2>2. run[k] = Do(Reloads[k], run[k - 1])
    BY <1>1
  <2>3. Reloaded(s, run[k], a, k)
    BY <2>1, <2>2, ReloadNext
  <2> QED BY <2>3
<1>4. 15 \in S
  <2> HIDE DEF S
  <2> QED BY <1>2, <1>3, Fifteen
<1> QED BY <1>1, <1>4

LEMMA StoreStack ==
  ASSUME NEW s, s \in State, NEW b, NEW n, IsPlace(b, "none", n), NEW t, t = Do(Store(b, "none", n, "rsp"), s)
  PROVE  \E y \in Int : Writes(s, t, Place(s, b, "none", n), y)
<1> DEFINE a == Place(s, b, "none", n)  y == WorthIn(s, "rsp")
<1>1. t = PutAt(s, a, y)
  <2>1. \A q, p, h, z : Do(Store(q, p, h, z), s) = PutAt(s, Place(s, q, p, h), WorthIn(s, z))
    BY DoEach, Zenon
  <2> QED BY <2>1, Zenon
<1>2. y \in Int
  <2>1. Len(s.stack) \in Nat
    BY StateParts
  <2> QED BY <2>1 DEF WorthIn, StackTop
<1>3. a \in Cells
  <2>1. \A x \in Regs \cup {"none"} : x = "none" => Place(s, b, x, n) \in Cells
    BY PlaceParts DEF IsPlace
  <2> QED BY <2>1
<1> HIDE DEF a, y
<1>4. Writes(s, t, a, y)
  BY <1>1, <1>2, <1>3, PutAtParts DEF Writes
<1> QED BY <1>2, <1>4 DEF a

\* What is in the block at a after the registers of s have been saved there.
SavedAt(s, m, a) ==
  /\ \A i \in 1..15 : i # 14 => m[Cell(a + (i - 1))] = s.reg[Context[i]]
  /\ m[Cell(a + 13)] = a
  /\ \A c \in Cells \ ContextCells(a) : m[c] = s.mem[c]

CtxSaves(s, t, a) ==
  /\ t \in State /\ t.stack = s.stack /\ t.calls = s.calls
  /\ \A q \in UserRegs : t.reg[q] = s.reg[q]
  /\ SavedAt(s, t.mem, a)

LEMMA CtxSaveIs ==
  ASSUME NEW base
  PROVE  /\ CtxSave(base) = <<Push(base), Mov(Temp, base)>> \o Spills
                              \o <<Mov("r11", base), Store(Temp, "none", 15, "rsp"), Pop(base)>>
         /\ CtxLoad(base) = <<Mov(Temp, base)>> \o Reloads
         /\ Plain(CtxSave(base)) /\ Plain(CtxLoad(base))
         /\ Plain(<<Push(base), Mov(Temp, base)>>) /\ Plain(<<Mov(Temp, base)>>)
         /\ Plain(<<Mov("r11", base), Store(Temp, "none", 15, "rsp"), Pop(base)>>)
<1>1. /\ CtxSave(base) = <<Push(base), Mov(Temp, base)>> \o Spills
                           \o <<Mov("r11", base), Store(Temp, "none", 15, "rsp"), Pop(base)>>
      /\ CtxLoad(base) = <<Mov(Temp, base)>> \o Reloads
  BY DEF CtxSave, CtxLoad, Spills, Reloads
<1>2. Plain(<<Push(base), Mov(Temp, base)>>)
  BY PlainFew, AllStraight
<1>3. Plain(<<Mov("r11", base), Store(Temp, "none", 15, "rsp"), Pop(base)>>)
  BY PlainFew, AllStraight
<1>4. Plain(<<Mov(Temp, base)>>)
  BY PlainFew, AllStraight
<1> QED BY <1>1, <1>2, <1>3, <1>4, PlainContext, PlainConcat

LEMMA CtxSaveLeads ==
  ASSUME NEW s, s \in State, NEW base, base \in UserRegs, NEW t, NEW a, a = s.reg[base], Leads(CtxSave(base), s, t)
  PROVE  CtxSaves(s, t, a) /\ a \in Int
<1>1. base \in Regs /\ base # Temp /\ base # "r11" /\ a \in Int /\ Temp \in Regs /\ "r11" \in Regs /\ Temp # "r11"
  BY Names, StateParts
<1>2. PICK c, d : /\ Leads(<<Push(base), Mov(Temp, base)>>, s, c) /\ Leads(Spills, c, d)
                  /\ Leads(<<Mov("r11", base), Store(Temp, "none", 15, "rsp"), Pop(base)>>, d, t)
  BY CtxSaveIs, PlainContext, LeadsThree
<1>3. PICK b : b = Do(Push(base), s) /\ c = Do(Mov(Temp, base), b)
  BY <1>2, TwoSteps
<1>4. PICK e, f : /\ e = Do(Mov("r11", base), d) /\ f = Do(Store(Temp, "none", 15, "rsp"), e)
                  /\ t = Do(Pop(base), f)
  BY <1>2, ThreeSteps
<1>5. b \in State /\ b.stack = Append(s.stack, a) /\ b.reg = s.reg /\ b.mem = s.mem /\ b.calls = s.calls
  BY <1>1, <1>3, PushParts
<1>6. Changes(b, c, {Temp}) /\ c.reg[Temp] = b.reg[base]
  BY <1>1, <1>3, <1>5, MovParts
<1>7. /\ c \in State /\ c.stack = b.stack /\ c.mem = s.mem /\ c.calls = s.calls /\ c.reg[Temp] = a
      /\ \A q \in Regs \ {Temp} : c.reg[q] = s.reg[q]
  BY <1>5, <1>6 DEF Changes
<1>8. Spilled(c, d, a, 15)
  BY <1>1, <1>2, <1>7, SpillLeads
<1>9. d \in State /\ d.reg = c.reg /\ d.stack = c.stack /\ d.calls = c.calls
  BY <1>8 DEF Spilled
<1>10. Changes(d, e, {"r11"})
  <2>1. \A r \in Regs : e = Do(Mov(r, base), d) => Changes(d, e, {r})
    BY <1>1, <1>9, MovParts
  <2> QED BY <1>1, <1>4, <2>1
<1>11. /\ e \in State /\ e.stack = d.stack /\ e.mem = d.mem /\ e.calls = d.calls
       /\ \A q \in Regs \ {"r11"} : e.reg[q] = d.reg[q]
  BY <1>10 DEF Changes
<1>12. Place(e, Temp, "none", 15) = Cell(a + 15)
  <2>1. e.reg[Temp] = a
    BY <1>1, <1>7, <1>9, <1>11
  <2>2. Place(e, Temp, "none", 15) = Cell(a + 0 + 15) /\ a + 0 + 15 = a + 15
    BY <1>1, <2>1 DEF Place, IndexIn
  <2> QED BY <2>2
<1>13. PICK y \in Int : Writes(e, f, Cell(a + 15), y)
  <2>1. IsPlace(Temp, "none", 15)
    BY <1>1 DEF IsPlace
  <2> QED BY <1>4, <1>11, <1>12, <2>1, StoreStack
<1>14. f \in State /\ f.reg = e.reg /\ f.stack = e.stack /\ f.calls = e.calls /\ f.mem = [d.mem EXCEPT ![Cell(a + 15)] = y]
  BY <1>11, <1>13 DEF Writes
<1>15. Topped(f, s.stack, a)
  <2>1. s.stack \in Seq(Int)
    BY StateParts
  <2> QED BY <1>1, <1>5, <1>7, <1>9, <1>11, <1>14, <2>1 DEF Topped
<1>16. Popped(f, t, base, s.stack, a)
  BY <1>1, <1>4, <1>14, <1>15, PopParts
<1>17. /\ t \in State /\ t.stack = s.stack /\ t.calls = s.calls /\ t.mem = f.mem /\ t.reg[base] = a
       /\ \A q \in Regs \ {base} : t.reg[q] = f.reg[q]
  BY <1>5, <1>7, <1>9, <1>11, <1>14, <1>16 DEF Popped, Goes
<1>18. ASSUME NEW q \in UserRegs PROVE t.reg[q] = s.reg[q]
  <2>1. q \in Regs /\ q # Temp /\ q # "r11"
    BY Names
  <2> QED BY <1>7, <1>9, <1>11, <1>14, <1>17, <2>1
<1>19. d.mem \in [Cells -> Int]
  BY <1>9, StateParts
<1>20. ASSUME NEW i \in 1..15 PROVE t.mem[Cell(a + (i - 1))] = c.reg[Context[i]]
  <2>1. i - 1 \in 0..15 /\ 15 \in 0..15 /\ i - 1 # 15 /\ a + (i - 1) \in Int
    BY <1>1
  <2>2. Cell(a + (i - 1)) # Cell(a + 15)
    BY <1>1, <2>1, CellsDiffer
  <2>3. Cell(a + (i - 1)) \in Cells
    BY <2>1, CellParts
  <2>4. d.mem[Cell(a + (i - 1))] = c.reg[Context[i]]
    BY <1>8 DEF Spilled
  <2> QED BY <1>14, <1>17, <1>19, <2>2, <2>3, <2>4
<1>21. ASSUME NEW i \in 1..15, i # 14 PROVE t.mem[Cell(a + (i - 1))] = s.reg[Context[i]]
  <2>1. Context[i] \in Regs \ {Temp}
    BY <1>21, Slots, Names
  <2> QED BY <1>7, <1>20, <2>1
<1>22. t.mem[Cell(a + 13)] = a
  <2>1. 14 \in 1..15 /\ 14 - 1 = 13
    OBVIOUS
  <2>2. t.mem[Cell(a + 13)] = c.reg[Context[14]]
    BY <1>20, <2>1
  <2> QED BY <1>7, <2>2, Slots, Names
<1>23. ASSUME NEW x \in Cells \ ContextCells(a) PROVE t.mem[x] = s.mem[x]
  <2>1. x # Cell(a + 15)
    BY <1>23 DEF ContextCells
  <2>2. x \in Cells \ {Cell(a + (i - 1)) : i \in 1..15}
    <3>1. \A i \in 1..15 : i - 1 \in 0..15
      OBVIOUS
    <3> QED BY <3>1 DEF ContextCells
  <2>3. d.mem[x] = c.mem[x]
    BY <1>8, <2>2 DEF Spilled
  <2> QED BY <1>7, <1>14, <1>17, <1>19, <2>1, <2>3
<1> QED BY <1>1, <1>17, <1>18, <1>21, <1>22, <1>23 DEF CtxSaves, SavedAt

LEMMA CtxLoadLeads ==
  ASSUME NEW s, s \in State, NEW base, base \in UserRegs, NEW t, NEW a, a = s.reg[base], s.mem[Cell(a + 13)] = a,
         Leads(CtxLoad(base), s, t)
  PROVE  Reloaded(s, t, a, 15)
<1>1. base \in Regs /\ a \in Int /\ Temp \in Regs
  BY Names, StateParts
<1>2. PICK b : Leads(<<Mov(Temp, base)>>, s, b) /\ Leads(Reloads, b, t)
  BY CtxSaveIs, PlainContext, PlainCode, LeadsThrough
<1>3. b = Do(Mov(Temp, base), s)
  BY <1>2, LeadsOne
<1>4. Changes(s, b, {Temp}) /\ b.reg[Temp] = s.reg[base]
  BY <1>1, <1>3, MovParts
<1>5. b \in State /\ b.mem = s.mem /\ b.stack = s.stack /\ b.calls = s.calls /\ b.reg[Temp] = a
  BY <1>4 DEF Changes
<1>6. Reloaded(b, t, a, 15)
  BY <1>1, <1>2, <1>5, ReloadLeads
<1> QED BY <1>5, <1>6 DEF Reloaded

\* The block holds what WithContext says.
LEMMA ContextIs ==
  ASSUME NEW s, s.reg = Start, s.mem = StartMem, NEW m, m \in [Cells -> Int], NEW a, a \in Int, SavedAt(s, m, a), mem = m
  PROVE  m = WithContext(a)
<1> DEFINE w == WithContext(a)
<1>1. ASSUME NEW c \in Cells PROVE m[c] = w[c]
  <2>0. w[c] = IF c = Cell(a + 15) THEN mem[c]
               ELSE IF c = Cell(a + 13) THEN a
               ELSE IF c \in ContextCells(a)
               THEN Start[CHOOSE r \in Range(Context) : \E i \in DOMAIN Context : Context[i] = r /\ c = Cell(a + i - 1)]
               ELSE StartMem[c]
    BY Zenon DEF WithContext
  <2> HIDE DEF w
  <2>1. CASE c = Cell(a + 15)
    BY <2>0, <2>1
  <2>2. CASE c # Cell(a + 15) /\ c = Cell(a + 13)
    BY <2>0, <2>2 DEF SavedAt
  <2>3. CASE c # Cell(a + 15) /\ c # Cell(a + 13) /\ c \in ContextCells(a)
    <3>1. PICK k \in 0..15 : c = Cell(a + k)
      BY <2>3 DEF ContextCells
    <3>2. PICK j \in 1..15 : j = k + 1 /\ j # 14 /\ c = Cell(a + (j - 1))
      BY <2>3, <3>1
    <3> DEFINE Q(r) == \E i \in DOMAIN Context : Context[i] = r /\ c = Cell(a + i - 1)
    <3>3. \A i \in 1..15 : a + i - 1 = a + (i - 1) /\ i - 1 \in 0..15
      OBVIOUS
    <3>4. Context[j] \in Range(Context) /\ Q(Context[j])
      BY <3>2, <3>3, Slots DEF Range
    <3>5. ASSUME NEW r, Q(r) PROVE r = Context[j]
      <4>1. PICK i \in 1..15 : Context[i] = r /\ c = Cell(a + (i - 1))
        BY <3>3, <3>5, Slots
      <4>2. i - 1 = j - 1
        BY <3>2, <3>3, <4>1, CellsDiffer
      <4> QED BY <4>1, <4>2
    <3>6. (CHOOSE r \in Range(Context) : Q(r)) = Context[j]
      <4> HIDE DEF Q
      <4> QED BY <3>4, <3>5
    <3>7. m[c] = Start[Context[j]]
      BY <3>2 DEF SavedAt
    <3> QED BY <2>0, <2>3, <3>6, <3>7
  <2>4. CASE c # Cell(a + 15) /\ c # Cell(a + 13) /\ c \notin ContextCells(a)
    BY <2>0, <2>4 DEF SavedAt
  <2> QED BY <2>1, <2>2, <2>3, <2>4
<1>2. DOMAIN m = Cells /\ DOMAIN w = Cells /\ m = [c \in DOMAIN m |-> m[c]] /\ w = [c \in DOMAIN w |-> w[c]]
  BY DEF WithContext
<1> HIDE DEF w
<1>3. m = w
  BY <1>1, <1>2
<1> QED BY <1>3 DEF w

ContextOps == {"ctx_save", "ctx_load", "coop_switch"}

LEMMA ContextOperands ==
  ASSUME IsStatement(stmt), stmt.op \in ContextOps
  PROVE  /\ DOMAIN stmt.arg = 1..Len(stmt.arg) /\ Len(stmt.arg) = (IF stmt.op = "coop_switch" THEN 2 ELSE 1)
         /\ \A k \in 1..Len(stmt.arg) : stmt.arg[k].a \in UserRegs /\ V(k) = Start[stmt.arg[k].a] /\ V(k) \in Int
         /\ SavedBy(stmt.op) = {} /\ stmt.op \notin ReturnOps \cup ResultOps \cup SystemOps
         /\ stmt.op \in {"ctx_load", "coop_switch"} => UserRegs \subseteq Changed
<1>1. DOMAIN stmt.arg = 1..Len(stmt.arg) /\ Len(stmt.arg) = (IF stmt.op = "coop_switch" THEN 2 ELSE 1)
  <2>1. Arity[stmt.op] = IF stmt.op = "coop_switch" THEN {2} ELSE {1}
    <3>1. CASE stmt.op = "ctx_save"
      BY <3>1 DEF Arity
    <3>2. CASE stmt.op = "ctx_load"
      BY <3>2 DEF Arity
    <3>3. CASE stmt.op = "coop_switch"
      BY <3>3 DEF Arity
    <3> QED BY <3>1, <3>2, <3>3 DEF ContextOps
  <2> QED BY <2>1, Args
<1>2. ASSUME NEW k \in 1..Len(stmt.arg)
      PROVE  stmt.arg[k].a \in UserRegs /\ V(k) = Start[stmt.arg[k].a] /\ V(k) \in Int
  <2>1. k \in RegisterArgs(stmt.op)
    BY <1>1 DEF RegisterArgs, BlockOps, ContextOps
  <2>2. IsOperand(stmt.arg[k]) /\ stmt.arg[k].kind = "reg"
    BY <1>1, <2>1, Args DEF IsStatement, WellFormed
  <2>3. stmt.arg[k].a \in UserRegs
    BY <2>2, OperandRegs
  <2> QED BY <2>2, <2>3, LoweringAssumption, Names DEF V, Value
<1>3. SavedBy(stmt.op) = {}
  BY SavedSets DEF ContextOps
<1>4. stmt.op \notin ReturnOps \cup ResultOps \cup SystemOps
  BY DEF ReturnOps, ResultOps, SystemOps, CpuOps, UnaryOps, ContextOps
<1>5. stmt.op \in {"ctx_load", "coop_switch"} => UserRegs \subseteq Changed
  BY DEF Changed, SystemOps, ReturnOps
<1> QED BY <1>1, <1>2, <1>3, <1>4, <1>5

\* No register is changed, and the block holds them all.
LEMMA CtxSaveDone ==
  ASSUME IsStatement(stmt), stmt.op = "ctx_save"
  PROVE  Works
<1> DEFINE base == stmt.arg[1].a
<1>1. /\ base \in UserRegs /\ V(1) = Start[base] /\ V(1) \in Int /\ SavedBy(stmt.op) = {} /\ stmt.op \notin ReturnOps
  BY ContextOperands DEF ContextOps
<1>2. Body(stmt) = CtxSave(base)
  BY DEF Body, CpuOps, UnaryOps
<1>3. Memory = WithContext(V(1))
  BY DEF Memory
<1>4. ASSUME NEW u, NEW v, Entered(u), Leads(Body(stmt), u, v)
      PROVE  Served(u, v)
  <2>1. u \in State /\ u.reg = Start /\ u.mem = StartMem /\ u.calls = <<>>
    BY <1>4, Begins
  <2> HIDE DEF base
  <2>2. CtxSaves(u, v, V(1))
    BY <1>1, <1>2, <1>4, <2>1, CtxSaveLeads
  <2>3. v \in State /\ v.stack = u.stack /\ SavedAt(u, v.mem, V(1)) /\ \A q \in UserRegs : v.reg[q] = Start[q]
    BY <2>1, <2>2 DEF CtxSaves
  <2>4. Matches(v) => v.mem = Memory
    <3> SUFFICES ASSUME Matches(v) PROVE v.mem = Memory
      OBVIOUS
    <3>1. mem = v.mem /\ v.mem \in [Cells -> Int]
      BY <2>3, StateParts DEF Matches
    <3> QED BY <1>1, <1>3, <2>1, <2>3, <3>1, ContextIs
  <2>5. Effect(Start[stmt.dest])
    BY QuietEffect
  <2> QED BY <2>3, <2>4, <2>5 DEF Served
<1>5. Plain(Body(stmt))
  BY <1>2, CtxSaveIs
<1> QED BY <1>1, <1>4, <1>5, BodyServes

\* What a context that was loaded says of the end of the statement.
LEMMA LoadedIs ==
  ASSUME NEW s, NEW v, NEW a, Reloaded(s, v, a, 15), Matches(v), SavedBy(stmt.op) = {}, a \in Int
  PROVE  ContextLoaded(a)
<1>1. mem = v.mem /\ \A q \in Regs : reg[q] = v.reg[q]
  BY DEF Matches
<1>2. ASSUME NEW i \in DOMAIN Context PROVE reg[Context[i]] = mem[Cell(a + i - 1)]
  <2>1. i \in 1..15 /\ a + i - 1 = a + (i - 1)
    BY Slots
  <2>2. v.reg[Context[i]] = v.mem[Cell(a + i - 1)]
    BY <2>1 DEF Reloaded
  <2> QED BY <1>1, <2>1, <2>2, Slots
<1> QED BY <1>2 DEF ContextLoaded

LEMMA ContextEffect ==
  ASSUME IsStatement(stmt), stmt.op \in {"ctx_load", "coop_switch"}, ContextLoaded(V(Len(stmt.arg))), NEW old
  PROVE  Effect(old)
<1>1. stmt.op \notin ResultOps \cup SystemOps
  BY ContextOperands DEF ContextOps
<1> QED BY <1>1 DEF Effect

LEMMA CtxLoadDone ==
  ASSUME IsStatement(stmt), stmt.op = "ctx_load"
  PROVE  Works
<1> DEFINE base == stmt.arg[1].a
<1>1. /\ base \in UserRegs /\ V(1) = Start[base] /\ V(1) \in Int /\ SavedBy(stmt.op) = {} /\ stmt.op \notin ReturnOps
      /\ Len(stmt.arg) = 1 /\ UserRegs \subseteq Changed
  BY ContextOperands DEF ContextOps
<1>2. Body(stmt) = CtxLoad(base) /\ Memory = StartMem
  BY DEF Body, CpuOps, UnaryOps, Memory
<1>3. StartMem[Cell(V(1) + 13)] = V(1)
  BY <1>1 DEF IsStatement, WellFormed, V
<1>4. ASSUME NEW u, NEW v, Entered(u), Leads(Body(stmt), u, v)
      PROVE  Served(u, v)
  <2>1. u \in State /\ u.reg = Start /\ u.mem = StartMem /\ u.calls = <<>>
    BY <1>4, Begins
  <2> HIDE DEF base
  <2>2. Reloaded(u, v, V(1), 15)
    BY <1>1, <1>2, <1>3, <1>4, <2>1, CtxLoadLeads
  <2>3. v \in State /\ v.stack = u.stack /\ v.mem = StartMem
    BY <2>1, <2>2 DEF Reloaded
  <2>4. Matches(v) => Effect(Start[stmt.dest])
    BY <1>1, <2>2, LoadedIs, ContextEffect
  <2> QED BY <1>1, <1>2, <2>3, <2>4 DEF Served
<1>5. Plain(Body(stmt))
  BY <1>2, CtxSaveIs
<1> QED BY <1>1, <1>4, <1>5, BodyServes

\* Saved at one address and loaded from another, or from the same: a thread that
\* switches to itself goes on as it was.
LEMMA SwitchDone ==
  ASSUME IsStatement(stmt), stmt.op = "coop_switch"
  PROVE  Works
<1> DEFINE from == stmt.arg[1].a  to == stmt.arg[2].a
<1>1. /\ from \in UserRegs /\ V(1) = Start[from] /\ V(1) \in Int
      /\ to \in UserRegs /\ V(2) = Start[to] /\ V(2) \in Int
      /\ SavedBy(stmt.op) = {} /\ stmt.op \notin ReturnOps
      /\ Len(stmt.arg) = 2 /\ UserRegs \subseteq Changed
  BY ContextOperands DEF ContextOps
<1>2. Body(stmt) = CtxSave(from) \o CtxLoad(to) /\ Memory = WithContext(V(1))
  BY DEF Body, CpuOps, UnaryOps, Memory
<1>3. \/ StartMem[Cell(V(2) + 13)] = V(2) /\ ContextCells(V(1)) \cap ContextCells(V(2)) = {}
      \/ V(2) = V(1)
  BY <1>1 DEF IsStatement, WellFormed, V
<1>4. Plain(CtxSave(from)) /\ Plain(CtxLoad(to))
  BY CtxSaveIs
<1>5. ASSUME NEW u, NEW v, Entered(u), Leads(Body(stmt), u, v)
      PROVE  Served(u, v)
  <2>1. u \in State /\ u.reg = Start /\ u.mem = StartMem /\ u.calls = <<>>
    BY <1>5, Begins
  <2>2. PICK w : Leads(CtxSave(from), u, w) /\ Leads(CtxLoad(to), w, v)
    BY <1>2, <1>4, <1>5, PlainCode, LeadsThrough
  <2> HIDE DEF from, to
  <2>3. CtxSaves(u, w, V(1))
    BY <1>1, <2>1, <2>2, CtxSaveLeads
  <2>4. w \in State /\ w.stack = u.stack /\ SavedAt(u, w.mem, V(1)) /\ \A q \in UserRegs : w.reg[q] = Start[q]
    BY <2>1, <2>3 DEF CtxSaves
  <2>5. w.mem[Cell(V(2) + 13)] = V(2)
    <3>1. CASE V(2) = V(1)
      BY <2>4, <3>1 DEF SavedAt
    <3>2. CASE StartMem[Cell(V(2) + 13)] = V(2) /\ ContextCells(V(1)) \cap ContextCells(V(2)) = {}
      <4>1. Cell(V(2) + 13) \in ContextCells(V(2)) /\ V(2) + 13 \in Int
        <5>1. 13 \in 0..15 /\ V(2) + 13 \in Int
          BY <1>1
        <5> QED BY <5>1 DEF ContextCells
      <4>2. Cell(V(2) + 13) \in Cells \ ContextCells(V(1))
        BY <3>2, <4>1, CellParts
      <4> QED BY <2>1, <2>4, <3>2, <4>2 DEF SavedAt
    <3> QED BY <1>3, <3>1, <3>2
  <2>6. Reloaded(w, v, V(2), 15)
    BY <1>1, <2>2, <2>4, <2>5, CtxLoadLeads
  <2>7. v \in State /\ v.stack = u.stack /\ v.mem = w.mem
    BY <2>4, <2>6 DEF Reloaded
  <2>8. Matches(v) => Effect(Start[stmt.dest]) /\ v.mem = Memory
    <3> SUFFICES ASSUME Matches(v) PROVE Effect(Start[stmt.dest]) /\ v.mem = Memory
      OBVIOUS
    <3>1. Effect(Start[stmt.dest])
      BY <1>1, <2>6, LoadedIs, ContextEffect
    <3>2. mem = v.mem /\ v.mem \in [Cells -> Int]
      BY <2>7, StateParts DEF Matches
    <3>3. SavedAt(u, v.mem, V(1))
      BY <2>4, <2>7
    <3> QED BY <1>1, <1>2, <2>1, <3>1, <3>2, <3>3, ContextIs
  <2> QED BY <1>1, <2>7, <2>8 DEF Served
<1>6. Plain(Body(stmt))
  BY <1>2, <1>4, PlainConcat
<1> QED BY <1>1, <1>5, <1>6, BodyServes

-----------------------------------------------------------------------------
(* The straight statements together.                                       *)

\* The statements whose code runs straight through.
PlainOps ==
  {"cmp", "cpu_set", "cpu_add", "cpu_shl", "cpu_div", "cpu_mod", "cpu_not", "cpu_neg", "cpu_inc", "cpu_dec",
   "cpu_lea", "mem_load", "mem_store", "heap_alloc", "tick_read", "cs_ring", "preempt_arm", "nic_bar",
   "nic_read", "nic_write", "net_socket", "net_connect", "net_close", "net_send", "net_recv", "net_poll",
   "epoll_create", "epoll_ctl", "epoll_wait", "cell_map", "cell_mapfile", "cell_protect", "cell_free",
   "gate_cas", "pulse_now", "pulse_sleep", "call", "syscall", "enter_user", "ctx_save", "ctx_load", "coop_switch"}

LEMMA StatementWorks ==
  ASSUME IsStatement(stmt), stmt.op \in PlainOps
  PROVE  Works
<1>1. CASE stmt.op \in {"gate_cas", "pulse_now", "pulse_sleep", "call", "syscall", "enter_user", "ctx_save",
                         "ctx_load", "coop_switch"}
  BY <1>1, GateDone, NowDone, SleepDone, CallDone, SyscallDone, UserDone, CtxSaveDone,
     CtxLoadDone, SwitchDone
<1>2. CASE stmt.op \notin {"gate_cas", "pulse_now", "pulse_sleep", "call", "syscall", "enter_user", "ctx_save",
                            "ctx_load", "coop_switch"}
  BY <1>2, CmpDone, SetDone, AddDone, ShiftDone, DivideDone, UnaryDone, LeaDone, LoadDone, StoreDone, AllocateDone,
     TickDone, RingDone, ArmDone, BarDone, CardReadDone, CardWriteDone, DirectDone, TransferDone, ProtectDone,
     EventsDone, MapDone, MapFileDone, FreeDone DEF PlainOps
<1> QED BY <1>1, <1>2

\* The whole of a statement's code runs straight through when its body does.
LEMMA PlainEmit ==
  ASSUME Plain(Body(stmt))
  PROVE  Plain(Emit(stmt))
<1> DEFINE r == Saved(stmt.op)
<1>1. DOMAIN r = 1..Len(r) /\ Len(r) \in Nat
  <2>1. IsCode(r)
    BY SavedLists, Tuples
  <2> QED BY <2>1 DEF IsCode
<1> HIDE DEF r
<1>2. Plain(Save(r))
  <2> DEFINE S == {Push(r[k]) : k \in DOMAIN r}
  <2>1. Save(r) \in Seq(S)
    BY <1>1 DEF Save
  <2>2. \A x \in S : x.op \in Straight
    BY AllStraight
  <2> HIDE DEF S
  <2> QED BY <2>1, <2>2, PlainIf
<1>3. Plain(Restore(r))
  <2> DEFINE S == {Pop(Reverse(r)[k]) : k \in DOMAIN r}
  <2>1. Restore(r) \in Seq(S)
    BY <1>1 DEF Restore
  <2>2. \A x \in S : x.op \in Straight
    BY AllStraight
  <2> HIDE DEF S
  <2> QED BY <2>1, <2>2, PlainIf
<1>4. Plain(IF stmt.op \in ReturnOps THEN Copy(stmt.dest, "rax") ELSE <<>>)
  BY PlainFew, AllStraight DEF Copy
<1>5. Emit(stmt) = Save(r) \o Body(stmt) \o (IF stmt.op \in ReturnOps THEN Copy(stmt.dest, "rax") ELSE <<>>)
                     \o Restore(r)
  BY DEF Emit, r
<1> QED BY <1>2, <1>3, <1>4, <1>5, PlainConcat
=============================================================================
