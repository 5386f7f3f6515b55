--------------------------- MODULE CallFrames_proofs ---------------------------
(***************************************************************************)
(* Proofs about CallFrames, for any functions, locals, bodies and depth of *)
(* calls, any stack, and interruptions anywhere: a function gives back the *)
(* registers it has to preserve, every frame keeps its locals and what it  *)
(* has pushed, and the operands of a call arrive.  They need a red zone as *)
(* large as the saved registers, for the one instruction in which those    *)
(* lie below rsp.                                                          *)
(*                                                                         *)
(* The argument is about who owns which words.  The frames lie one below   *)
(* the other without a gap (Adjacent, Descending), the top one as far as   *)
(* its place in the code says (Place); whatever a step writes lies below   *)
(* everything a waiting frame needs (Waiting), and the top frame writes    *)
(* only its own part.                                                      *)
(***************************************************************************)
EXTENDS CallFrames, SequenceTheorems, TLAPS

Saves == Len(Callee)
N == Len(frames)
Low(i) == FrameBase(i) - Saves - LocalWords(frames[i].fn)

\* Where rsp is while frame i is executing its body, between statements.
Floor(i) == IF i = 0 THEN StackTop ELSE Low(i) - Len(frames[i].pushed)

Places == {"body", "arg", "pop_arg", "entry", "frame", "save", "unwind", "skip", "restore", "ret"}
AllLocals == UNION {[Locals(f) -> Nat] : f \in Fns}
Frame == [fn : Fns, caller : Fns \cup {Main}, sp : Nat, given : Seq(Nat), regs : [Saved -> Nat],
          locals : AllLocals, pushed : Seq(Nat)]

Types ==
  /\ mem \in [Words -> Nat] /\ reg \in [Regs -> Nat] /\ rsp \in 0..StackTop
  /\ pc \in [fn : Fns \cup {Main}, at : Places, k : Nat]
  /\ todo.fn \in Fns \cup {Main} /\ todo.args \in Seq(Operands) /\ todo.given \in Seq(Nat)
  /\ Len(todo.args) <= Len(ArgRegs)
  /\ pc.at \in {"arg", "pop_arg"} => todo.fn \in Fns
  /\ frames \in Seq(Frame)
  /\ \A i \in 1..N : frames[i].locals \in [Locals(frames[i].fn) -> Nat]

\* Who called whom, and where the frames are.
Links ==
  /\ pc.fn = IF N = 0 THEN Main ELSE frames[N].fn
  /\ \A i \in 1..N : frames[i].caller = IF i = 1 THEN Main ELSE frames[i - 1].fn
  /\ \A i \in 2..N : frames[i].regs["rbp"] = FrameBase(i - 1)
Adjacent == \A i \in 1..N : frames[i].sp + 1 = Floor(i - 1)
Descending == \A i, j \in 1..N : i < j => frames[j].sp < Floor(i)

\* What a frame finds on the stack when it returns.
Anchored(i) ==
  /\ mem[frames[i].sp] = ReturnAddress(frames[i].caller)
  /\ mem[FrameBase(i)] = frames[i].regs["rbp"]
  /\ \A k \in 1..Saves : mem[FrameBase(i) - k] = frames[i].regs[Callee[k]]

\* What it finds while it goes on.
Holds(i) ==
  /\ \A l \in Locals(frames[i].fn) : mem[LocalAt(frames[i].fn, l, FrameBase(i))] = frames[i].locals[l]
  /\ \A k \in 1..Len(frames[i].pushed) : mem[Low(i) - k] = frames[i].pushed[k]

Waiting == \A i \in 1..(N - 1) : Anchored(i) /\ Holds(i)

\* Words that the statement under way has put on the stack.
Passing == IF pc.at = "arg" THEN pc.k - 1 ELSE IF pc.at = "pop_arg" THEN pc.k ELSE 0

InBodyPart ==
  /\ rsp = Floor(N) - Passing
  /\ N > 0 => Anchored(N) /\ reg["rbp"] = FrameBase(N)
  /\ N > 0 /\ pc.at # "unwind" => Holds(N)
  /\ pc.at = "arg" =>
       pc.k \in 1..(Len(todo.args) + 1) /\ \A i \in 1..Len(todo.args) : Usable(todo.args[i])
  /\ pc.at = "pop_arg" => pc.k \in 0..Len(todo.args)
  /\ pc.at = "unwind" => N > 0

InPrologue ==
  /\ N > 0 /\ frames[N].pushed = <<>>
  /\ mem[frames[N].sp] = ReturnAddress(frames[N].caller)
  /\ pc.at = "entry" => rsp = frames[N].sp
  /\ pc.at \in {"entry", "frame"} => \A r \in Saved : reg[r] = frames[N].regs[r]
  /\ pc.at \in {"frame", "save"} => mem[FrameBase(N)] = frames[N].regs["rbp"]
  /\ pc.at = "frame" => rsp = FrameBase(N)
  /\ pc.at = "save" =>
       /\ pc.k \in 1..(Saves + 1) /\ rsp = FrameBase(N) - (pc.k - 1) /\ reg["rbp"] = FrameBase(N)
       /\ \A k \in 1..(pc.k - 1) : mem[FrameBase(N) - k] = frames[N].regs[Callee[k]]
       /\ \A k \in pc.k..Saves : reg[Callee[k]] = frames[N].regs[Callee[k]]

InEpilogue ==
  /\ N > 0
  /\ mem[frames[N].sp] = ReturnAddress(frames[N].caller)
  /\ pc.at \in {"skip", "restore"} => Anchored(N) /\ FrameBase(N) >= Saves
  /\ pc.at = "skip" => rsp = FrameBase(N) /\ reg["rbp"] = FrameBase(N)
  /\ pc.at = "restore" =>
       /\ pc.k \in 0..Saves /\ rsp = FrameBase(N) - pc.k
       /\ \A k \in (pc.k + 1)..Saves : reg[Callee[k]] = frames[N].regs[Callee[k]]
  /\ pc.at = "ret" => rsp = frames[N].sp /\ \A r \in Saved : reg[r] = frames[N].regs[r]

Place ==
  /\ pc.at \in {"body", "arg", "pop_arg", "unwind"} => InBodyPart
  /\ pc.at \in {"entry", "frame", "save"} => InPrologue
  /\ pc.at \in {"skip", "restore", "ret"} => InEpilogue

IInv == Types /\ Links /\ Adjacent /\ Descending /\ Waiting /\ Place

-----------------------------------------------------------------------------
(* Registers and the layout of a frame.                                    *)

LEMMA Registers ==
  /\ Saves = 4 /\ Len(ArgRegs) = 2
  /\ \A k \in 1..4 : Callee[k] \in Saved /\ Callee[k] # "rbp"
  /\ \A j, k \in 1..4 : Callee[j] = Callee[k] => j = k
  /\ \A r \in Saved : r = "rbp" \/ \E k \in 1..4 : r = Callee[k]
  /\ Saved \subseteq Regs /\ "rbp" \in Saved
  /\ {"r11", "r12", "rax", "rbp"} \subseteq Regs
  /\ \A k \in 1..2 : ArgRegs[k] \in Regs \ Saved
<1>1. Range(Callee) = {"rbx", "r12", "r13", "r14"} /\ Saves = 4
  BY DEF Range, Callee, Saves
<1>2. Range(ArgRegs) = {"rdi", "rsi"} /\ Len(ArgRegs) = 2
  BY DEF Range, ArgRegs
<1>3. \A k \in 1..4 : k = 1 \/ k = 2 \/ k = 3 \/ k = 4
  OBVIOUS
<1>4. Callee[1] = "rbx" /\ Callee[2] = "r12" /\ Callee[3] = "r13" /\ Callee[4] = "r14"
  BY DEF Callee
<1>5. ArgRegs[1] = "rdi" /\ ArgRegs[2] = "rsi" /\ \A k \in 1..2 : k = 1 \/ k = 2
  BY DEF ArgRegs
<1> QED BY <1>1, <1>2, <1>3, <1>4, <1>5 DEF Saved, Regs

LEMMA Layout ==
  ASSUME NEW f \in Fns, NEW b \in Int
  PROVE  /\ LocalWords(f) \in Nat /\ f # Main /\ Locals(f) = DOMAIN LocalSizes[f]
         /\ \A l \in Locals(f) :
              /\ LocalAt(f, l, b) \in (b - 4 - LocalWords(f))..(b - 5)
              /\ \A m \in Locals(f) : LocalAt(f, l, b) = LocalAt(f, m, b) => l = m
<1>1. f # Main /\ Locals(f) = DOMAIN LocalSizes[f] /\ LocalWords(f) \in Nat
  BY FrameAssumption, LayoutAssumption DEF Locals
<1>2. ASSUME NEW l \in Locals(f)
      PROVE  /\ LocalOffset(f, l) \in (-4 - LocalWords(f))..(-5)
             /\ \A m \in Locals(f) : LocalOffset(f, l) = LocalOffset(f, m) => l = m
  BY <1>1, <1>2, LayoutAssumption, Registers DEF Saves
<1>3. ASSUME NEW l \in Locals(f)
      PROVE  /\ LocalAt(f, l, b) \in (b - 4 - LocalWords(f))..(b - 5)
             /\ \A m \in Locals(f) : LocalAt(f, l, b) = LocalAt(f, m, b) => l = m
  BY <1>1, <1>2 DEF LocalAt
<1> QED BY <1>1, <1>3

LEMMA TypeParts ==
  ASSUME Types
  PROVE  /\ mem \in [Words -> Nat] /\ reg \in [Regs -> Nat] /\ rsp \in 0..StackTop
         /\ pc \in [fn : Fns \cup {Main}, at : Places, k : Nat] /\ frames \in Seq(Frame)
         /\ todo.fn \in Fns \cup {Main} /\ todo.args \in Seq(Operands) /\ todo.given \in Seq(Nat)
         /\ Len(todo.args) <= 2
         /\ pc.at \in {"arg", "pop_arg"} => todo.fn \in Fns
         /\ \A i \in 1..N : frames[i].locals \in [Locals(frames[i].fn) -> Nat]
<1>1. Len(todo.args) <= Len(ArgRegs)
  BY Zenon DEF Types
<1>2. Len(todo.args) <= 2
  BY <1>1, Registers
<1> QED BY <1>2, Zenon DEF Types

LEMMA FrameFacts ==
  ASSUME Types, NEW i \in 1..N
  PROVE  /\ frames[i] \in Frame /\ frames[i].fn \in Fns /\ frames[i].sp \in Nat
         /\ frames[i].pushed \in Seq(Nat) /\ Len(frames[i].pushed) \in Nat
         /\ FrameBase(i) = frames[i].sp - 1 /\ FrameBase(i) \in Int
         /\ Low(i) \in Int /\ Low(i) = FrameBase(i) - 4 - LocalWords(frames[i].fn)
         /\ LocalWords(frames[i].fn) \in Nat
         /\ Floor(i) = Low(i) - Len(frames[i].pushed) /\ Floor(i) \in Int
         /\ Floor(i) < frames[i].sp /\ Floor(i) <= Low(i)
<1>0. frames \in Seq(Frame) /\ i \in 1..Len(frames)
  BY DEF Types, N
<1>1. frames[i] \in Frame /\ i # 0
  BY <1>0, ElementOfSeq
<1>2. frames[i].fn \in Fns /\ frames[i].sp \in Nat /\ frames[i].pushed \in Seq(Nat)
  BY <1>1 DEF Frame
<1>3. LocalWords(frames[i].fn) \in Nat
  BY <1>2, Layout
<1>4. Len(frames[i].pushed) \in Nat
  BY <1>2, LenProperties
<1>5. FrameBase(i) = frames[i].sp - 1 /\ FrameBase(i) \in Int
  BY <1>2 DEF FrameBase
<1>6. Low(i) = FrameBase(i) - 4 - LocalWords(frames[i].fn) /\ Low(i) \in Int
  BY <1>3, <1>5, Registers DEF Low
<1>7. Floor(i) = Low(i) - Len(frames[i].pushed) /\ Floor(i) \in Int
  BY <1>1, <1>4, <1>6 DEF Floor
<1>8. Floor(i) < frames[i].sp /\ Floor(i) <= Low(i)
  <2> DEFINE p == frames[i].sp
             b == FrameBase(i)
             w == LocalWords(frames[i].fn)
             n == Len(frames[i].pushed)
             low == Low(i)
             floor == Floor(i)
  <2>1. p \in Nat /\ w \in Nat /\ n \in Nat /\ b = p - 1 /\ low = b - 4 - w /\ floor = low - n
    BY <1>2, <1>3, <1>4, <1>5, <1>6, <1>7
  <2> HIDE DEF p, b, w, n, low, floor
  <2>2. floor < p /\ floor <= low
    BY <2>1
  <2> QED BY <2>2 DEF p, low, floor
<1> QED BY <1>1, <1>2, <1>3, <1>4, <1>5, <1>6, <1>7, <1>8

LEMMA Bounds ==
  ASSUME Types, Adjacent, Descending
  PROVE  /\ N \in Nat /\ StackTop \in Nat /\ Floor(0) = StackTop
         /\ \A i \in 1..N : frames[i].sp < StackTop
         /\ \A i \in 1..(N - 1) : Floor(i) > frames[N].sp
<1>1. N \in Nat /\ StackTop \in Nat /\ Floor(0) = StackTop
  BY FrameAssumption, LenProperties DEF N, Types, Floor
<1>2. ASSUME NEW i \in 1..N PROVE frames[i].sp < StackTop
  <2>1. CASE i = 1
    <3>1. frames[1].sp + 1 = Floor(0)
      BY <2>1, <1>1 DEF Adjacent
    <3> QED BY <3>1, <2>1, <1>1, FrameFacts
  <2>2. CASE i # 1
    <3>1. 1 \in 1..N /\ frames[i].sp < Floor(1)
      BY <2>2, <1>1 DEF Descending
    <3>2. frames[1].sp + 1 = Floor(0)
      BY <3>1, <1>1 DEF Adjacent
    <3>3. Floor(1) \in Int /\ Floor(1) < frames[1].sp /\ frames[1].sp \in Nat
      BY <3>1, FrameFacts
    <3>4. frames[i].sp \in Nat
      BY FrameFacts
    <3> QED BY <3>1, <3>2, <3>3, <3>4, <1>1
  <2> QED BY <2>1, <2>2
<1>3. ASSUME NEW i \in 1..(N - 1) PROVE Floor(i) > frames[N].sp
  <2>1. i \in 1..N /\ N \in 1..N /\ i < N
    BY <1>1
  <2> QED BY <2>1, FrameFacts DEF Descending
<1> QED BY <1>1, <1>2, <1>3

\* The words of a frame lie between its floor and its return address, ...
LEMMA Owned ==
  ASSUME Types, NEW i \in 1..N, Floor(i) >= 0, frames[i].sp < StackTop
  PROVE  LET owned == {a \in Words : a >= Floor(i)} IN
         /\ frames[i].sp \in owned /\ FrameBase(i) \in owned /\ \A k \in 1..4 : FrameBase(i) - k \in owned
         /\ \A l \in Locals(frames[i].fn) : LocalAt(frames[i].fn, l, FrameBase(i)) \in owned
         /\ \A k \in 1..Len(frames[i].pushed) : Low(i) - k \in owned
<1> DEFINE f == frames[i].fn
           p == frames[i].sp
           b == FrameBase(i)
           w == LocalWords(f)
           n == Len(frames[i].pushed)
           low == Low(i)
           floor == Floor(i)
           owned == {a \in Words : a >= floor}
<1>1. /\ f \in Fns /\ p \in Nat /\ n \in Nat /\ w \in Nat
      /\ b = p - 1 /\ low = b - 4 - w /\ floor = low - n
      /\ {b, low, floor} \subseteq Int
  BY FrameFacts
<1>2. p < StackTop /\ floor >= 0 /\ StackTop \in Nat
  BY FrameAssumption
<1>3. \A l \in Locals(f) : LocalAt(f, l, b) \in (b - 4 - w)..(b - 5)
  BY <1>1, Layout
<1> SUFFICES /\ p \in owned /\ b \in owned /\ \A k \in 1..4 : b - k \in owned
             /\ \A l \in Locals(f) : LocalAt(f, l, b) \in owned
             /\ \A k \in 1..n : low - k \in owned
  OBVIOUS
<1> HIDE DEF p, b, w, n, low, floor
<1>4. floor..p \subseteq owned
  BY <1>1, <1>2 DEF Words
<1>5. p \in floor..p /\ b \in floor..p /\ \A k \in 1..4 : b - k \in floor..p
  BY <1>1
<1>6. \A k \in 1..n : low - k \in floor..p
  BY <1>1
<1>7. \A l \in Locals(f) : LocalAt(f, l, b) \in floor..p
  BY <1>1, <1>3
<1> QED BY <1>4, <1>5, <1>6, <1>7

\* ... so that a step that writes below the floor leaves them alone.
LEMMA KeptStep ==
  ASSUME Types, NEW i \in 1..N, Floor(i) >= 0, frames[i].sp < StackTop,
         frames'[i] = frames[i], \A a \in Words : a >= Floor(i) => mem'[a] = mem[a]
  PROVE  /\ Anchored(i) => Anchored(i)'
         /\ Holds(i) => Holds(i)'
<1> DEFINE owned == {a \in Words : a >= Floor(i)}
<1>1. FrameBase(i)' = FrameBase(i) /\ Low(i)' = Low(i)
  BY DEF FrameBase, Low
<1>2. /\ frames[i].sp \in owned /\ FrameBase(i) \in owned /\ \A k \in 1..4 : FrameBase(i) - k \in owned
      /\ \A l \in Locals(frames[i].fn) : LocalAt(frames[i].fn, l, FrameBase(i)) \in owned
      /\ \A k \in 1..Len(frames[i].pushed) : Low(i) - k \in owned
  BY Owned
<1>3. \A a \in owned : mem'[a] = mem[a]
  OBVIOUS
<1> HIDE DEF owned
<1>4. Anchored(i) => Anchored(i)'
  BY <1>1, <1>2, <1>3, Registers DEF Anchored
<1>5. Holds(i) => Holds(i)'
  BY <1>1, <1>2, <1>3 DEF Holds
<1> QED BY <1>4, <1>5

\* The waiting frames are above everything the function that runs may write.
LEMMA WaitingStep ==
  ASSUME Types, Adjacent, Descending, Waiting, N > 0,
         \A i \in 1..(N - 1) : frames'[i] = frames[i],
         \A a \in Words : a > frames[N].sp => mem'[a] = mem[a]
  PROVE  \A i \in 1..(N - 1) : Anchored(i)' /\ Holds(i)'
<1> SUFFICES ASSUME NEW i \in 1..(N - 1) PROVE Anchored(i)' /\ Holds(i)'
  OBVIOUS
<1>1. i \in 1..N /\ N \in 1..N /\ Floor(i) > frames[N].sp /\ frames[i].sp < StackTop
  BY Bounds
<1>2. Floor(i) \in Int /\ frames[N].sp \in Nat
  BY <1>1, FrameFacts
<1>3. Floor(i) >= 0 /\ \A a \in Words : a >= Floor(i) => mem'[a] = mem[a]
  BY <1>1, <1>2 DEF Words
<1> QED BY <1>1, <1>3, KeptStep DEF Waiting

LEMMA TopFloor ==
  ASSUME Types, Adjacent, Descending
  PROVE  /\ N \in Nat /\ StackTop \in Nat /\ Floor(N) \in Int /\ Floor(N) <= StackTop
         /\ N > 0 => /\ frames[N] \in Frame /\ frames[N].sp \in Nat /\ frames[N].sp < StackTop
                     /\ Floor(N) <= Low(N) /\ FrameBase(N) = frames[N].sp - 1
                     /\ Low(N) = FrameBase(N) - 4 - LocalWords(frames[N].fn)
                     /\ LocalWords(frames[N].fn) \in Nat
                     /\ Floor(N) = Low(N) - Len(frames[N].pushed)
                     /\ Len(frames[N].pushed) \in Nat
<1>1. N \in Nat /\ StackTop \in Nat /\ Floor(0) = StackTop
  BY Bounds
<1>2. CASE N = 0
  BY <1>1, <1>2
<1>3. CASE N > 0
  <2>1. N \in 1..N
    BY <1>1, <1>3
  <2>2. frames[N].sp < StackTop
    BY <2>1, Bounds
  <2>3. Floor(N) < frames[N].sp /\ Floor(N) \in Int /\ frames[N].sp \in Nat
    BY <2>1, FrameFacts
  <2>4. Floor(N) <= StackTop
    BY <1>1, <2>2, <2>3
  <2> QED BY <1>1, <2>1, <2>2, <2>3, <2>4, FrameFacts
<1> QED BY <1>1, <1>2, <1>3

-----------------------------------------------------------------------------
(* Steps that leave the frames as they are.                                *)

LEMMA SameFrames ==
  ASSUME Types, Links, Adjacent, Descending, Waiting,
         frames' = frames, pc'.fn = pc.fn,
         N > 0 => \A a \in Words : a > frames[N].sp => mem'[a] = mem[a]
  PROVE  Links' /\ Adjacent' /\ Descending' /\ Waiting'
<1>1. Links' /\ Adjacent' /\ Descending'
  BY DEF Links, Adjacent, Descending, N, Floor, Low, FrameBase
<1>2. Waiting'
  <2>1. N \in Nat /\ N' = N
    BY Bounds DEF N
  <2>2. CASE N = 0
    BY <2>1, <2>2 DEF Waiting
  <2>3. CASE N > 0
    BY <2>1, <2>3, WaitingStep DEF Waiting
  <2> QED BY <2>1, <2>2, <2>3
<1> QED BY <1>1, <1>2

\* Where the body of the top frame finds a local.
LEMMA LocalPlace ==
  ASSUME IInv, pc.at \in {"body", "arg"}, NEW i \in Locals(Current)
  PROVE  /\ N > 0 /\ Current = frames[N].fn /\ Current \in Fns /\ reg["rbp"] = FrameBase(N)
         /\ LocalAt(Current, i, FrameBase(N)) \in Words
         /\ LocalAt(Current, i, FrameBase(N)) \in (FrameBase(N) - 4 - LocalWords(Current))..(FrameBase(N) - 5)
<1>1. Types /\ Links /\ Adjacent /\ Descending /\ InBodyPart
  BY DEF IInv, Place
<1>2. Current # Main
  BY DEF Locals
<1>3. N > 0 /\ Current = frames[N].fn /\ Current \in Fns
  BY <1>1, <1>2, TopFloor, TypeParts DEF Links, Current
<1> DEFINE b == FrameBase(N)
           w == LocalWords(Current)
           a == LocalAt(Current, i, b)
<1>4. /\ b \in Int /\ w \in Nat /\ b < StackTop /\ StackTop \in Nat
      /\ Floor(N) \in Int /\ Floor(N) <= b - 4 - w
  BY <1>1, <1>3, TopFloor
<1>5. rsp >= 0 /\ Floor(N) >= rsp /\ rsp \in Int
  BY <1>1, <1>4, TypeParts DEF InBodyPart, Passing
<1>6. a \in (b - 4 - w)..(b - 5)
  BY <1>3, <1>4, Layout
<1>7. reg["rbp"] = b
  BY <1>1, <1>3 DEF InBodyPart
<1> HIDE DEF b, w, a
<1>8. a \in 0..(StackTop - 1)
  BY <1>4, <1>5, <1>6
<1> QED BY <1>3, <1>6, <1>7, <1>8 DEF a, b, w, Words

LEMMA ValueIsNat ==
  ASSUME IInv, pc.at \in {"body", "arg"}, NEW o \in Operands, Usable(o)
  PROVE  ValueOf(o) \in Nat
<1>1. /\ o.kind \in {"reg", "num", "local", "sum"} /\ o.n \in Nat
      /\ o.kind \in {"reg", "sum"} => o.a \in Regs
  BY FrameAssumption
<1>2. reg \in [Regs -> Nat] /\ mem \in [Words -> Nat]
  BY DEF IInv, Types
<1>3. ASSUME o.kind = "local" PROVE LocalAt(Current, o.n, reg["rbp"]) \in Words
  BY <1>3, LocalPlace DEF Usable
<1> QED BY <1>1, <1>2, <1>3 DEF ValueOf

\* Steps that neither write to the stack nor change a frame.
LEMMA QuietStep ==
  ASSUME IInv, UNCHANGED <<mem, frames>>, pc'.fn = pc.fn,
         reg' \in [Regs -> Nat], rsp' \in 0..StackTop, pc' \in [fn : Fns \cup {Main}, at : Places, k : Nat],
         todo'.fn \in Fns \cup {Main}, todo'.args \in Seq(Operands), todo'.given \in Seq(Nat),
         Len(todo'.args) <= 2, pc'.at \in {"arg", "pop_arg"} => todo'.fn \in Fns,
         Place'
  PROVE  IInv'
<1>1. Types /\ Links /\ Adjacent /\ Descending /\ Waiting
  BY DEF IInv
<1>2. Types'
  <2>1. Len(todo'.args) <= Len(ArgRegs)
    BY Registers
  <2>2. \A i \in 1..N' : frames'[i].locals \in [Locals(frames'[i].fn) -> Nat]
    BY <1>1, TypeParts DEF N
  <2>3. mem' \in [Words -> Nat] /\ frames' \in Seq(Frame)
    BY <1>1, TypeParts
  <2> QED BY <2>1, <2>2, <2>3, Zenon DEF Types
<1>3. Links' /\ Adjacent' /\ Descending' /\ Waiting'
  BY <1>1, SameFrames
<1> QED BY <1>2, <1>3 DEF IInv

\* A function on 1..n is a sequence of length n.
LEMMA Tuples ==
  ASSUME NEW S, NEW n \in Nat, NEW s \in [1..n -> S]
  PROVE  s \in Seq(S) /\ Len(s) = n
BY SeqDef

LEMMA Frozen ==
  ASSUME UNCHANGED <<mem, frames>>
  PROVE  /\ N' = N /\ Floor(N)' = Floor(N) /\ FrameBase(N)' = FrameBase(N) /\ frames'[N'] = frames[N]
         /\ Anchored(N)' = Anchored(N) /\ Holds(N)' = Holds(N)
BY DEF N, Floor, Low, FrameBase, Anchored, Holds

LEMMA BodyStep ==
  ASSUME IInv,
         \/ \E r \in Touched, v \in Values : SetRegister(r, v)
         \/ \E f \in Fns, n \in 0..Len(ArgRegs) : \E args \in [1..n -> Operands] : CallStart(f, args)
         \/ \E o \in Operands : ReturnValue(o)
         \/ EndOfBody
  PROVE  IInv'
<1>1. /\ Types /\ Links /\ Adjacent /\ Descending /\ InBodyPart /\ pc.at = "body" /\ Passing = 0
      /\ Place
  BY DEF IInv, Place, SetRegister, CallStart, ReturnValue, EndOfBody, Begin, Passing
<1> USE <1>1, TypeParts
<1>2. CASE \E r \in Touched, v \in Values : SetRegister(r, v)
  <2>1. PICK r \in Touched, v \in Values : SetRegister(r, v)
    BY <1>2
  <2>2. reg' \in [Regs -> Nat] /\ reg'["rbp"] = reg["rbp"] /\ UNCHANGED <<mem, rsp, pc, todo, frames>>
    BY <2>1, FrameAssumption DEF SetRegister
  <2>3. Place'
    BY <2>2 DEF Place, InBodyPart, Passing, N, Floor, Low, FrameBase, Anchored, Holds
  <2> QED BY <2>2, <2>3, QuietStep
<1>3. CASE EndOfBody
  <2>1. UNCHANGED <<mem, rsp, reg, todo, frames>> /\ pc' = At(pc.fn, "unwind") /\ frames # <<>>
    BY <1>3 DEF EndOfBody, Current
  <2>2. N > 0
    BY <2>1, EmptySeq DEF N
  <2>3. Place'
    BY <2>1, <2>2 DEF Place, InBodyPart, Passing, N, Floor, Low, FrameBase, Anchored, Holds, At
  <2> QED BY <2>1, <2>3, QuietStep DEF At, Places
<1>4. CASE \E o \in Operands : ReturnValue(o)
  <2>1. PICK o \in Operands : ReturnValue(o)
    BY <1>4
  <2>2. ValueOf(o) \in Nat
    BY <2>1, ValueIsNat DEF ReturnValue
  <2>3. /\ UNCHANGED <<mem, rsp, todo, frames>> /\ pc' = At(pc.fn, "unwind") /\ frames # <<>>
        /\ reg' = Evaluated(o, "rax")
    BY <2>1 DEF ReturnValue, Current
  <2>4. reg' \in [Regs -> Nat] /\ reg'["rbp"] = reg["rbp"]
    BY <2>2, <2>3, Registers DEF Evaluated
  <2>5. N > 0
    BY <2>3, EmptySeq DEF N
  <2>6. Place'
    BY <2>3, <2>4, <2>5 DEF Place, InBodyPart, Passing, N, Floor, Low, FrameBase, Anchored, Holds, At
  <2> QED BY <2>3, <2>4, <2>6, QuietStep DEF At, Places
<1>5. CASE \E f \in Fns, n \in 0..Len(ArgRegs) : \E args \in [1..n -> Operands] : CallStart(f, args)
  <2>1. PICK f \in Fns, n \in 0..2 : \E args \in [1..n -> Operands] : CallStart(f, args)
    BY <1>5, Registers
  <2>2. PICK args \in [1..n -> Operands] : CallStart(f, args)
    BY <2>1
  <2>3. args \in Seq(Operands) /\ Len(args) = n /\ DOMAIN args = 1..n /\ n \in Nat
    BY Tuples
  <2>4. \A i \in 1..n : ValueOf(args[i]) \in Nat
    BY <2>2, <2>3, ValueIsNat DEF CallStart
  <2> DEFINE given == [i \in DOMAIN args |-> ValueOf(args[i])]
  <2>5. given \in [1..n -> Nat]
    BY <2>3, <2>4
  <2>6. given \in Seq(Nat)
    BY <2>3, <2>5, Tuples
  <2>7. /\ UNCHANGED <<mem, rsp, reg, frames>> /\ pc' = Step(pc.fn, "arg", 1)
        /\ todo' = [fn |-> f, args |-> args, given |-> given]
    BY <2>2 DEF CallStart, Current
  <2> HIDE DEF given
  <2>8. \A i \in 1..n : Usable(args[i])'
    <3>1. \A i \in 1..n : Usable(args[i])
      BY <2>2, <2>3 DEF CallStart
    <3>2. pc'.fn = pc.fn
      BY <2>7 DEF Step
    <3> QED BY <3>1, <3>2 DEF Usable, Current
  <2>9. todo'.args = args /\ Passing' = 0 /\ pc'.at = "arg" /\ pc'.k = 1 /\ UNCHANGED frames
    BY <2>7 DEF Step, Passing
  <2>10. rsp' = Floor(N)' - Passing' /\ Anchored(N)' = Anchored(N) /\ Holds(N)' = Holds(N)
    <3>1. UNCHANGED <<mem, frames, rsp>> /\ Passing = Passing' /\ rsp = Floor(N) - Passing
      BY <2>7, <2>9 DEF InBodyPart
    <3>2. Floor(N)' = Floor(N) /\ Anchored(N)' = Anchored(N) /\ Holds(N)' = Holds(N)
      BY <3>1, Frozen
    <3> QED BY <3>1, <3>2
  <2>11. InBodyPart'
    BY <2>3, <2>7, <2>8, <2>9, <2>10, Frozen DEF InBodyPart
  <2>12. Place'
    BY <2>9, <2>11 DEF Place
  <2> QED BY <2>3, <2>6, <2>7, <2>12, QuietStep DEF Step, Places
<1> QED BY <1>2, <1>3, <1>4, <1>5

LEMMA StillStep ==
  ASSUME IInv,
         ArgsPushed \/ PopArg \/ SetBase \/ Unwind \/ SkipSaved \/ RestoreRegister \/ PopBase
  PROVE  IInv'
<1>1. Types /\ Links /\ Adjacent /\ Descending /\ Place
  BY DEF IInv
<1>n. N \in Nat /\ Floor(N) \in Int /\ StackTop \in Nat /\ Floor(N) <= StackTop
  BY <1>1, TopFloor
<1>t. pc \in [fn : Fns \cup {Main}, at : Places, k : Nat] /\ pc.k \in Nat
  BY <1>1, TypeParts
<1>r. reg \in [Regs -> Nat] /\ mem \in [Words -> Nat] /\ rsp \in 0..StackTop
  BY <1>1, TypeParts
<1>a. Len(todo.args) \in Nat /\ Len(todo.args) <= 2
  BY <1>1, TypeParts, LenProperties
<1>2. CASE ArgsPushed
  <2>1. /\ pc.at = "arg" /\ UNCHANGED <<mem, rsp, reg, todo, frames>>
        /\ pc' = Step(pc.fn, "pop_arg", Len(todo.args)) /\ pc.k > Len(todo.args)
    BY <1>2 DEF ArgsPushed, Current
  <2>2. Len(todo.args) \in Nat
    BY <1>1, TypeParts, LenProperties
  <2>3. InBodyPart
    BY <1>1, <2>1 DEF Place
  <2>4. InBodyPart'
    BY <2>1, <2>2, <2>3, <1>t, <1>n, Frozen DEF InBodyPart, Passing, Step
  <2>5. Place'
    BY <2>1, <2>4 DEF Place, Step
  <2> QED BY <1>1, <2>1, <2>2, <2>5, TypeParts, QuietStep DEF Step, Places
<1>3. CASE PopArg
  <2>1. /\ pc.at = "pop_arg" /\ pc.k > 0 /\ UNCHANGED <<mem, todo, frames>>
        /\ pc' = Step(pc.fn, "pop_arg", pc.k - 1) /\ rsp' = rsp + 1
        /\ reg' = [reg EXCEPT ![ArgRegs[pc.k]] = mem[rsp]]
    BY <1>3 DEF PopArg, PopInto, Current
  <2>2. InBodyPart
    BY <1>1, <2>1 DEF Place
  <2>3. rsp = Floor(N) - pc.k /\ pc.k \in 1..Len(todo.args) /\ Len(todo.args) \in 0..2
    <3>1. Passing = pc.k
      BY <2>1 DEF Passing
    <3>2. rsp = Floor(N) - pc.k /\ pc.k \in 0..Len(todo.args)
      BY <2>1, <2>2, <3>1 DEF InBodyPart
    <3>3. pc.k > 0
      BY <2>1
    <3> DEFINE k == pc.k
               n == Len(todo.args)
    <3>4. n \in Nat /\ n <= 2 /\ k \in 0..n /\ k > 0
      BY <1>a, <3>2, <3>3
    <3> HIDE DEF k, n
    <3>5. k \in 1..n /\ n \in 0..2
      BY <3>4
    <3> QED BY <3>2, <3>5 DEF k, n
  <2>4. rsp \in Words /\ rsp' \in 0..StackTop /\ pc.k \in 1..2
    <3> DEFINE k == pc.k
               n == Len(todo.args)
               floor == Floor(N)
    <3>1. /\ k \in 1..n /\ n \in 0..2 /\ floor \in Int /\ floor <= StackTop /\ rsp = floor - k
          /\ StackTop \in Nat /\ rsp \in 0..StackTop /\ rsp' = rsp + 1
      BY <1>n, <1>r, <2>1, <2>3
    <3> HIDE DEF k, n, floor
    <3>2. rsp \in 0..(StackTop - 1) /\ rsp' \in 0..StackTop /\ k \in 1..2
      BY <3>1
    <3> QED BY <3>2 DEF Words, k
  <2>5. reg' \in [Regs -> Nat] /\ reg'["rbp"] = reg["rbp"]
    BY <1>1, <2>1, <2>4, TypeParts, Registers
  <2>6. InBodyPart'
    BY <2>1, <2>2, <2>3, <2>5, <1>t, <1>n, Frozen DEF InBodyPart, Passing, Step
  <2>7. Place'
    BY <2>1, <2>6 DEF Place, Step
  <2>8. pc' \in [fn : Fns \cup {Main}, at : Places, k : Nat]
    BY <1>t, <2>1, <2>3 DEF Step, Places
  <2> QED BY <1>1, <2>1, <2>4, <2>5, <2>7, <2>8, TypeParts, QuietStep DEF Step
<1>4. CASE SetBase
  <2>1. /\ pc.at = "frame" /\ UNCHANGED <<mem, rsp, todo, frames>>
        /\ reg' = [reg EXCEPT !["rbp"] = rsp] /\ pc' = Step(pc.fn, "save", 1)
    BY <1>4 DEF SetBase, Current
  <2>2. InPrologue
    BY <1>1, <2>1 DEF Place
  <2>3. reg' \in [Regs -> Nat] /\ reg'["rbp"] = rsp /\ \A k \in 1..4 : reg'[Callee[k]] = reg[Callee[k]]
    BY <1>1, <2>1, TypeParts, Registers
  <2>4. FrameBase(N) = rsp /\ rsp \in Int /\ Saves = 4 /\ Saves' = 4
    BY <1>1, <2>1, <2>2, TypeParts, Registers DEF InPrologue, Saves
  <2>5. \A k \in 1..4 : reg[Callee[k]] = frames[N].regs[Callee[k]]
    BY <2>1, <2>2, Registers DEF InPrologue
  <2>6. InPrologue'
    BY <2>1, <2>2, <2>3, <2>4, <2>5, Frozen DEF InPrologue, Step
  <2>7. Place'
    BY <2>1, <2>6 DEF Place, Step
  <2> QED BY <1>1, <1>t, <2>1, <2>3, <2>7, TypeParts, QuietStep DEF Step, Places
<1>5. CASE Unwind
  <2>1. /\ pc.at = "unwind" /\ UNCHANGED <<mem, reg, todo, frames>>
        /\ rsp' = reg["rbp"] /\ pc' = At(pc.fn, "skip")
    BY <1>5 DEF Unwind, Current
  <2>2. InBodyPart
    BY <1>1, <2>1 DEF Place
  <2>3. N > 0 /\ Anchored(N) /\ rsp' = FrameBase(N) /\ reg["rbp"] = FrameBase(N) /\ rsp = Floor(N)
    BY <1>n, <2>1, <2>2 DEF InBodyPart, Passing
  <2>4. rsp' \in 0..StackTop /\ FrameBase(N) >= 4
    <3> DEFINE b == FrameBase(N)
               w == LocalWords(frames[N].fn)
               low == Low(N)
               floor == Floor(N)
    <3>1. /\ b \in Int /\ w \in Nat /\ low = b - 4 - w /\ floor <= low /\ floor \in Int
          /\ b < StackTop
      BY <1>1, <1>n, <2>3, TopFloor
    <3>2. floor >= 0
      BY <1>1, <2>3, TypeParts
    <3> HIDE DEF b, w, low, floor
    <3>3. b >= 4 /\ b \in 0..StackTop
      BY <1>n, <3>1, <3>2
    <3> QED BY <2>3, <3>3 DEF b
  <2>5. InEpilogue'
    BY <2>1, <2>3, <2>4, Frozen, Registers DEF InEpilogue, At, Anchored, Saves
  <2>6. Place'
    BY <2>1, <2>5 DEF Place, At
  <2> QED BY <1>1, <1>t, <2>1, <2>4, <2>6, TypeParts, QuietStep DEF At, Places
<1>6. CASE SkipSaved
  <2>1. /\ pc.at = "skip" /\ UNCHANGED <<mem, reg, todo, frames>>
        /\ rsp' = rsp - 4 /\ pc' = Step(pc.fn, "restore", 4)
    BY <1>6, Registers DEF SkipSaved, Current, Saves
  <2>2. InEpilogue
    BY <1>1, <2>1 DEF Place
  <2>3. FrameBase(N) = rsp /\ rsp \in 0..StackTop /\ Saves = 4 /\ rsp >= 4 /\ StackTop \in Nat
    BY <1>1, <1>n, <2>1, <2>2, TypeParts, Registers DEF InEpilogue
  <2>4. InEpilogue'
    BY <2>1, <2>2, <2>3, Frozen DEF InEpilogue, Step, Saves
  <2>5. Place'
    BY <2>1, <2>4 DEF Place, Step
  <2>6. rsp' \in 0..StackTop
    BY <2>1, <2>3
  <2> QED BY <1>1, <1>t, <2>1, <2>5, <2>6, TypeParts, QuietStep DEF Step, Places
<1>7. CASE RestoreRegister
  <2>1. /\ pc.at = "restore" /\ pc.k > 0 /\ UNCHANGED <<mem, todo, frames>>
        /\ reg' = [reg EXCEPT ![Callee[pc.k]] = mem[rsp]] /\ rsp' = rsp + 1
        /\ pc' = Step(pc.fn, "restore", pc.k - 1)
    BY <1>7 DEF RestoreRegister, PopInto, Current
  <2>2. InEpilogue
    BY <1>1, <2>1 DEF Place
  <2>3. /\ Saves = 4 /\ pc.k \in 1..4 /\ rsp = FrameBase(N) - pc.k /\ FrameBase(N) \in Int
        /\ Anchored(N) /\ FrameBase(N) >= 4 /\ N > 0
    BY <1>1, <1>n, <1>t, <2>1, <2>2, TopFloor, Registers, SMTT(30) DEF InEpilogue
  <2>4. FrameBase(N) < StackTop
    BY <1>1, <1>n, <2>3, TopFloor
  <2>5. rsp \in Words /\ rsp' \in 0..StackTop
    BY <1>n, <2>1, <2>3, <2>4 DEF Words
  <2>6. mem[rsp] = frames[N].regs[Callee[pc.k]]
    BY <2>3 DEF Anchored
  <2>7. /\ reg' \in [Regs -> Nat] /\ reg'[Callee[pc.k]] = frames[N].regs[Callee[pc.k]]
        /\ \A k \in (pc.k + 1)..4 : reg'[Callee[k]] = reg[Callee[k]]
    <3>1. Callee[pc.k] \in Regs /\ \A k \in (pc.k + 1)..4 : Callee[k] # Callee[pc.k]
      BY <2>3, Registers
    <3>2. mem[rsp] \in Nat
      BY <1>r, <2>5
    <3> QED BY <1>r, <2>1, <2>6, <3>1, <3>2
  <2>8. \A k \in (pc.k + 1)..4 : reg[Callee[k]] = frames[N].regs[Callee[k]]
    BY <2>1, <2>2, <2>3 DEF InEpilogue
  <2>9. \A k \in pc.k..4 : reg'[Callee[k]] = frames[N].regs[Callee[k]]
    BY <2>3, <2>7, <2>8
  <2>10. InEpilogue'
    BY <2>1, <2>2, <2>3, <2>9, Frozen DEF InEpilogue, Step, Saves
  <2>11. Place'
    BY <2>1, <2>10 DEF Place, Step
  <2>12. pc' \in [fn : Fns \cup {Main}, at : Places, k : Nat]
    BY <1>t, <2>1, <2>3 DEF Step, Places
  <2> QED BY <1>1, <1>t, <2>1, <2>5, <2>7, <2>11, <2>12, TypeParts, QuietStep DEF Step
<1>8. CASE PopBase
  <2>1. /\ pc.at = "restore" /\ pc.k = 0 /\ UNCHANGED <<mem, todo, frames>>
        /\ reg' = [reg EXCEPT !["rbp"] = mem[rsp]] /\ rsp' = rsp + 1 /\ pc' = At(pc.fn, "ret")
    BY <1>8 DEF PopBase, PopInto, Current
  <2>2. InEpilogue
    BY <1>1, <2>1 DEF Place
  <2>3. /\ Saves = 4 /\ rsp = FrameBase(N) /\ FrameBase(N) = frames[N].sp - 1 /\ frames[N].sp \in Nat
        /\ Anchored(N) /\ N > 0 /\ FrameBase(N) >= 4 /\ frames[N].sp < StackTop
    BY <1>1, <1>n, <2>1, <2>2, TopFloor, Registers DEF InEpilogue
  <2>4. rsp \in Words /\ rsp' = frames[N].sp /\ rsp' \in 0..StackTop
    BY <1>n, <2>1, <2>3 DEF Words
  <2>5. mem[rsp] = frames[N].regs["rbp"]
    BY <2>3 DEF Anchored
  <2>6. \A k \in 1..4 : reg[Callee[k]] = frames[N].regs[Callee[k]]
    BY <2>1, <2>2, <2>3 DEF InEpilogue
  <2>7. reg' \in [Regs -> Nat] /\ \A r \in Saved : reg'[r] = frames[N].regs[r]
    <3>1. mem[rsp] \in Nat /\ "rbp" \in Regs /\ \A k \in 1..4 : Callee[k] # "rbp"
      BY <1>r, <2>4, Registers
    <3>2. reg' \in [Regs -> Nat] /\ reg'["rbp"] = mem[rsp] /\ \A r \in Regs : r # "rbp" => reg'[r] = reg[r]
      BY <1>r, <2>1, <3>1
    <3>3. \A k \in 1..4 : reg'[Callee[k]] = reg[Callee[k]]
      BY <3>1, <3>2, Registers
    <3>4. \A k \in 1..4 : reg'[Callee[k]] = frames[N].regs[Callee[k]]
      BY <2>6, <3>3
    <3> QED BY <2>5, <3>2, <3>4, Registers
  <2>8. InEpilogue'
    BY <2>1, <2>2, <2>4, <2>7, Frozen DEF InEpilogue, At
  <2>9. Place'
    BY <2>1, <2>8 DEF Place, At
  <2> QED BY <1>1, <1>t, <2>1, <2>4, <2>7, <2>9, TypeParts, QuietStep DEF At, Places
<1> QED BY <1>2, <1>3, <1>4, <1>5, <1>6, <1>7, <1>8

-----------------------------------------------------------------------------
(* Steps that push a word and leave the frames as they are.                *)

LEMMA Pushing ==
  ASSUME Types, NEW v \in Nat, PushWord(v)
  PROVE  /\ rsp - 1 \in Words /\ rsp' = rsp - 1 /\ rsp' \in 0..StackTop
         /\ mem' \in [Words -> Nat] /\ mem'[rsp - 1] = v
         /\ \A a \in Words : a # rsp - 1 => mem'[a] = mem[a]
<1>1. /\ rsp \in 0..StackTop /\ StackTop \in Nat /\ RedZone \in Nat /\ IrqWords \in Nat
      /\ mem \in [Words -> Nat]
  BY TypeParts, FrameAssumption
<1>2. rsp > RedZone + IrqWords + 1 /\ rsp' = rsp - 1 /\ mem' = [mem EXCEPT ![rsp - 1] = v]
  BY DEF PushWord, Room
<1>3. rsp - 1 \in Words /\ rsp' \in 0..StackTop
  BY <1>1, <1>2 DEF Words
<1> QED BY <1>1, <1>2, <1>3

LEMMA PushedStep ==
  ASSUME IInv, NEW v \in Nat, PushWord(v), UNCHANGED <<frames, todo>>, pc'.fn = pc.fn,
         N > 0 => rsp <= frames[N].sp + 1,
         reg' \in [Regs -> Nat], pc' \in [fn : Fns \cup {Main}, at : Places, k : Nat],
         pc'.at \in {"arg", "pop_arg"} => todo.fn \in Fns,
         Place'
  PROVE  IInv'
<1>1. Types /\ Links /\ Adjacent /\ Descending /\ Waiting
  BY DEF IInv
<1>2. /\ rsp - 1 \in Words /\ rsp' \in 0..StackTop /\ mem' \in [Words -> Nat]
      /\ \A a \in Words : a # rsp - 1 => mem'[a] = mem[a]
  BY <1>1, Pushing
<1>3. Types'
  <2>1. \A i \in 1..N' : frames'[i].locals \in [Locals(frames'[i].fn) -> Nat]
    BY <1>1, TypeParts DEF N
  <2>2. frames' \in Seq(Frame) /\ todo'.fn \in Fns \cup {Main} /\ todo'.args \in Seq(Operands)
        /\ todo'.given \in Seq(Nat) /\ Len(todo'.args) <= Len(ArgRegs)
    BY <1>1, TypeParts, Registers
  <2> QED BY <1>2, <2>1, <2>2, Zenon DEF Types
<1>4. N > 0 => \A a \in Words : a > frames[N].sp => mem'[a] = mem[a]
  <2>1. N > 0 => frames[N].sp \in Nat
    BY <1>1, TopFloor
  <2>2. rsp \in Int /\ \A a \in Words : a \in Int
    BY <1>1, TypeParts, FrameAssumption DEF Words
  <2> QED BY <1>2, <2>1, <2>2
<1>5. Links' /\ Adjacent' /\ Descending' /\ Waiting'
  BY <1>1, <1>4, SameFrames
<1> QED BY <1>3, <1>5 DEF IInv

\* The part of N, Floor and FrameBase that depends on the frames alone.
LEMMA Standing ==
  ASSUME UNCHANGED frames
  PROVE  /\ N' = N /\ Floor(N)' = Floor(N) /\ FrameBase(N)' = FrameBase(N) /\ frames'[N'] = frames[N]
BY DEF N, Floor, Low, FrameBase

LEMMA PushStep ==
  ASSUME IInv, PushArg \/ PushBase \/ SaveRegister
  PROVE  IInv'
<1>1. Types /\ Links /\ Adjacent /\ Descending /\ Place
  BY DEF IInv
<1>n. N \in Nat /\ Floor(N) \in Int /\ StackTop \in Nat /\ Floor(N) <= StackTop
  BY <1>1, TopFloor
<1>t. pc \in [fn : Fns \cup {Main}, at : Places, k : Nat] /\ pc.k \in Nat
  BY <1>1, TypeParts
<1>r. reg \in [Regs -> Nat] /\ mem \in [Words -> Nat] /\ rsp \in 0..StackTop
  BY <1>1, TypeParts
<1>f. N > 0 => /\ N \in 1..N /\ frames[N].sp \in Nat /\ FrameBase(N) = frames[N].sp - 1
               /\ frames[N].sp < StackTop /\ Floor(N) < frames[N].sp
  BY <1>1, <1>n, TopFloor, FrameFacts, SMTT(30)
<1>2. CASE PushArg
  <2> DEFINE o == todo.args[pc.k]
  <2>1. /\ pc.at = "arg" /\ pc.k <= Len(todo.args) /\ UNCHANGED <<todo, frames>>
        /\ pc' = Step(pc.fn, "arg", pc.k + 1)
        /\ reg' = Evaluated(o, "r11") /\ PushWord(ValueOf(o))
    BY <1>2 DEF PushArg, Current
  <2>2. InBodyPart /\ rsp = Floor(N) - (pc.k - 1) /\ pc.k \in 1..Len(todo.args) /\ Len(todo.args) \in Nat
    <3>1. InBodyPart /\ Len(todo.args) \in Nat /\ todo.args \in Seq(Operands) /\ Passing = pc.k - 1
      BY <1>1, <2>1, TypeParts, LenProperties DEF Place, Passing
    <3>2. pc.k \in 1..(Len(todo.args) + 1) /\ rsp = Floor(N) - (pc.k - 1)
      BY <2>1, <3>1 DEF InBodyPart
    <3>3. pc.k \in Nat /\ pc.k >= 1
      BY <1>t, <3>2
    <3> QED BY <2>1, <3>1, <3>2, <3>3
  <2>3. o \in Operands
    BY <1>1, <2>2, TypeParts, ElementOfSeq
  <2> HIDE DEF o
  <2>4. ValueOf(o) \in Nat
    <3>1. Usable(o)
      BY <2>1, <2>2 DEF InBodyPart, o
    <3> QED BY <2>1, <2>3, <3>1, ValueIsNat
  <2>5. reg' \in [Regs -> Nat] /\ reg'["rbp"] = reg["rbp"]
    BY <1>r, <2>1, <2>4, Registers DEF Evaluated
  <2>6. /\ rsp' = rsp - 1 /\ \A a \in Words : a # rsp - 1 => mem'[a] = mem[a]
        /\ rsp - 1 \in Words
    BY <1>1, <2>1, <2>4, Pushing
  <2>7. rsp \in Int /\ rsp <= Floor(N) /\ rsp - 1 >= 0
    BY <1>n, <1>r, <2>2, <2>6 DEF Words
  <2>8. N > 0 => Anchored(N)' /\ (Holds(N) => Holds(N)')
    <3>1. \A a \in Words : a >= Floor(N) => mem'[a] = mem[a]
      BY <1>n, <2>6, <2>7, FrameAssumption DEF Words
    <3>2. N > 0 => Anchored(N)
      BY <2>1, <2>2 DEF InBodyPart
    <3>3. Floor(N) >= 0
      BY <1>n, <2>7
    <3>4. frames' = frames
      BY <2>1
    <3> QED BY <1>1, <1>f, <3>1, <3>2, <3>3, <3>4, KeptStep, Standing
  <2>9. N > 0 => Holds(N) /\ reg["rbp"] = FrameBase(N)
    BY <2>1, <2>2 DEF InBodyPart
  <2>10. \A i \in 1..Len(todo.args) : Usable(todo.args[i])'
    BY <2>1, <2>2 DEF InBodyPart, Usable, Current, Step
  <2>11. Passing' = pc.k /\ pc'.k = pc.k + 1 /\ pc'.at = "arg"
    BY <1>t, <2>1 DEF Passing, Step
  <2>12. rsp' = Floor(N)' - Passing'
    BY <1>n, <1>t, <2>1, <2>2, <2>6, <2>11, Standing
  <2>13. InBodyPart'
    BY <1>t, <2>1, <2>2, <2>5, <2>8, <2>9, <2>10, <2>11, <2>12, Standing DEF InBodyPart
  <2>14. Place'
    BY <2>11, <2>13 DEF Place
  <2>15. N > 0 => rsp <= frames[N].sp + 1
    BY <1>n, <1>f, <2>7
  <2>16. pc' \in [fn : Fns \cup {Main}, at : Places, k : Nat] /\ todo.fn \in Fns
    BY <1>1, <1>t, <2>1, TypeParts DEF Step
  <2> QED BY <2>1, <2>4, <2>5, <2>14, <2>15, <2>16, PushedStep DEF Step
<1>3. CASE PushBase
  <2>1. /\ pc.at = "entry" /\ UNCHANGED <<reg, todo, frames>>
        /\ pc' = At(pc.fn, "frame") /\ PushWord(reg["rbp"])
    BY <1>3 DEF PushBase, Current
  <2>2. InPrologue
    BY <1>1, <2>1 DEF Place
  <2>3. N > 0 /\ rsp = frames[N].sp /\ FrameBase(N) = rsp - 1 /\ rsp \in Nat
    BY <1>r, <1>f, <2>1, <2>2 DEF InPrologue
  <2>4. reg["rbp"] \in Nat
    BY <1>r, Registers
  <2>5. /\ rsp' = rsp - 1 /\ mem'[rsp - 1] = reg["rbp"] /\ rsp - 1 \in Words
        /\ \A a \in Words : a # rsp - 1 => mem'[a] = mem[a]
    BY <1>1, <2>1, <2>4, Pushing
  <2>6. mem'[rsp] = mem[rsp]
    <3>1. rsp \in Words /\ rsp # rsp - 1
      BY <1>n, <1>f, <2>3, <2>5 DEF Words
    <3> QED BY <2>5, <3>1
  <2>7. reg["rbp"] = frames[N].regs["rbp"]
    BY <2>1, <2>2, Registers DEF InPrologue
  <2>8. InPrologue'
    BY <2>1, <2>2, <2>3, <2>5, <2>6, <2>7, Standing DEF InPrologue, At
  <2>9. Place'
    BY <2>1, <2>8 DEF Place, At
  <2>10. pc' \in [fn : Fns \cup {Main}, at : Places, k : Nat]
    BY <1>t, <2>1 DEF At, Places
  <2>11. rsp <= frames[N].sp + 1
    BY <2>3
  <2> QED BY <1>r, <2>1, <2>4, <2>9, <2>10, <2>11, PushedStep DEF At
<1>4. CASE SaveRegister
  <2>1. /\ pc.at = "save" /\ pc.k <= 4 /\ UNCHANGED <<reg, todo, frames>>
        /\ pc' = Step(pc.fn, "save", pc.k + 1) /\ PushWord(reg[Callee[pc.k]])
    BY <1>4, Registers DEF SaveRegister, Current, Saves
  <2>2. InPrologue
    BY <1>1, <2>1 DEF Place
  <2>3. /\ N > 0 /\ rsp = FrameBase(N) - (pc.k - 1) /\ pc.k \in 1..4 /\ Saves = 4
        /\ FrameBase(N) \in Int /\ FrameBase(N) = frames[N].sp - 1 /\ frames[N].sp < StackTop
    BY <1>t, <1>f, <2>1, <2>2, Registers, SMTT(30) DEF InPrologue
  <2>4. reg[Callee[pc.k]] \in Nat
    BY <1>r, <2>3, Registers
  <2>5. /\ rsp' = rsp - 1 /\ mem'[rsp - 1] = reg[Callee[pc.k]] /\ rsp - 1 \in Words
        /\ \A a \in Words : a # rsp - 1 => mem'[a] = mem[a]
    BY <1>1, <2>1, <2>4, Pushing
  <2>6. /\ mem'[FrameBase(N)] = mem[FrameBase(N)] /\ mem'[frames[N].sp] = mem[frames[N].sp]
        /\ \A j \in 1..(pc.k - 1) : mem'[FrameBase(N) - j] = mem[FrameBase(N) - j]
        /\ mem'[FrameBase(N) - pc.k] = reg[Callee[pc.k]] /\ rsp' = FrameBase(N) - pc.k
    <3> DEFINE b == FrameBase(N)
               k == pc.k
               p == frames[N].sp
    <3>1. /\ b \in Int /\ k \in 1..4 /\ p \in Nat /\ b = p - 1 /\ p < StackTop /\ rsp = b - (k - 1)
          /\ rsp - 1 \in Words /\ \A a \in Words : a # rsp - 1 => mem'[a] = mem[a]
      BY <1>f, <2>3, <2>5
    <3> HIDE DEF b, k, p
    <3>2. rsp - 1 = b - k /\ b - k >= 0 /\ \A a \in (b - k + 1)..p : a \in Words /\ a # rsp - 1
      BY <1>n, <3>1 DEF Words
    <3>3. b \in (b - k + 1)..p /\ p \in (b - k + 1)..p /\ \A j \in 1..(k - 1) : b - j \in (b - k + 1)..p
      BY <3>1
    <3>4. mem'[b] = mem[b] /\ mem'[p] = mem[p] /\ \A j \in 1..(k - 1) : mem'[b - j] = mem[b - j]
      BY <3>1, <3>2, <3>3
    <3> QED BY <2>5, <3>2, <3>4 DEF b, k, p
  <2>7. reg[Callee[pc.k]] = frames[N].regs[Callee[pc.k]]
    BY <2>1, <2>2, <2>3 DEF InPrologue
  <2>8. \A j \in 1..pc.k : mem'[FrameBase(N) - j] = frames[N].regs[Callee[j]]
    <3>1. \A j \in 1..(pc.k - 1) : mem[FrameBase(N) - j] = frames[N].regs[Callee[j]]
      BY <2>1, <2>2 DEF InPrologue
    <3> QED BY <2>3, <2>6, <2>7, <3>1
  <2>9. \A j \in (pc.k + 1)..4 : reg[Callee[j]] = frames[N].regs[Callee[j]]
    BY <2>1, <2>2, <2>3 DEF InPrologue
  <2>10. pc'.at = "save" /\ pc'.k = pc.k + 1 /\ pc'.k \in 1..5 /\ pc'.k - 1 = pc.k /\ Saves' = 4
    BY <2>1, <2>3 DEF Step, Saves
  <2>11. InPrologue'
    BY <2>1, <2>2, <2>3, <2>6, <2>8, <2>9, <2>10, Standing, SMTT(30) DEF InPrologue
  <2>12. Place'
    BY <2>10, <2>11 DEF Place
  <2>13. pc' \in [fn : Fns \cup {Main}, at : Places, k : Nat]
    BY <1>t, <2>1, <2>3 DEF Step, Places
  <2>14. rsp <= frames[N].sp + 1
    BY <1>f, <2>3
  <2> QED BY <1>r, <2>1, <2>4, <2>10, <2>12, <2>13, <2>14, PushedStep DEF Step
<1> QED BY <1>2, <1>3, <1>4

-----------------------------------------------------------------------------
(* Steps that change what the top frame holds.                             *)

LEMMA TopChanged ==
  ASSUME Types, Links, Adjacent, Descending, Waiting, N > 0, pc'.fn = pc.fn,
         NEW e \in Frame, e.fn = frames[N].fn, e.caller = frames[N].caller, e.sp = frames[N].sp,
         e.regs = frames[N].regs, e.locals \in [Locals(e.fn) -> Nat],
         frames' = [frames EXCEPT ![N] = e],
         \A a \in Words : a > frames[N].sp => mem'[a] = mem[a]
  PROVE  /\ N' = N /\ frames' \in Seq(Frame) /\ frames'[N'] = e
         /\ \A i \in 1..N' : frames'[i].locals \in [Locals(frames'[i].fn) -> Nat]
         /\ FrameBase(N)' = FrameBase(N) /\ Low(N)' = Low(N) /\ Floor(N)' = Low(N) - Len(e.pushed)
         /\ Links' /\ Adjacent' /\ Descending' /\ Waiting'
<1>1. N \in Nat /\ N \in 1..N /\ frames \in Seq(Frame)
  BY TypeParts, TopFloor
<1>2. frames' \in Seq(Frame) /\ Len(frames') = N /\ frames'[N] = e
      /\ \A i \in 1..N : i # N => frames'[i] = frames[i]
  BY <1>1, ExceptSeq DEF N
<1>3. N' = N
  BY <1>2 DEF N
<1>4. \A i \in 1..N : /\ frames'[i].fn = frames[i].fn /\ frames'[i].caller = frames[i].caller
                      /\ frames'[i].sp = frames[i].sp /\ frames'[i].regs = frames[i].regs
  BY <1>2
<1>5. \A i \in 1..N : FrameBase(i)' = FrameBase(i) /\ Low(i)' = Low(i)
  BY <1>4 DEF FrameBase, Low
<1>6. \A i \in 0..(N - 1) : Floor(i)' = Floor(i)
  BY <1>1, <1>2, <1>5 DEF Floor
<1>7. Links'
  <2>1. pc'.fn = frames'[N].fn
    BY <1>1, <1>4 DEF Links
  <2>2. \A i \in 1..N : frames'[i].caller = IF i = 1 THEN Main ELSE frames'[i - 1].fn
    BY <1>1, <1>4 DEF Links
  <2>3. \A i \in 2..N : frames'[i].regs["rbp"] = FrameBase(i - 1)'
    BY <1>1, <1>4, <1>5 DEF Links
  <2> QED BY <1>3, <2>1, <2>2, <2>3 DEF Links
<1>8. Adjacent'
  BY <1>1, <1>3, <1>4, <1>6 DEF Adjacent
<1>9. Descending'
  <2>1. \A i, j \in 1..N : i < j => frames'[j].sp < Floor(i)'
    BY <1>1, <1>4, <1>6 DEF Descending
  <2> QED BY <1>3, <2>1 DEF Descending
<1>10. Waiting'
  BY <1>1, <1>2, <1>3, WaitingStep DEF Waiting
<1>11. \A i \in 1..N' : frames'[i].locals \in [Locals(frames'[i].fn) -> Nat]
  BY <1>2, <1>3, TypeParts
<1>12. FrameBase(N)' = FrameBase(N) /\ Low(N)' = Low(N)
  BY <1>1, <1>3, <1>5 DEF FrameBase, Low
<1>13. Floor(N)' = Low(N) - Len(e.pushed)
  BY <1>1, <1>2, <1>3, <1>12 DEF Floor
<1> QED BY <1>2, <1>3, <1>7, <1>8, <1>9, <1>10, <1>11, <1>12, <1>13

LEMMA TopStep ==
  ASSUME IInv, N > 0, NEW e \in Frame, e.fn = frames[N].fn, e.caller = frames[N].caller,
         e.sp = frames[N].sp, e.regs = frames[N].regs, e.locals \in [Locals(e.fn) -> Nat],
         frames' = [frames EXCEPT ![N] = e],
         \A a \in Words : a > frames[N].sp => mem'[a] = mem[a],
         mem' \in [Words -> Nat], reg' \in [Regs -> Nat], rsp' \in 0..StackTop,
         UNCHANGED todo, pc'.fn = pc.fn, pc'.at = "body",
         pc' \in [fn : Fns \cup {Main}, at : Places, k : Nat],
         Anchored(N)', Holds(N)', reg'["rbp"] = FrameBase(N), rsp' = Low(N) - Len(e.pushed)
  PROVE  IInv'
<1>1. Types /\ Links /\ Adjacent /\ Descending /\ Waiting /\ N \in Nat
  BY TopFloor DEF IInv
<1>2. pc'.fn = pc.fn /\ pc'.at = "body"
  OBVIOUS
<1>3. /\ N' = N /\ frames' \in Seq(Frame)
      /\ \A i \in 1..N' : frames'[i].locals \in [Locals(frames'[i].fn) -> Nat]
      /\ FrameBase(N)' = FrameBase(N) /\ Floor(N)' = Low(N) - Len(e.pushed)
      /\ Links' /\ Adjacent' /\ Descending' /\ Waiting'
  BY <1>1, <1>2, TopChanged
<1>4. Types'
  <2>1. /\ todo'.fn \in Fns \cup {Main} /\ todo'.args \in Seq(Operands) /\ todo'.given \in Seq(Nat)
        /\ Len(todo'.args) <= Len(ArgRegs)
    BY <1>1, TypeParts, Registers
  <2>2. pc' \in [fn : Fns \cup {Main}, at : Places, k : Nat]
    OBVIOUS
  <2>3. ~(pc'.at \in {"arg", "pop_arg"})
    BY <1>2
  <2> QED BY <1>3, <2>1, <2>2, <2>3, Zenon DEF Types
<1>5. InBodyPart'
  <2>1. Passing' = 0
    BY <1>2 DEF Passing
  <2>2. Low(N) \in Int /\ Len(e.pushed) \in Nat
    <3>1. e.pushed \in Seq(Nat)
      BY DEF Frame
    <3> QED BY <1>1, <3>1, FrameFacts, LenProperties
  <2>3. rsp' = Floor(N)' - Passing'
    BY <1>3, <2>1, <2>2
  <2> QED BY <1>2, <1>3, <2>3 DEF InBodyPart
<1>6. Place'
  BY <1>2, <1>5 DEF Place
<1> QED BY <1>3, <1>4, <1>6 DEF IInv

LEMMA LocalStep ==
  ASSUME IInv, pc.at = "body", UNCHANGED pc, NEW i \in Locals(Current), NEW v \in Nat,
         mem' = [mem EXCEPT ![LocalAt(Current, i, reg["rbp"])] = v], NoteLocal(i, v),
         reg' \in [Regs -> Nat], reg'["rbp"] = reg["rbp"], UNCHANGED <<rsp, todo>>
  PROVE  IInv'
<1>1. Types /\ Links /\ Adjacent /\ Descending /\ Waiting /\ InBodyPart
  BY DEF IInv, Place
<1>2. /\ N > 0 /\ Current = frames[N].fn /\ Current \in Fns /\ reg["rbp"] = FrameBase(N)
      /\ LocalAt(Current, i, FrameBase(N)) \in Words
  BY LocalPlace
<1> DEFINE f == Current
           b == FrameBase(N)
           p == frames[N].sp
           w == LocalWords(f)
           n == Len(frames[N].pushed)
           low == Low(N)
           a == LocalAt(f, i, b)
           e == [frames[N] EXCEPT !.locals = [frames[N].locals EXCEPT ![i] = v]]
<1>3. N \in 1..N /\ frames[N] \in Frame /\ f \in Fns /\ frames[N].locals \in [Locals(f) -> Nat]
  <2>1. N \in 1..N /\ frames[N] \in Frame
    BY <1>1, <1>2, TopFloor
  <2>2. frames[N].locals \in [Locals(frames[N].fn) -> Nat]
    BY <1>1, <2>1, TypeParts
  <2> QED BY <1>2, <2>1, <2>2
<1>4. /\ p \in Nat /\ b = p - 1 /\ b \in Int /\ w \in Nat /\ n \in Nat /\ low = b - 4 - w /\ low \in Int
      /\ a \in Words /\ a \in (b - 4 - w)..(b - 5)
  BY <1>1, <1>2, <1>3, FrameFacts, LocalPlace
<1>5. frames' = [frames EXCEPT ![N] = e]
  <2>1. frames' = [frames EXCEPT ![N].locals[i] = v]
    BY DEF NoteLocal, N
  <2>2. frames \in Seq(Frame) /\ N = Len(frames)
    BY <1>1, TypeParts DEF N
  <2> QED BY <1>3, <2>1, <2>2
<1>6. /\ e \in Frame /\ e.fn = frames[N].fn /\ e.caller = frames[N].caller /\ e.sp = p
      /\ e.regs = frames[N].regs /\ e.locals \in [Locals(e.fn) -> Nat] /\ e.pushed = frames[N].pushed
      /\ e.locals = [frames[N].locals EXCEPT ![i] = v]
  <2>1. [frames[N].locals EXCEPT ![i] = v] \in [Locals(f) -> Nat]
    BY <1>3
  <2>2. [frames[N].locals EXCEPT ![i] = v] \in AllLocals
    BY <1>3, <2>1 DEF AllLocals
  <2> QED BY <1>2, <1>3, <2>1, <2>2 DEF Frame
<1>7. mem' \in [Words -> Nat] /\ mem'[a] = v /\ \A c \in Words : c # a => mem'[c] = mem[c]
  BY <1>1, <1>2, <1>4, TypeParts
<1>8. FrameBase(N)' = b /\ Low(N)' = low /\ frames'[N'] = e /\ N' = N
  <2>1. pc'.fn = pc.fn
    OBVIOUS
  <2>2. \A c \in Words : c > frames[N].sp => mem'[c] = mem[c]
    BY <1>4, <1>7, FrameAssumption DEF Words
  <2> HIDE DEF e
  <2> QED BY <1>1, <1>2, <1>5, <1>6, <2>1, <2>2, TopChanged
<1>9. Anchored(N) /\ Holds(N)
  BY <1>1, <1>2 DEF InBodyPart
<1>10. p < StackTop /\ StackTop \in Nat /\ Floor(N) = low - n /\ Floor(N) >= 0
  <2>1. Floor(N) = rsp /\ rsp \in 0..StackTop /\ Floor(N) \in Int
    BY <1>1, TypeParts, TopFloor DEF InBodyPart, Passing
  <2> QED BY <1>1, <1>2, <2>1, TopFloor
<1> DEFINE l(j) == LocalAt(f, j, b)
<1>11. /\ \A c \in (b - 4)..p : mem'[c] = mem[c]
       /\ \A j \in Locals(f) : l(j) \in Words /\ (l(j) = a => j = i)
       /\ \A k \in 1..n : mem'[low - k] = mem[low - k]
  <2>1. \A j \in Locals(f) : l(j) \in (b - 4 - w)..(b - 5) /\ (l(j) = a => j = i)
    BY <1>3, <1>4, Layout
  <2>m. \A c \in Words : c # a => mem'[c] = mem[c]
    BY <1>7
  <2> HIDE DEF b, p, w, n, low, a, l
  <2>2. \A c \in (b - 4)..p : c \in Words /\ c # a
    BY <1>4, <1>10 DEF Words
  <2>3. \A k \in 1..n : low - k \in Words /\ low - k # a
    BY <1>4, <1>10 DEF Words
  <2>4. \A c \in (b - 4 - w)..(b - 5) : c \in Words
    BY <1>4, <1>10 DEF Words
  <2> QED BY <2>m, <2>1, <2>2, <2>3, <2>4
<1>12. Anchored(N)'
  <2>1. p \in (b - 4)..p /\ b \in (b - 4)..p /\ \A k \in 1..4 : b - k \in (b - 4)..p
    <3> HIDE DEF b, p
    <3> QED BY <1>4
  <2>2. mem'[p] = mem[p] /\ mem'[b] = mem[b] /\ \A k \in 1..4 : mem'[b - k] = mem[b - k]
    BY <1>11, <2>1
  <2> QED BY <1>6, <1>8, <1>9, <2>2, Registers DEF Anchored
<1>13. Holds(N)'
  <2>1. \A j \in Locals(f) : mem'[l(j)] = e.locals[j]
    <3>1. \A j \in Locals(f) : mem[l(j)] = frames[N].locals[j]
      BY <1>2, <1>9 DEF Holds
    <3>2. \A j \in Locals(f) : j # i => mem'[l(j)] = mem[l(j)]
      BY <1>7, <1>11
    <3>3. l(i) = a /\ e.locals[i] = v /\ \A j \in Locals(f) : j # i => e.locals[j] = frames[N].locals[j]
      BY <1>3, <1>6
    <3> QED BY <1>7, <3>1, <3>2, <3>3
  <2>2. \A k \in 1..n : mem'[low - k] = e.pushed[k]
    BY <1>6, <1>9, <1>11 DEF Holds
  <2> QED BY <1>2, <1>6, <1>8, <2>1, <2>2 DEF Holds
<1>14. /\ rsp' = low - Len(e.pushed) /\ rsp' \in 0..StackTop /\ reg'["rbp"] = b
  <2>1. rsp = Floor(N) - Passing /\ Passing = 0
    BY <1>1 DEF InBodyPart, Passing
  <2> QED BY <1>1, <1>2, <1>6, <1>10, <2>1, TypeParts, TopFloor
<1> HIDE DEF e
<1>15. \A c \in Words : c > p => mem'[c] = mem[c]
  BY <1>4, <1>7, FrameAssumption DEF Words
<1>16. pc'.fn = pc.fn /\ pc'.at = "body" /\ pc' \in [fn : Fns \cup {Main}, at : Places, k : Nat]
  BY <1>1, TypeParts
<1> QED BY <1>2, <1>5, <1>6, <1>7, <1>12, <1>13, <1>14, <1>15, <1>16, TopStep

LEMMA LocalsStep ==
  ASSUME IInv, NEW i \in Locals(Current), NEW v \in Values, SetLocal(i, v) \/ AddLocal(i, v)
  PROVE  IInv'
<1> DEFINE a == LocalAt(Current, i, reg["rbp"])
<1>1. pc.at = "body" /\ UNCHANGED <<rsp, pc, todo>>
  BY DEF SetLocal, AddLocal, Begin
<1>2. a \in Words /\ reg \in [Regs -> Nat] /\ mem \in [Words -> Nat] /\ v \in Nat
  BY <1>1, LocalPlace, TypeParts, FrameAssumption DEF IInv
<1>3. {"r11", "r12", "rbp"} \subseteq Regs
  BY Registers
<1>4. CASE SetLocal(i, v)
  <2>1. /\ reg' = [reg EXCEPT !["r11"] = v] /\ mem' = [mem EXCEPT ![a] = v] /\ NoteLocal(i, v)
    BY <1>4 DEF SetLocal
  <2>2. reg' \in [Regs -> Nat] /\ reg'["rbp"] = reg["rbp"]
    BY <1>2, <1>3, <2>1
  <2> QED BY <1>1, <1>2, <2>1, <2>2, LocalStep
<1>5. CASE AddLocal(i, v)
  <2>1. /\ reg' = [reg EXCEPT !["r11"] = mem[a] + v, !["r12"] = v]
        /\ mem' = [mem EXCEPT ![a] = @ + v] /\ NoteLocal(i, mem[a] + v)
    BY <1>5 DEF AddLocal
  <2>2. mem[a] + v \in Nat /\ mem' = [mem EXCEPT ![a] = mem[a] + v]
    BY <1>2, <2>1
  <2>3. reg' \in [Regs -> Nat] /\ reg'["rbp"] = reg["rbp"]
    BY <1>2, <1>3, <2>1, <2>2
  <2> HIDE DEF a
  <2> QED BY <1>1, <2>1, <2>2, <2>3, LocalStep DEF a
<1> QED BY <1>4, <1>5

LEMMA PushedWord ==
  ASSUME IInv, NEW v \in Values, StackPush(v)
  PROVE  IInv'
<1>1. /\ Types /\ Links /\ Adjacent /\ Descending /\ Waiting /\ InBodyPart /\ pc.at = "body"
      /\ frames # <<>> /\ UNCHANGED <<pc, todo>> /\ PushWord(v) /\ reg' = [reg EXCEPT !["r11"] = v]
      /\ frames' = [frames EXCEPT ![Len(frames)].pushed = Append(@, v)]
  BY DEF IInv, Place, StackPush, Begin
<1>2. N \in 1..N /\ N > 0 /\ frames \in Seq(Frame) /\ N = Len(frames) /\ v \in Nat
  BY <1>1, TopFloor, EmptySeq, TypeParts, FrameAssumption DEF N
<1> DEFINE f == frames[N].fn
           b == FrameBase(N)
           p == frames[N].sp
           s == frames[N].pushed
           n == Len(s)
           low == Low(N)
           e == [frames[N] EXCEPT !.pushed = Append(s, v)]
<1>3. /\ frames[N] \in Frame /\ s \in Seq(Nat) /\ n \in Nat /\ p \in Nat /\ b = p - 1 /\ low \in Int /\ low < b
      /\ Floor(N) = low - n /\ p < StackTop /\ StackTop \in Nat
      /\ frames[N].locals \in [Locals(f) -> Nat] /\ f \in Fns
  <2>1. low = b - 4 - LocalWords(f) /\ LocalWords(f) \in Nat /\ low \in Int /\ b = p - 1 /\ p \in Nat
    BY <1>1, <1>2, FrameFacts
  <2>2. low < b
    <3> HIDE DEF low, b, p, f
    <3> QED BY <2>1
  <2> QED BY <1>1, <1>2, <2>1, <2>2, FrameFacts, TopFloor, TypeParts
<1>4. frames' = [frames EXCEPT ![N] = e]
  BY <1>1, <1>2
<1>5. Append(s, v) \in Seq(Nat) /\ Len(Append(s, v)) = n + 1 /\ Append(s, v)[n + 1] = v
      /\ \A k \in 1..n : Append(s, v)[k] = s[k]
  BY <1>2, <1>3, AppendProperties
<1>6. /\ e \in Frame /\ e.fn = frames[N].fn /\ e.caller = frames[N].caller /\ e.sp = p
      /\ e.regs = frames[N].regs /\ e.locals = frames[N].locals /\ e.pushed = Append(s, v)
      /\ e.locals \in [Locals(e.fn) -> Nat]
  BY <1>3, <1>5 DEF Frame
<1>7. rsp = low - n /\ Anchored(N) /\ Holds(N) /\ reg["rbp"] = b /\ low - n \in Int
  <2>1. rsp = Floor(N) - 0 /\ Anchored(N) /\ Holds(N) /\ reg["rbp"] = b
    BY <1>1, <1>2 DEF InBodyPart, Passing
  <2> QED BY <1>3, <2>1
<1>8. /\ rsp - 1 \in Words /\ rsp' = rsp - 1 /\ rsp' \in 0..StackTop /\ mem' \in [Words -> Nat]
      /\ mem'[rsp - 1] = v /\ \A a \in Words : a # rsp - 1 => mem'[a] = mem[a]
  BY <1>1, <1>2, Pushing
<1>9. reg' \in [Regs -> Nat] /\ reg'["rbp"] = b
  BY <1>1, <1>2, <1>7, TypeParts, Registers
<1>10. /\ Floor(N) >= 0 /\ \A a \in Words : a >= Floor(N) => mem'[a] = mem[a]
       /\ \A a \in Words : a > p => mem'[a] = mem[a]
  <2> DEFINE floor == Floor(N)
  <2>1. floor = low - n /\ rsp = low - n /\ rsp - 1 \in Words
        /\ \A a \in Words : a # rsp - 1 => mem'[a] = mem[a]
    BY <1>3, <1>7, <1>8
  <2> HIDE DEF floor, low, n, b, p
  <2> QED BY <1>3, <1>7, <2>1 DEF Words, floor
<1>11. FrameBase(N)' = b /\ Low(N)' = low /\ frames'[N'] = e /\ N' = N
  <2> HIDE DEF e
  <2> QED BY <1>1, <1>2, <1>4, <1>6, <1>10, TopChanged
<1> DEFINE owned == {a \in Words : a >= Floor(N)}
<1>12. /\ p \in owned /\ b \in owned /\ \A k \in 1..4 : b - k \in owned
       /\ \A l \in Locals(f) : LocalAt(f, l, b) \in owned
       /\ \A k \in 1..n : low - k \in owned
  BY <1>1, <1>2, <1>3, <1>10, Owned
<1>13. \A a \in owned : mem'[a] = mem[a]
  BY <1>10
<1>14. Anchored(N)'
  <2> HIDE DEF owned
  <2> QED BY <1>6, <1>7, <1>11, <1>12, <1>13, Registers DEF Anchored
<1>15. Holds(N)'
  <2>1. \A l \in Locals(f) : mem'[LocalAt(f, l, b)] = frames[N].locals[l]
    BY <1>7, <1>12, <1>13 DEF Holds
  <2>2. \A k \in 1..n : mem'[low - k] = s[k]
    BY <1>7, <1>12, <1>13 DEF Holds
  <2>3. mem'[low - (n + 1)] = v
    <3>1. low - (n + 1) = rsp - 1
      <4> HIDE DEF low, n
      <4> QED BY <1>3, <1>7
    <3> QED BY <1>8, <3>1
  <2>4. \A k \in 1..(n + 1) : mem'[low - k] = Append(s, v)[k]
    <3>1. n \in Nat /\ Append(s, v)[n + 1] = v /\ \A k \in 1..n : Append(s, v)[k] = s[k]
      BY <1>3, <1>5
    <3> DEFINE t == Append(s, v)
    <3> HIDE DEF low, n, s, t
    <3>2. \A k \in 1..(n + 1) : k \in 1..n \/ k = n + 1
      BY <3>1
    <3> QED BY <3>1, <3>2, <2>2, <2>3 DEF t
  <2> HIDE DEF owned, e
  <2>5. \A k \in 1..Len(e.pushed) : mem'[low - k] = e.pushed[k]
    BY <1>5, <1>6, <2>4
  <2>6. e.fn = f /\ e.locals = frames[N].locals
    BY <1>6
  <2> HIDE DEF f, b, low, s
  <2>7. \A l \in Locals(e.fn) : mem'[LocalAt(e.fn, l, b)] = e.locals[l]
    BY <2>1, <2>6
  <2> QED BY <1>11, <2>5, <2>7 DEF Holds
<1>16. rsp' = low - Len(e.pushed)
  <2>1. Len(e.pushed) = n + 1
    BY <1>5, <1>6
  <2>2. low \in Int /\ n \in Nat /\ rsp = low - n /\ rsp' = rsp - 1
    BY <1>3, <1>7, <1>8
  <2> HIDE DEF low, n, s, e
  <2> QED BY <2>1, <2>2
<1>17. pc'.fn = pc.fn /\ pc'.at = "body" /\ pc' \in [fn : Fns \cup {Main}, at : Places, k : Nat]
  BY <1>1, TypeParts
<1> HIDE DEF e
<1> QED BY <1>1, <1>2, <1>4, <1>6, <1>8, <1>9, <1>10, <1>14, <1>15, <1>16, <1>17, TopStep

LEMMA WithoutLast ==
  ASSUME NEW S, NEW s \in Seq(S), s # <<>>
  PROVE  /\ Front(s) \in Seq(S) /\ Len(s) \in Nat \ {0} /\ Len(Front(s)) = Len(s) - 1
         /\ \A k \in 1..(Len(s) - 1) : Front(s)[k] = s[k]
<1>1. Len(s) \in Nat /\ Len(s) # 0 /\ \A i \in 1..Len(s) : s[i] \in S
  BY LenProperties, EmptySeq, ElementOfSeq
<1> DEFINE n == Len(s) - 1
<1>2. n \in Nat /\ \A i \in 1..n : s[i] \in S
  BY <1>1
<1>3. Front(s) = SubSeq(s, 1, n)
  BY DEF Front
<1> HIDE DEF n
<1>4. /\ SubSeq(s, 1, n) \in Seq(S)
      /\ Len(SubSeq(s, 1, n)) = IF 1 <= n THEN n - 1 + 1 ELSE 0
      /\ \A i \in 1..(n - 1 + 1) : SubSeq(s, 1, n)[i] = s[1 + i - 1]
  BY <1>2, SubSeqProperties
<1>5. /\ (IF 1 <= n THEN n - 1 + 1 ELSE 0) = n /\ n - 1 + 1 = n
      /\ \A i \in 1..n : 1 + i - 1 = i
  BY <1>2
<1>6. Len(SubSeq(s, 1, n)) = n /\ \A i \in 1..n : SubSeq(s, 1, n)[i] = s[i]
  BY <1>4, <1>5
<1> QED BY <1>1, <1>3, <1>4, <1>6 DEF n

LEMMA PoppedWord ==
  ASSUME IInv, NEW r \in Touched, StackPop(r)
  PROVE  IInv'
<1>1. /\ Types /\ Links /\ Adjacent /\ Descending /\ Waiting /\ InBodyPart /\ pc.at = "body"
      /\ frames # <<>> /\ UNCHANGED <<pc, todo, mem>> /\ Top.pushed # <<>>
      /\ reg' = [reg EXCEPT ![r] = mem[rsp]] /\ rsp' = rsp + 1
      /\ frames' = [frames EXCEPT ![Len(frames)].pushed = Front(@)]
  BY DEF IInv, Place, StackPop, Begin, PopInto
<1>2. N \in 1..N /\ N > 0 /\ frames \in Seq(Frame) /\ N = Len(frames) /\ r \in Regs /\ r # "rbp"
  BY <1>1, TopFloor, EmptySeq, TypeParts, FrameAssumption DEF N
<1> DEFINE f == frames[N].fn
           b == FrameBase(N)
           p == frames[N].sp
           s == frames[N].pushed
           n == Len(s)
           low == Low(N)
           e == [frames[N] EXCEPT !.pushed = Front(s)]
<1>3. /\ frames[N] \in Frame /\ s \in Seq(Nat) /\ s # <<>> /\ p \in Nat /\ b = p - 1 /\ low \in Int /\ low < b
      /\ Floor(N) = low - n /\ p < StackTop /\ StackTop \in Nat
      /\ frames[N].locals \in [Locals(f) -> Nat] /\ f \in Fns
  <2>1. low = b - 4 - LocalWords(f) /\ LocalWords(f) \in Nat /\ low \in Int /\ b = p - 1 /\ p \in Nat
    BY <1>1, <1>2, FrameFacts
  <2>2. low < b
    <3> HIDE DEF low, b, p, f
    <3> QED BY <2>1
  <2>3. s # <<>>
    BY <1>1, <1>2 DEF Top, Last
  <2> QED BY <1>1, <1>2, <2>1, <2>2, <2>3, FrameFacts, TopFloor, TypeParts
<1>4. frames' = [frames EXCEPT ![N] = e]
  BY <1>1, <1>2
<1>5. Front(s) \in Seq(Nat) /\ n \in Nat \ {0} /\ Len(Front(s)) = n - 1 /\ \A k \in 1..(n - 1) : Front(s)[k] = s[k]
  BY <1>3, WithoutLast
<1>6. /\ e \in Frame /\ e.fn = frames[N].fn /\ e.caller = frames[N].caller /\ e.sp = p
      /\ e.regs = frames[N].regs /\ e.locals = frames[N].locals /\ e.pushed = Front(s)
      /\ e.locals \in [Locals(e.fn) -> Nat]
  BY <1>3, <1>5 DEF Frame
<1>7. rsp = low - n /\ Anchored(N) /\ Holds(N) /\ reg["rbp"] = b /\ rsp \in 0..StackTop
  <2>1. rsp = Floor(N) - 0 /\ Anchored(N) /\ Holds(N) /\ reg["rbp"] = b
    BY <1>1, <1>2 DEF InBodyPart, Passing
  <2>2. low - n \in Int /\ low - n = low - n - 0
    BY <1>3, <1>5
  <2> QED BY <1>1, <1>3, <2>1, <2>2, TypeParts
<1>8. rsp \in Words /\ rsp' \in 0..StackTop /\ rsp' = low - (n - 1)
  <2>1. rsp = low - n /\ rsp \in 0..StackTop /\ low \in Int /\ low < b /\ b = p - 1 /\ p < StackTop /\ p \in Nat
        /\ n \in Nat \ {0} /\ StackTop \in Nat /\ rsp' = rsp + 1
    BY <1>1, <1>3, <1>5, <1>7
  <2> HIDE DEF low, b, p, n
  <2> QED BY <2>1 DEF Words
<1>9. reg' \in [Regs -> Nat] /\ reg'["rbp"] = b
  <2>1. mem[rsp] \in Nat /\ reg \in [Regs -> Nat]
    BY <1>1, <1>8, TypeParts
  <2> QED BY <1>1, <1>2, <1>7, <2>1, Registers
<1>10. \A a \in Words : a > p => mem'[a] = mem[a]
  BY <1>1
<1>11. FrameBase(N)' = b /\ Low(N)' = low /\ frames'[N'] = e /\ N' = N
  <2> HIDE DEF e
  <2> QED BY <1>1, <1>2, <1>4, <1>6, <1>10, TopChanged
<1>12. Anchored(N)'
  <2> HIDE DEF b, low
  <2>1. mem' = mem
    BY <1>1
  <2> QED BY <1>6, <1>7, <1>11, <2>1, Registers DEF Anchored, b
<1>13. Holds(N)'
  <2>1. \A k \in 1..Len(e.pushed) : mem'[low - k] = e.pushed[k]
    <3>1. \A k \in 1..n : mem[low - k] = s[k]
      BY <1>7 DEF Holds
    <3>2. Len(e.pushed) = n - 1 /\ e.pushed = Front(s)
      BY <1>5, <1>6
    <3>3. 1..(n - 1) \subseteq 1..n
      BY <1>5
    <3>4. mem' = mem /\ \A k \in 1..(n - 1) : Front(s)[k] = s[k]
      BY <1>1, <1>5
    <3> HIDE DEF e, n, s, low
    <3> QED BY <3>1, <3>2, <3>3, <3>4
  <2>2. \A l \in Locals(f) : mem'[LocalAt(f, l, b)] = frames[N].locals[l]
    BY <1>1, <1>7 DEF Holds
  <2>3. e.fn = f /\ e.locals = frames[N].locals
    BY <1>6
  <2> HIDE DEF f, b, low, s, e
  <2>4. \A l \in Locals(e.fn) : mem'[LocalAt(e.fn, l, b)] = e.locals[l]
    BY <2>2, <2>3
  <2> QED BY <1>11, <2>1, <2>4 DEF Holds
<1>14. rsp' = low - Len(e.pushed)
  BY <1>5, <1>6, <1>8
<1>15. pc'.fn = pc.fn /\ pc'.at = "body" /\ pc' \in [fn : Fns \cup {Main}, at : Places, k : Nat]
  BY <1>1, TypeParts
<1>16. mem' \in [Words -> Nat]
  BY <1>1, TypeParts
<1> HIDE DEF e
<1> QED BY <1>1, <1>2, <1>4, <1>6, <1>8, <1>9, <1>10, <1>12, <1>13, <1>14, <1>15, <1>16, TopStep

LEMMA Allocated ==
  ASSUME IInv, Allocate
  PROVE  IInv'
<1>1. /\ Types /\ Links /\ Adjacent /\ Descending /\ Waiting /\ InPrologue /\ pc.at = "save" /\ pc.k > 4
      /\ UNCHANGED <<todo, mem, reg>> /\ rsp' = rsp - LocalWords(Current)
      /\ rsp > LocalWords(Current) + RedZone + IrqWords /\ pc' = At(Current, "body")
      /\ frames' = [frames EXCEPT ![Len(frames)].locals =
                      [i \in Locals(Current) |-> mem[LocalAt(Current, i, reg["rbp"])]]]
  BY Registers DEF IInv, Place, Allocate, Saves
<1>2. N \in 1..N /\ N > 0 /\ frames \in Seq(Frame) /\ N = Len(frames) /\ Current = frames[N].fn
  BY <1>1, TopFloor, TypeParts DEF N, InPrologue, Links, Current
<1> DEFINE f == frames[N].fn
           b == FrameBase(N)
           p == frames[N].sp
           w == LocalWords(f)
           low == Low(N)
           locals == [i \in Locals(f) |-> mem[LocalAt(f, i, b)]]
           e == [frames[N] EXCEPT !.locals = locals]
<1>3. /\ frames[N] \in Frame /\ p \in Nat /\ b = p - 1 /\ w \in Nat /\ low = b - 4 - w /\ p < StackTop
      /\ StackTop \in Nat /\ f \in Fns
  BY <1>1, <1>2, FrameFacts, TopFloor
<1>4. /\ rsp = b - 4 /\ reg["rbp"] = b /\ frames[N].pushed = <<>>
      /\ mem[p] = ReturnAddress(frames[N].caller) /\ mem[b] = frames[N].regs["rbp"]
      /\ \A k \in 1..4 : mem[b - k] = frames[N].regs[Callee[k]]
  <2>1. pc.k \in 1..5 /\ pc.k \in Nat
    BY <1>1, Registers, TypeParts DEF InPrologue
  <2>2. pc.k = 5
    BY <1>1, <2>1
  <2>3. rsp = b - (5 - 1) /\ reg["rbp"] = b /\ \A k \in 1..(5 - 1) : mem[b - k] = frames[N].regs[Callee[k]]
    BY <1>1, <2>2 DEF InPrologue
  <2> QED BY <1>1, <1>3, <2>3 DEF InPrologue
<1>5. rsp' = low /\ rsp' \in 0..StackTop /\ \A a \in (b - 4 - w)..(b - 5) : a \in Words
  <2>1. /\ rsp' = rsp - w /\ rsp > w + RedZone + IrqWords /\ rsp = b - 4
        /\ RedZone \in Nat /\ IrqWords \in Nat
    BY <1>1, <1>2, <1>4, FrameAssumption
  <2> HIDE DEF b, p, w, low
  <2> QED BY <1>3, <2>1 DEF Words
<1>6. \A i \in Locals(f) : LocalAt(f, i, b) \in Words
  <2>1. b \in Int
    BY <1>3
  <2>2. \A i \in Locals(f) : LocalAt(f, i, b) \in (b - 4 - w)..(b - 5)
    BY <1>3, <2>1, Layout
  <2> QED BY <1>5, <2>2
<1>7. locals \in [Locals(f) -> Nat]
  BY <1>1, <1>6, TypeParts
<1>8. frames' = [frames EXCEPT ![N] = e]
  <2>1. frames' = [frames EXCEPT ![N].locals = locals]
    BY <1>1, <1>2, <1>4
  <2> HIDE DEF locals
  <2> QED BY <1>2, <2>1
<1>9. /\ e \in Frame /\ e.fn = f /\ e.caller = frames[N].caller /\ e.sp = p
      /\ e.regs = frames[N].regs /\ e.locals = locals /\ e.pushed = <<>>
      /\ e.locals \in [Locals(e.fn) -> Nat]
  <2>1. locals \in AllLocals
    BY <1>3, <1>7 DEF AllLocals
  <2> HIDE DEF locals
  <2> QED BY <1>3, <1>4, <1>7, <2>1 DEF Frame
<1>10. pc'.fn = pc.fn /\ pc'.at = "body" /\ pc' \in [fn : Fns \cup {Main}, at : Places, k : Nat]
  BY <1>1, TypeParts DEF At, Places, Current
<1>11. \A a \in Words : a > p => mem'[a] = mem[a]
  BY <1>1
<1>12. FrameBase(N)' = b /\ Low(N)' = low /\ frames'[N'] = e /\ N' = N
  <2> HIDE DEF e
  <2> QED BY <1>1, <1>2, <1>8, <1>9, <1>10, <1>11, TopChanged
<1>13. Anchored(N)'
  <2> HIDE DEF e, b, p
  <2>1. mem' = mem /\ Saves' = 4 /\ Saves = 4
    BY <1>1, Registers DEF Saves
  <2> QED BY <1>4, <1>9, <1>12, <2>1 DEF Anchored
<1>14. Len(e.pushed) = 0
  BY <1>9
<1>15. Holds(N)'
  <2>1. \A l \in Locals(e.fn) : mem'[LocalAt(e.fn, l, b)] = e.locals[l]
    BY <1>1, <1>9
  <2>2. \A k \in 1..Len(e.pushed) : mem'[low - k] = e.pushed[k]
    BY <1>14
  <2> HIDE DEF b, low, e
  <2> QED BY <1>12, <2>1, <2>2 DEF Holds
<1>16. rsp' = low - Len(e.pushed) /\ reg'["rbp"] = b /\ reg' \in [Regs -> Nat] /\ mem' \in [Words -> Nat]
  <2>1. reg'["rbp"] = b /\ reg' \in [Regs -> Nat] /\ mem' \in [Words -> Nat]
    BY <1>1, <1>4, TypeParts
  <2>2. low \in Int /\ rsp' = low
    <3> HIDE DEF b, w, low
    <3> QED BY <1>3, <1>5
  <2> HIDE DEF low, e
  <2>3. rsp' = low - Len(e.pushed)
    BY <1>14, <2>2
  <2> QED BY <2>1, <2>3
<1> HIDE DEF e
<1> QED BY <1>1, <1>2, <1>5, <1>8, <1>9, <1>10, <1>11, <1>13, <1>15, <1>16, TopStep

-----------------------------------------------------------------------------
(* Calls and returns.                                                      *)

LEMMA Called ==
  ASSUME IInv, CallFn
  PROVE  IInv'
<1> DEFINE e == [fn |-> todo.fn, caller |-> Current, sp |-> rsp - 1, given |-> todo.given,
                 regs |-> [r \in Saved |-> reg[r]],
                 locals |-> [i \in Locals(todo.fn) |-> Junk], pushed |-> <<>>]
<1>1. /\ Types /\ Links /\ Adjacent /\ Descending /\ Waiting /\ InBodyPart
      /\ pc.at = "pop_arg" /\ pc.k = 0 /\ PushWord(ReturnAddress(Current)) /\ frames' = Append(frames, e)
      /\ pc' = At(todo.fn, "entry") /\ UNCHANGED <<reg, todo>>
  BY DEF IInv, Place, CallFn
<1>2. /\ N \in Nat /\ frames \in Seq(Frame) /\ todo.fn \in Fns /\ Current \in Fns \cup {Main}
      /\ Floor(N) \in Int /\ StackTop \in Nat /\ reg \in [Regs -> Nat] /\ rsp \in 0..StackTop
  BY <1>1, TopFloor, TypeParts DEF Current
<1>3. /\ rsp = Floor(N) /\ (N > 0 => Anchored(N) /\ Holds(N) /\ reg["rbp"] = FrameBase(N))
  <2>1. rsp = Floor(N) - 0 /\ (N > 0 => Anchored(N) /\ Holds(N) /\ reg["rbp"] = FrameBase(N))
    BY <1>1 DEF InBodyPart, Passing
  <2> QED BY <1>2, <2>1
<1>4. ReturnAddress(Current) \in Nat
  BY <1>2, FrameAssumption DEF ReturnAddress
<1>5. /\ rsp - 1 \in Words /\ rsp' = rsp - 1 /\ rsp' \in 0..StackTop /\ mem' \in [Words -> Nat]
      /\ mem'[rsp - 1] = ReturnAddress(Current) /\ \A a \in Words : a # rsp - 1 => mem'[a] = mem[a]
  BY <1>1, <1>4, Pushing
<1>6. rsp - 1 \in Nat
  BY <1>2, <1>5 DEF Words
<1>7. /\ e \in Frame /\ e.fn = todo.fn /\ e.caller = Current /\ e.sp = rsp - 1 /\ e.pushed = <<>>
      /\ e.regs = [r \in Saved |-> reg[r]] /\ e.locals \in [Locals(e.fn) -> Nat]
  <2>1. [i \in Locals(todo.fn) |-> Junk] \in [Locals(todo.fn) -> Nat]
    BY DEF Junk
  <2>2. [i \in Locals(todo.fn) |-> Junk] \in AllLocals
    BY <1>2, <2>1 DEF AllLocals
  <2>3. [r \in Saved |-> reg[r]] \in [Saved -> Nat]
    BY <1>2, Registers
  <2>4. todo.given \in Seq(Nat) /\ <<>> \in Seq(Nat)
    BY <1>1, TypeParts
  <2> QED BY <1>2, <1>6, <2>1, <2>2, <2>3, <2>4 DEF Frame
<1> HIDE DEF e
<1>8. /\ frames' \in Seq(Frame) /\ N' = N + 1 /\ frames'[N + 1] = e
      /\ \A i \in 1..N : frames'[i] = frames[i]
  BY <1>1, <1>2, <1>7, AppendProperties DEF N
<1>9. \A i \in 1..N : FrameBase(i)' = FrameBase(i) /\ Low(i)' = Low(i)
  BY <1>8 DEF FrameBase, Low
<1>10. \A i \in 0..N : Floor(i)' = Floor(i)
  BY <1>2, <1>8, <1>9 DEF Floor
<1>11. \A i \in 1..N : Floor(i) \in Int /\ Floor(i) >= Floor(N) /\ frames[i].sp < StackTop
  <2> SUFFICES ASSUME NEW i \in 1..N
               PROVE  Floor(i) \in Int /\ Floor(i) >= Floor(N) /\ frames[i].sp < StackTop
    OBVIOUS
  <2>1. N \in 1..N
    BY <1>2
  <2>2. Floor(N) < frames[N].sp /\ frames[N].sp \in Nat /\ Floor(i) \in Int
    BY <1>1, <2>1, FrameFacts
  <2>3. i < N => Floor(i) > frames[N].sp
    BY <1>1, <2>1 DEF Descending
  <2>4. i = N \/ i < N
    BY <1>2
  <2>5. frames[i].sp < StackTop
    BY <1>1, Bounds
  <2> QED BY <1>2, <2>2, <2>3, <2>4, <2>5
<1>12. Types'
  <2>1. /\ todo'.fn \in Fns \cup {Main} /\ todo'.args \in Seq(Operands) /\ todo'.given \in Seq(Nat)
        /\ Len(todo'.args) <= Len(ArgRegs)
    BY <1>1, TypeParts, Registers
  <2>2. pc' \in [fn : Fns \cup {Main}, at : Places, k : Nat] /\ ~(pc'.at \in {"arg", "pop_arg"})
    BY <1>1, <1>2 DEF At, Places
  <2>3. \A i \in 1..N' : frames'[i].locals \in [Locals(frames'[i].fn) -> Nat]
    <3>1. \A i \in 1..N : frames[i].locals \in [Locals(frames[i].fn) -> Nat]
      BY <1>1, TypeParts
    <3>2. \A i \in 1..(N + 1) : i \in 1..N \/ i = N + 1
      BY <1>2
    <3> QED BY <1>7, <1>8, <3>1, <3>2
  <2>4. reg' \in [Regs -> Nat]
    BY <1>1, <1>2
  <2> QED BY <1>5, <1>8, <2>1, <2>2, <2>3, <2>4, Zenon DEF Types
<1>l. /\ pc.fn = IF N = 0 THEN Main ELSE frames[N].fn
      /\ \A i \in 1..N : frames[i].caller = IF i = 1 THEN Main ELSE frames[i - 1].fn
      /\ \A i \in 2..N : frames[i].regs["rbp"] = FrameBase(i - 1)
      /\ \A i \in 1..N : frames[i].sp + 1 = Floor(i - 1)
      /\ \A i, j \in 1..N : i < j => frames[j].sp < Floor(i)
  BY <1>1 DEF Links, Adjacent, Descending
<1>n. /\ \A i \in 1..N : i - 1 \in 0..N /\ (i # 1 => i - 1 \in 1..N)
      /\ \A i \in 2..N : i - 1 \in 1..N /\ i \in 1..N
      /\ \A i \in 1..(N + 1) : i \in 1..N \/ i = N + 1
      /\ \A i \in 2..(N + 1) : i \in 2..N \/ (i = N + 1 /\ N > 0)
      /\ \A i, j \in 1..(N + 1) : i < j => i \in 1..N
      /\ (N + 1) - 1 = N /\ (N + 1 = 1 <=> N = 0) /\ (N > 0 => N \in 1..N) /\ N \in 0..N
  BY <1>2
<1>13. Links'
  <2>1. N' # 0 /\ pc'.fn = frames'[N'].fn
    BY <1>1, <1>2, <1>7, <1>8 DEF At
  <2>2. \A i \in 1..(N + 1) : frames'[i].caller = IF i = 1 THEN Main ELSE frames'[i - 1].fn
    <3>1. \A i \in 1..N : frames'[i].caller = IF i = 1 THEN Main ELSE frames'[i - 1].fn
      BY <1>l, <1>n, <1>8
    <3>2. frames'[N + 1].caller = pc.fn
      BY <1>7, <1>8 DEF Current
    <3>3. N # 0 => frames'[N].fn = frames[N].fn
      BY <1>2, <1>n, <1>8
    <3>4. frames'[N + 1].caller = IF N + 1 = 1 THEN Main ELSE frames'[(N + 1) - 1].fn
      BY <1>l, <1>n, <3>2, <3>3
    <3> QED BY <1>n, <3>1, <3>4
  <2>3. \A i \in 2..(N + 1) : frames'[i].regs["rbp"] = FrameBase(i - 1)'
    <3>1. \A i \in 2..N : frames'[i].regs["rbp"] = FrameBase(i - 1)'
      BY <1>l, <1>n, <1>8, <1>9
    <3>2. N > 0 => frames'[N + 1].regs["rbp"] = FrameBase(N)
      BY <1>3, <1>7, <1>8, Registers
    <3>3. ASSUME NEW i \in 2..(N + 1), i = N + 1 PROVE frames'[i].regs["rbp"] = FrameBase(i - 1)'
      <4>1. i - 1 = N /\ i - 1 \in 1..N /\ N > 0
        BY <1>2, <3>3
      <4>2. FrameBase(i - 1)' = FrameBase(i - 1)
        BY <1>9, <4>1
      <4> QED BY <3>2, <3>3, <4>1, <4>2
    <3> QED BY <1>n, <3>1, <3>3
  <2> QED BY <1>8, <2>1, <2>2, <2>3, Zenon DEF Links
<1>14. Adjacent'
  <2>1. \A i \in 1..N : frames'[i].sp + 1 = Floor(i - 1)'
    BY <1>l, <1>n, <1>8, <1>10
  <2>2. ASSUME NEW i \in 1..(N + 1), i = N + 1 PROVE frames'[i].sp + 1 = Floor(i - 1)'
    <3>1. i - 1 = N /\ i - 1 \in 0..N
      BY <1>2, <2>2
    <3>2. Floor(i - 1)' = Floor(i - 1)
      BY <1>10, <3>1
    <3>3. frames'[i].sp = rsp - 1
      BY <1>7, <1>8, <2>2
    <3>4. rsp = Floor(i - 1) /\ (rsp - 1) + 1 = rsp
      BY <1>2, <1>3, <3>1
    <3> QED BY <3>2, <3>3, <3>4
  <2> QED BY <1>n, <1>8, <2>1, <2>2 DEF Adjacent
<1>15. Descending'
  <2>1. \A i, j \in 1..N : i < j => frames'[j].sp < Floor(i)'
    BY <1>l, <1>n, <1>2, <1>8, <1>10
  <2>2. \A i \in 1..N : frames'[N + 1].sp < Floor(i)'
    <3>1. \A i \in 1..N : rsp - 1 < Floor(i)
      BY <1>2, <1>3, <1>11
    <3>2. \A i \in 1..N : i \in 0..N
      BY <1>2
    <3> QED BY <1>7, <1>8, <1>10, <3>1, <3>2
  <2> QED BY <1>n, <1>8, <2>1, <2>2 DEF Descending
<1>16. Waiting'
  <2> SUFFICES ASSUME NEW i \in 1..N PROVE Anchored(i)' /\ Holds(i)'
    BY <1>2, <1>8 DEF Waiting
  <2>1. Anchored(i) /\ Holds(i)
    BY <1>1, <1>2, <1>3 DEF Waiting
  <2>2. Floor(i) >= 0 /\ frames[i].sp < StackTop /\ frames'[i] = frames[i]
    BY <1>2, <1>3, <1>6, <1>8, <1>11
  <2>3. \A a \in Words : a >= Floor(i) => mem'[a] = mem[a]
    BY <1>2, <1>3, <1>5, <1>11 DEF Words
  <2> QED BY <1>1, <2>1, <2>2, <2>3, KeptStep
<1>17. Place'
  <2>1. pc'.at = "entry" /\ N' > 0 /\ frames'[N'] = e
    BY <1>1, <1>2, <1>8 DEF At
  <2>2. mem'[e.sp] = ReturnAddress(e.caller) /\ rsp' = e.sp
    BY <1>5, <1>7
  <2>3. \A r \in Saved : reg'[r] = e.regs[r]
    BY <1>1, <1>7
  <2>4. InPrologue'
    BY <1>7, <2>1, <2>2, <2>3 DEF InPrologue, ReturnAddress
  <2> QED BY <2>1, <2>4 DEF Place
<1> QED BY <1>12, <1>13, <1>14, <1>15, <1>16, <1>17 DEF IInv

LEMMA Returned ==
  ASSUME IInv, Return
  PROVE  IInv'
<1>1. /\ Types /\ Links /\ Adjacent /\ Descending /\ Waiting /\ InEpilogue
      /\ pc.at = "ret" /\ frames' = Front(frames) /\ rsp' = rsp + 1 /\ UNCHANGED <<mem, reg, todo>>
      /\ pc' = IF \E f \in Fns \cup {Main} : ReturnAddress(f) = mem[rsp]
               THEN At(CHOOSE f \in Fns \cup {Main} : ReturnAddress(f) = mem[rsp], "body")
               ELSE At(Current, "wild")
  BY DEF IInv, Place, Return
<1>2. /\ N \in 1..N /\ N \in Nat /\ N > 0 /\ frames \in Seq(Frame) /\ frames # <<>> /\ N = Len(frames)
      /\ frames[N] \in Frame /\ frames[N].sp \in Nat /\ frames[N].sp < StackTop /\ StackTop \in Nat
  BY <1>1, TopFloor, TypeParts, EmptySeq DEF N, InEpilogue
<1> DEFINE c == frames[N].caller
           m == N - 1
<1>3. c \in Fns \cup {Main} /\ m \in Nat /\ m \in 0..N /\ 1..m \subseteq 1..N
  BY <1>2 DEF Frame
<1>4. rsp = frames[N].sp /\ mem[rsp] = ReturnAddress(c) /\ \A r \in Saved : reg[r] = frames[N].regs[r]
  BY <1>1 DEF InEpilogue
<1>5. pc' = At(c, "body")
  <2>1. \A f \in Fns \cup {Main} : ReturnAddress(f) = mem[rsp] <=> f = c
    BY <1>3, <1>4, FrameAssumption DEF ReturnAddress
  <2>2. (CHOOSE f \in Fns \cup {Main} : ReturnAddress(f) = mem[rsp]) = c
    BY <1>3, <2>1
  <2> QED BY <1>1, <1>3, <1>4, <2>2
<1>6. /\ frames' \in Seq(Frame) /\ N' = m /\ \A i \in 1..m : frames'[i] = frames[i]
  BY <1>1, <1>2, WithoutLast DEF N
<1>7. \A i \in 1..m : FrameBase(i)' = FrameBase(i) /\ Low(i)' = Low(i)
  BY <1>6 DEF FrameBase, Low
<1>8. \A i \in 0..m : Floor(i)' = Floor(i)
  BY <1>3, <1>6, <1>7 DEF Floor
<1>l. /\ \A i \in 1..N : frames[i].caller = IF i = 1 THEN Main ELSE frames[i - 1].fn
      /\ \A i \in 2..N : frames[i].regs["rbp"] = FrameBase(i - 1)
      /\ \A i \in 1..N : frames[i].sp + 1 = Floor(i - 1)
      /\ \A i, j \in 1..N : i < j => frames[j].sp < Floor(i)
  BY <1>1 DEF Links, Adjacent, Descending
<1>n. /\ \A i \in 1..m : i - 1 \in 0..m /\ (i # 1 => i - 1 \in 1..m)
      /\ \A i \in 2..m : i - 1 \in 1..m /\ i \in 1..m /\ i \in 2..N
      /\ (N = 1 <=> m = 0) /\ (m > 0 => m \in 1..m /\ N \in 2..N /\ m \in 1..(N - 1))
  BY <1>2
<1>9. Types'
  <2>1. /\ todo'.fn \in Fns \cup {Main} /\ todo'.args \in Seq(Operands) /\ todo'.given \in Seq(Nat)
        /\ Len(todo'.args) <= Len(ArgRegs) /\ mem' \in [Words -> Nat] /\ reg' \in [Regs -> Nat]
    BY <1>1, TypeParts, Registers
  <2>2. pc' \in [fn : Fns \cup {Main}, at : Places, k : Nat] /\ ~(pc'.at \in {"arg", "pop_arg"})
    BY <1>3, <1>5 DEF At, Places
  <2>3. \A i \in 1..N' : frames'[i].locals \in [Locals(frames'[i].fn) -> Nat]
    <3>1. \A i \in 1..N : frames[i].locals \in [Locals(frames[i].fn) -> Nat]
      BY <1>1, TypeParts
    <3> QED BY <1>3, <1>6, <3>1
  <2>4. rsp' \in 0..StackTop
    BY <1>1, <1>2, <1>4
  <2> QED BY <1>6, <2>1, <2>2, <2>3, <2>4, Zenon DEF Types
<1>10. Links'
  <2>1. pc'.fn = IF m = 0 THEN Main ELSE frames'[m].fn
    <3>1. c = IF N = 1 THEN Main ELSE frames[N - 1].fn
      BY <1>2, <1>l
    <3>2. pc'.fn = c
      BY <1>5 DEF At
    <3>3. ASSUME m # 0 PROVE frames'[m].fn = frames[N - 1].fn
      <4>0. m \in Nat
        BY <1>3
      <4>1. m \in 1..m
        <5> HIDE DEF m
        <5> QED BY <3>3, <4>0
      <4>2. frames'[m] = frames[m]
        BY <1>6, <4>1
      <4> QED BY <4>2
    <3> QED BY <1>n, <3>1, <3>2, <3>3
  <2>2. \A i \in 1..m : frames'[i].caller = IF i = 1 THEN Main ELSE frames'[i - 1].fn
    BY <1>3, <1>6, <1>l, <1>n
  <2>3. \A i \in 2..m : frames'[i].regs["rbp"] = FrameBase(i - 1)'
    BY <1>3, <1>6, <1>7, <1>l, <1>n
  <2> HIDE DEF m
  <2> QED BY <1>6, <2>1, <2>2, <2>3 DEF Links
<1>11. Adjacent'
  <2>1. \A i \in 1..m : frames'[i].sp + 1 = Floor(i - 1)'
    BY <1>3, <1>6, <1>8, <1>l, <1>n
  <2> HIDE DEF m
  <2> QED BY <1>6, <2>1 DEF Adjacent
<1>12. Descending'
  <2>1. \A i, j \in 1..m : i < j => frames'[j].sp < Floor(i)'
    <3>1. 1..m \subseteq 0..m
      BY <1>3
    <3> QED BY <1>3, <1>6, <1>8, <1>l, <3>1
  <2> HIDE DEF m
  <2> QED BY <1>6, <2>1 DEF Descending
<1>13. \A i \in 1..m : Anchored(i)' /\ Holds(i)'
  <2> SUFFICES ASSUME NEW i \in 1..m PROVE Anchored(i)' /\ Holds(i)'
    OBVIOUS
  <2>1. Anchored(i) /\ Holds(i)
    BY <1>1, <1>2 DEF Waiting
  <2>2. frames'[i] = frames[i] /\ FrameBase(i)' = FrameBase(i) /\ Low(i)' = Low(i) /\ mem' = mem
    BY <1>1, <1>6, <1>7
  <2> QED BY <2>1, <2>2, Registers DEF Anchored, Holds
<1>14. Waiting'
  <2>1. \A i \in 1..(m - 1) : i \in 1..m
    BY <1>3
  <2> HIDE DEF m
  <2> QED BY <1>6, <1>13, <2>1 DEF Waiting
<1>15. Place'
  <2>1. pc'.at = "body" /\ Passing' = 0
    BY <1>5 DEF At, Passing
  <2>2. ASSUME NEW i, i = m PROVE rsp' = Floor(i)'
    BY <1>1, <1>2, <1>3, <1>4, <1>8, <1>l, <2>2
  <2>3. ASSUME NEW i, i = m, m > 0 PROVE Anchored(i)' /\ Holds(i)' /\ reg'["rbp"] = FrameBase(i)'
    <3>1. reg'["rbp"] = FrameBase(i)
      BY <1>1, <1>4, <1>l, <1>n, <2>3, Registers
    <3> QED BY <1>7, <1>13, <1>n, <2>3, <3>1
  <2>4. ASSUME NEW i, i = N'
        PROVE  /\ Floor(N)' = Floor(i)' /\ Anchored(N)' = Anchored(i)' /\ Holds(N)' = Holds(i)'
               /\ FrameBase(N)' = FrameBase(i)'
    BY <2>4 DEF Floor, Low, FrameBase, Anchored, Holds
  <2>5. rsp' = Floor(N)' /\ (N' > 0 => Anchored(N)' /\ Holds(N)' /\ reg'["rbp"] = FrameBase(N)')
    BY <1>6, <2>2, <2>3, <2>4
  <2>6. rsp' \in Int
    BY <1>1, <1>2, <1>4
  <2>7. InBodyPart'
    BY <2>1, <2>5, <2>6 DEF InBodyPart
  <2> QED BY <2>1, <2>7 DEF Place
<1> QED BY <1>9, <1>10, <1>11, <1>12, <1>14, <1>15 DEF IInv

-----------------------------------------------------------------------------
(* An interruption, which leaves the words from rsp - Saves on alone.      *)

LEMMA Interrupted ==
  ASSUME IInv, RedZone >= Saves, Interruption
  PROVE  IInv'
<1>1. Types /\ Links /\ Adjacent /\ Descending /\ Waiting /\ Place
  BY DEF IInv
<1>2. /\ UNCHANGED <<rsp, reg, pc, todo, frames>>
      /\ mem' = [a \in Words |->
           IF a \in (rsp - RedZone - IrqWords)..(rsp - RedZone - 1) THEN Junk ELSE mem[a]]
  BY DEF Interruption
<1>3. /\ RedZone \in Nat /\ RedZone >= 4 /\ IrqWords \in Nat /\ StackTop \in Nat /\ rsp \in 0..StackTop
      /\ mem \in [Words -> Nat] /\ N \in Nat /\ Floor(N) \in Int /\ Floor(N) <= StackTop
  BY <1>1, FrameAssumption, Registers, TypeParts, TopFloor
<1>4. mem' \in [Words -> Nat] /\ \A a \in Words : a >= rsp - 4 => mem'[a] = mem[a]
  <2>1. mem' \in [Words -> Nat]
    BY <1>2, <1>3 DEF Junk
  <2>2. \A a \in Words : a >= rsp - 4 => a \notin (rsp - RedZone - IrqWords)..(rsp - RedZone - 1)
    BY <1>3 DEF Words
  <2> QED BY <1>2, <2>1, <2>2
<1>f. N > 0 => /\ N \in 1..N /\ frames[N].sp \in Nat /\ FrameBase(N) = frames[N].sp - 1
               /\ frames[N].sp < StackTop /\ Floor(N) < frames[N].sp
  BY <1>1, <1>3, TopFloor, FrameFacts
<1>5. Types'
  <2>1. \A i \in 1..N' : frames'[i].locals \in [Locals(frames'[i].fn) -> Nat]
    BY <1>1, <1>2, TypeParts DEF N
  <2>2. /\ todo'.fn \in Fns \cup {Main} /\ todo'.args \in Seq(Operands) /\ todo'.given \in Seq(Nat)
        /\ Len(todo'.args) <= Len(ArgRegs) /\ reg' \in [Regs -> Nat] /\ rsp' \in 0..StackTop
        /\ pc' \in [fn : Fns \cup {Main}, at : Places, k : Nat] /\ frames' \in Seq(Frame)
        /\ pc'.at \in {"arg", "pop_arg"} => todo'.fn \in Fns
    BY <1>1, <1>2, TypeParts, Registers
  <2> QED BY <1>4, <2>1, <2>2, Zenon DEF Types
<1>6. pc.at \in {"body", "arg", "pop_arg", "unwind"} => rsp <= Floor(N)
  BY <1>1, <1>3, TypeParts DEF Place, InBodyPart, Passing
<1>7. N > 0 => rsp <= frames[N].sp
  <2> SUFFICES ASSUME N > 0 PROVE rsp <= frames[N].sp
    OBVIOUS
  <2>1. CASE InBodyPart /\ pc.at \in {"body", "arg", "pop_arg", "unwind"}
    BY <1>3, <1>f, <1>6, <2>1
  <2>2. CASE InPrologue /\ pc.at \in {"entry", "frame", "save"}
    BY <1>3, <1>f, <2>2, Registers, SMTT(30) DEF InPrologue
  <2>3. CASE InEpilogue /\ pc.at \in {"skip", "restore", "ret"}
    BY <1>3, <1>f, <2>3, Registers DEF InEpilogue
  <2> QED BY <1>1, <2>1, <2>2, <2>3, TypeParts DEF Place, Places
<1>8. Links' /\ Adjacent' /\ Descending' /\ Waiting'
  <2>1. N > 0 => \A a \in Words : a > frames[N].sp => mem'[a] = mem[a]
    BY <1>3, <1>4, <1>f, <1>7 DEF Words
  <2> QED BY <1>1, <1>2, <2>1, SameFrames
<1>p. pc' = pc
  BY <1>2
<1>9. UNCHANGED frames /\ Saves' = Saves /\ Passing' = Passing /\ Saves = 4
  BY <1>2, Registers DEF Saves, Passing
<1>10. ASSUME pc.at \in {"body", "arg", "pop_arg", "unwind"} PROVE Place'
  <2>1. InBodyPart
    BY <1>1, <1>10 DEF Place
  <2>2. N > 0 => Anchored(N)' /\ (Holds(N) => Holds(N)')
    <3>1. Floor(N) >= 0 /\ \A a \in Words : a >= Floor(N) => mem'[a] = mem[a]
      BY <1>3, <1>4, <1>6, <1>10 DEF Words
    <3>2. N > 0 => Anchored(N)
      BY <2>1 DEF InBodyPart
    <3>3. frames' = frames
      BY <1>2
    <3> QED BY <1>1, <1>f, <3>1, <3>2, <3>3, KeptStep, Standing
  <2>3. pc.at = "arg" => \A i \in 1..Len(todo.args) : Usable(todo.args[i])'
    BY <1>2, <2>1 DEF InBodyPart, Usable, Current
  <2>4. InBodyPart'
    BY <1>2, <1>9, <2>1, <2>2, <2>3, Standing DEF InBodyPart
  <2> QED BY <1>p, <1>10, <2>4 DEF Place
<1>11. ASSUME pc.at \in {"entry", "frame", "save"} PROVE Place'
  <2>1. InPrologue
    BY <1>1, <1>11 DEF Place
  <2> DEFINE b == FrameBase(N)
             p == frames[N].sp
  <2>2. N > 0 /\ p \in Nat /\ b = p - 1 /\ p < StackTop /\ rsp <= p /\ rsp \in Nat
    BY <1>3, <1>f, <1>7, <2>1 DEF InPrologue
  <2>3. /\ pc.at = "frame" => rsp = b
        /\ pc.at = "save" => pc.k \in 1..5 /\ rsp = b - (pc.k - 1)
    BY <1>9, <2>1 DEF InPrologue
  <2>4. mem'[p] = mem[p]
    BY <1>3, <1>4, <2>2 DEF Words
  <2>5. pc.at \in {"frame", "save"} =>
          mem'[b] = mem[b] /\ \A k \in 1..(pc.k - 1) : pc.at = "save" => mem'[b - k] = mem[b - k]
    <3> SUFFICES ASSUME pc.at \in {"frame", "save"}
                 PROVE  mem'[b] = mem[b] /\ \A k \in 1..(pc.k - 1) : pc.at = "save" => mem'[b - k] = mem[b - k]
      OBVIOUS
    <3> DEFINE j == IF pc.at = "save" THEN pc.k - 1 ELSE 0
    <3>1. rsp = b - j /\ j \in 0..4 /\ (pc.at = "save" => j = pc.k - 1)
      BY <2>2, <2>3
    <3> HIDE DEF b, p, j
    <3>2. b \in Words /\ b >= rsp - 4 /\ \A k \in 1..j : b - k \in Words /\ b - k >= rsp - 4
      BY <1>3, <2>2, <3>1 DEF Words
    <3>3. mem'[b] = mem[b] /\ \A k \in 1..j : mem'[b - k] = mem[b - k]
      BY <1>4, <3>2
    <3> QED BY <3>1, <3>3
  <2>6. InPrologue'
    BY <1>2, <1>9, <2>1, <2>4, <2>5, Standing DEF InPrologue
  <2> QED BY <1>p, <1>11, <2>6 DEF Place
<1>12. ASSUME pc.at \in {"skip", "restore", "ret"} PROVE Place'
  <2>1. InEpilogue
    BY <1>1, <1>12 DEF Place
  <2> DEFINE b == FrameBase(N)
             p == frames[N].sp
  <2>2. N > 0 /\ p \in Nat /\ b = p - 1 /\ p < StackTop /\ rsp <= p /\ rsp \in Nat
    BY <1>3, <1>f, <1>7, <2>1 DEF InEpilogue
  <2>3. pc.at \in {"skip", "restore"} => b >= 4 /\ rsp \in (b - 4)..b
    <3>1. pc.at = "skip" => rsp = b /\ b >= 4
      BY <1>9, <2>1 DEF InEpilogue
    <3>2. pc.at = "restore" => pc.k \in 0..4 /\ rsp = b - pc.k /\ b >= 4
      BY <1>9, <2>1 DEF InEpilogue
    <3> HIDE DEF b, p
    <3> QED BY <2>2, <3>1, <3>2
  <2>4. mem'[p] = mem[p]
    BY <1>3, <1>4, <2>2 DEF Words
  <2>5. pc.at \in {"skip", "restore"} => mem'[b] = mem[b] /\ \A k \in 1..4 : mem'[b - k] = mem[b - k]
    <3> HIDE DEF b, p
    <3>1. pc.at \in {"skip", "restore"} =>
            \A a \in (b - 4)..b : a \in Words /\ a >= rsp - 4
      BY <1>3, <2>2, <2>3 DEF Words
    <3>2. b \in (b - 4)..b /\ \A k \in 1..4 : b - k \in (b - 4)..b
      BY <2>2
    <3> QED BY <1>4, <3>1, <3>2
  <2>6. pc.at \in {"skip", "restore"} => Anchored(N)'
    <3>1. pc.at \in {"skip", "restore"} => Anchored(N)
      BY <2>1 DEF InEpilogue
    <3>2. frames'[N'] = frames[N] /\ FrameBase(N)' = b
      BY <1>9, Standing
    <3> HIDE DEF b
    <3> QED BY <1>9, <2>4, <2>5, <3>1, <3>2 DEF Anchored, b
  <2>7. InEpilogue'
    BY <1>2, <1>9, <2>1, <2>4, <2>6, Standing DEF InEpilogue
  <2> QED BY <1>p, <1>12, <2>7 DEF Place
<1>13. Place'
  <2>1. pc.at \in Places
    BY <1>1, TypeParts
  <2>2. \/ pc.at \in {"body", "arg", "pop_arg", "unwind"}
        \/ pc.at \in {"entry", "frame", "save"} \/ pc.at \in {"skip", "restore", "ret"}
    BY <2>1 DEF Places
  <2> QED BY <1>10, <1>11, <1>12, <2>2
<1> QED BY <1>5, <1>8, <1>13 DEF IInv

-----------------------------------------------------------------------------
(* The invariant and what follows from it.                                 *)

LEMMA Initially ==
  ASSUME Init PROVE IInv
<1>1. /\ frames = <<>> /\ N = 0 /\ rsp = StackTop /\ StackTop \in Nat /\ pc = [fn |-> Main, at |-> "body", k |-> 0]
      /\ todo = [fn |-> Main, args |-> <<>>, given |-> <<>>] /\ reg = Start /\ mem = [a \in Words |-> 0]
  BY FrameAssumption DEF Init, At, N
<1>2. Types
  <2>1. frames \in Seq(Frame) /\ \A i \in 1..N : frames[i].locals \in [Locals(frames[i].fn) -> Nat]
    BY <1>1
  <2>2. reg \in [Regs -> Nat] /\ mem \in [Words -> Nat] /\ rsp \in 0..StackTop
    BY <1>1, FrameAssumption
  <2>3. pc \in [fn : Fns \cup {Main}, at : Places, k : Nat] /\ ~(pc.at \in {"arg", "pop_arg"})
    BY <1>1 DEF Places
  <2>4. /\ todo.fn \in Fns \cup {Main} /\ todo.args \in Seq(Operands) /\ todo.given \in Seq(Nat)
        /\ Len(todo.args) <= Len(ArgRegs)
    BY <1>1, Registers
  <2> QED BY <2>1, <2>2, <2>3, <2>4, Zenon DEF Types
<1>3. Links /\ Adjacent /\ Descending /\ Waiting
  BY <1>1 DEF Links, Adjacent, Descending, Waiting
<1>4. Place
  <2>1. Passing = 0 /\ Floor(N) = StackTop
    BY <1>1 DEF Passing, Floor
  <2> QED BY <1>1, <2>1 DEF Place, InBodyPart
<1> QED BY <1>2, <1>3, <1>4 DEF IInv

LEMMA Inductive ==
  ASSUME RedZone >= Saves, IInv, [Next]_vars PROVE IInv'
<1>1. CASE Statement
  <2>1. CASE \E i \in Locals(Current), v \in Values : SetLocal(i, v) \/ AddLocal(i, v)
    BY <2>1, LocalsStep
  <2>2. CASE \E v \in Values : StackPush(v)
    BY <2>2, PushedWord
  <2>3. CASE \E r \in Touched : StackPop(r)
    BY <2>3, PoppedWord
  <2>4. CASE \/ \E r \in Touched, v \in Values : SetRegister(r, v)
             \/ \E f \in Fns, n \in 0..Len(ArgRegs) : \E args \in [1..n -> Operands] : CallStart(f, args)
             \/ \E o \in Operands : ReturnValue(o)
             \/ EndOfBody
    BY <2>4, BodyStep
  <2> QED BY <1>1, <2>1, <2>2, <2>3, <2>4, Zenon DEF Statement
<1>2. CASE Call
  BY <1>2, PushStep, StillStep, Called DEF Call
<1>3. CASE Prologue
  BY <1>3, PushStep, StillStep, Allocated DEF Prologue
<1>4. CASE Epilogue
  BY <1>4, StillStep, Returned DEF Epilogue
<1>5. CASE Interruption
  BY <1>5, Interrupted
<1>6. CASE UNCHANGED vars
  <2>1. UNCHANGED <<mem, rsp, reg, pc, todo, frames>>
    BY <1>6 DEF vars
  <2>2. Types' /\ Links' /\ Adjacent' /\ Descending'
    BY <2>1 DEF IInv, Types, Links, Adjacent, Descending, N, Floor, Low, FrameBase
  <2>3. Waiting'
    BY <2>1 DEF IInv, Waiting, Anchored, Holds, N, Low, FrameBase
  <2>4. InBodyPart => InBodyPart'
    BY <2>1, Frozen DEF InBodyPart, Passing, Usable, Current
  <2>5. InPrologue => InPrologue'
    BY <2>1, Frozen DEF InPrologue
  <2>6. InEpilogue => InEpilogue'
    BY <2>1, Frozen DEF InEpilogue
  <2>7. Place'
    BY <2>1, <2>4, <2>5, <2>6 DEF IInv, Place
  <2> QED BY <2>2, <2>3, <2>7 DEF IInv
<1> QED BY <1>1, <1>2, <1>3, <1>4, <1>5, <1>6 DEF Next

LEMMA Invariant ==
  ASSUME RedZone >= Saves PROVE Spec => []IInv
BY Initially, Inductive, PTL DEF Spec

\* CalleeSaved, for any program of functions: the registers of the contract and the
\* stack are the caller's again when a function is about to return.
THEOREM RegistersGivenBack ==
  ASSUME RedZone >= Saves PROVE Spec => []CalleeSaved
<1>1. IInv => CalleeSaved
  <2> SUFFICES ASSUME IInv, pc.at = "ret"
               PROVE  /\ rsp = Top.sp /\ mem[rsp] = ReturnAddress(Top.caller)
                      /\ \A r \in Saved : reg[r] = Top.regs[r]
    BY DEF CalleeSaved
  <2>1. InEpilogue /\ Top = frames[N]
    BY DEF IInv, Place, Top, Last, N
  <2> QED BY <2>1 DEF InEpilogue
<1> QED BY <1>1, Invariant, PTL

\* FramesKeep, for any program of functions: every active or waiting function finds in
\* its locals what it has assigned and on its stack what it has pushed.
THEOREM FramesKept ==
  ASSUME RedZone >= Saves PROVE Spec => []FramesKeep
<1>1. IInv => FramesKeep
  <2> SUFFICES ASSUME IInv, NEW i \in DOMAIN frames, InBody(i)
               PROVE  LET f == frames[i]
                          low == FrameBase(i) - Len(Callee) - LocalWords(f.fn)
                      IN /\ \A l \in Locals(f.fn) : mem[LocalAt(f.fn, l, FrameBase(i))] = f.locals[l]
                         /\ \A k \in DOMAIN f.pushed : mem[low - k] = f.pushed[k]
    BY DEF FramesKeep
  <2>1. Types /\ i \in 1..N /\ N \in Nat
    BY TypeParts, LenProperties DEF IInv, N
  <2>2. Holds(i)
    <3>1. CASE i < N
      BY <2>1, <3>1 DEF IInv, Waiting
    <3>2. CASE ~(i < N)
      <4>1. i = N /\ N > 0 /\ pc.at \in {"body", "arg", "pop_arg"}
        BY <2>1, <3>2 DEF InBody, N
      <4> QED BY <4>1 DEF IInv, Place, InBodyPart
    <3> QED BY <3>1, <3>2
  <2>3. DOMAIN frames[i].pushed = 1..Len(frames[i].pushed)
    BY <2>1, FrameFacts, LenProperties
  <2> QED BY <2>2, <2>3 DEF Holds, Low, Saves
<1> QED BY <1>1, Invariant, PTL

-----------------------------------------------------------------------------
(* Operands.  While a call is under way each of them is on the stack, or   *)
(* still evaluates to what it did when the statement began, or is in its   *)
(* argument register.                                                      *)

Given(i) == todo.given[i]
Stacked(i) == mem[Floor(N) - i] = Given(i)
Waits(i) == ValueOf(todo.args[i]) = Given(i)
Arrived(i) == reg[ArgRegs[i]] = Given(i)
ArgNumbers == 1..Len(todo.args)

Arriving ==
  /\ pc.at \in {"arg", "pop_arg"} => Len(todo.given) = Len(todo.args)
  /\ pc.at = "arg" =>
       /\ Apart(todo.args)
       /\ \A i \in ArgNumbers : IF i < pc.k THEN Stacked(i) ELSE Waits(i)
  /\ pc.at = "pop_arg" => \A i \in ArgNumbers : IF i <= pc.k THEN Stacked(i) ELSE Arrived(i)
  /\ pc.at = "entry" => \A i \in DOMAIN frames[N].given : reg[ArgRegs[i]] = frames[N].given[i]

\* Every operand passes through r11.
NotR11 == \A o \in Operands : o.kind \in {"reg", "sum"} => o.a # "r11"

LEMMA CallPlace ==
  ASSUME IInv, pc.at \in {"arg", "pop_arg"}
  PROVE  /\ Len(todo.args) \in 0..2 /\ todo.args \in Seq(Operands) /\ todo.given \in Seq(Nat)
         /\ DOMAIN todo.args = ArgNumbers /\ \A i \in ArgNumbers : todo.args[i] \in Operands
         /\ Floor(N) \in Int /\ Floor(N) <= StackTop /\ StackTop \in Nat /\ N \in Nat
         /\ rsp = Floor(N) - Passing /\ Passing \in Nat /\ rsp \in Nat /\ pc.k \in Nat
         /\ pc.at = "arg" => Passing = pc.k - 1 /\ pc.k \in 1..(Len(todo.args) + 1)
         /\ pc.at = "pop_arg" => Passing = pc.k /\ pc.k \in 0..Len(todo.args)
         /\ pc.at = "arg" => \A i \in ArgNumbers : Usable(todo.args[i])
<1>1. Types /\ Adjacent /\ Descending /\ InBodyPart
  BY DEF IInv, Place
<1>2. todo.args \in Seq(Operands) /\ todo.given \in Seq(Nat) /\ Len(todo.args) <= 2 /\ pc.k \in Nat
  BY <1>1, TypeParts
<1>3. Len(todo.args) \in Nat /\ DOMAIN todo.args = ArgNumbers
  BY <1>2, LenProperties DEF ArgNumbers
<1>4. \A i \in ArgNumbers : todo.args[i] \in Operands
  BY <1>2, ElementOfSeq DEF ArgNumbers
<1>5. Floor(N) \in Int /\ Floor(N) <= StackTop /\ StackTop \in Nat /\ N \in Nat /\ rsp \in 0..StackTop
  BY <1>1, TopFloor, TypeParts
<1>6. rsp = Floor(N) - Passing
  BY <1>1 DEF InBodyPart
<1>7. pc.at = "arg" => /\ Passing = pc.k - 1 /\ pc.k \in 1..(Len(todo.args) + 1)
                       /\ \A i \in ArgNumbers : Usable(todo.args[i])
  BY <1>1 DEF InBodyPart, Passing, ArgNumbers
<1>8. pc.at = "pop_arg" => Passing = pc.k /\ pc.k \in 0..Len(todo.args)
  BY <1>1 DEF InBodyPart, Passing
<1>9. Passing \in Nat /\ Len(todo.args) \in 0..2
  <2> DEFINE n == Len(todo.args)
             p == Passing
  <2>1. n \in Nat /\ n <= 2 /\ pc.k \in Nat
    BY <1>2, <1>3
  <2>2. (p = pc.k - 1 /\ pc.k >= 1) \/ p = pc.k
    BY <1>2, <1>7, <1>8
  <2> HIDE DEF n, p
  <2>3. p \in Nat /\ n \in 0..2
    BY <2>1, <2>2
  <2> QED BY <2>3 DEF n, p
<1> QED BY <1>2, <1>3, <1>4, <1>5, <1>6, <1>7, <1>8, <1>9

\* What is on the stack stays there when only words below rsp change.
LEMMA StackedStep ==
  ASSUME IInv, pc.at \in {"arg", "pop_arg"}, UNCHANGED <<frames, todo>>,
         \A a \in Words : a >= rsp => mem'[a] = mem[a],
         NEW i \in 1..Passing, Stacked(i)
  PROVE  Stacked(i)'
<1>1. /\ Floor(N) \in Int /\ Floor(N) <= StackTop /\ StackTop \in Nat /\ rsp = Floor(N) - Passing
      /\ Passing \in Nat /\ rsp \in Nat
  BY CallPlace
<1>2. Floor(N) - i \in Words /\ Floor(N) - i >= rsp
  BY <1>1 DEF Words
<1>3. Floor(N)' = Floor(N)
  BY Standing
<1> QED BY <1>2, <1>3 DEF Stacked, Given

\* An operand that has not been evaluated is not disturbed by an earlier one.
LEMMA WaitsStep ==
  ASSUME IInv, NotR11, PushArg, Apart(todo.args), NEW i \in ArgNumbers, i > pc.k, Waits(i)
  PROVE  Waits(i)'
<1> DEFINE o == todo.args[pc.k]
           q == todo.args[i]
<1>1. /\ pc.at = "arg" /\ pc.k <= Len(todo.args) /\ UNCHANGED <<todo, frames>> /\ pc'.fn = pc.fn
      /\ reg' = Evaluated(o, "r11") /\ PushWord(ValueOf(o))
  BY DEF PushArg, Current, Step
<1>2. /\ pc.k \in ArgNumbers /\ DOMAIN todo.args = ArgNumbers /\ o \in Operands /\ q \in Operands
      /\ Usable(o) /\ Usable(q) /\ Floor(N) \in Int /\ rsp = Floor(N) - (pc.k - 1) /\ pc.k \in Nat
  <2>1. pc.k \in ArgNumbers
    BY <1>1, CallPlace DEF ArgNumbers
  <2> QED BY <1>1, <2>1, CallPlace
<1>p. pc.k >= 1
  <2> DEFINE n == Len(todo.args)
  <2>1. n \in Nat /\ pc.k \in 1..(n + 1)
    BY <1>1, CallPlace
  <2> HIDE DEF n
  <2> QED BY <2>1
<1>3. o.kind = "sum" => q.a # "r12"
  BY <1>2 DEF Apart
<1>4. ValueOf(o) \in Nat
  BY <1>1, <1>2, ValueIsNat
<1>5. reg \in [Regs -> Nat] /\ {"r11", "r12", "rbp"} \subseteq Regs
  BY Registers, TypeParts DEF IInv
<1>6. /\ \A a \in Words : a # rsp - 1 => mem'[a] = mem[a]
      /\ reg'["rbp"] = reg["rbp"]
  BY <1>1, <1>4, <1>5, Pushing DEF IInv, Evaluated
<1>7. q.kind \in {"reg", "num", "local", "sum"} /\ (q.kind \in {"reg", "sum"} => q.a \in Regs /\ q.a # "r11")
  BY <1>2, FrameAssumption DEF NotR11
<1>8. q.kind \in {"reg", "sum"} => reg'[q.a] = reg[q.a]
  BY <1>1, <1>3, <1>4, <1>5, <1>7 DEF Evaluated
<1>9. ASSUME q.kind = "local"
      PROVE  mem'[LocalAt(Current, q.n, reg["rbp"])] = mem[LocalAt(Current, q.n, reg["rbp"])]
  <2>1. q.n \in Locals(Current)
    BY <1>2, <1>9 DEF Usable
  <2>2. /\ N > 0 /\ reg["rbp"] = FrameBase(N) /\ LocalAt(Current, q.n, FrameBase(N)) \in Words
        /\ LocalAt(Current, q.n, FrameBase(N)) \in (FrameBase(N) - 4 - LocalWords(Current))..(FrameBase(N) - 5)
        /\ Current = frames[N].fn
    BY <1>1, <2>1, LocalPlace
  <2>3. /\ Floor(N) <= Low(N) /\ Low(N) = FrameBase(N) - 4 - LocalWords(frames[N].fn)
        /\ frames[N].sp \in Nat /\ FrameBase(N) = frames[N].sp - 1 /\ LocalWords(frames[N].fn) \in Nat
    BY <2>2, TopFloor DEF IInv
  <2>4. LocalAt(Current, q.n, FrameBase(N)) >= Floor(N)
    <3> DEFINE a == LocalAt(Current, q.n, FrameBase(N))
               w == LocalWords(frames[N].fn)
               b == FrameBase(N)
               low == Low(N)
    <3>1. a \in (b - 4 - w)..(b - 5) /\ low = b - 4 - w /\ w \in Nat /\ b \in Int /\ Floor(N) <= low
      BY <2>2, <2>3
    <3> HIDE DEF a, b, w, low
    <3>2. a >= Floor(N)
      BY <1>2, <1>p, <3>1
    <3> QED BY <3>2 DEF a
  <2>5. LocalAt(Current, q.n, FrameBase(N)) # rsp - 1
    <3> DEFINE a == LocalAt(Current, q.n, FrameBase(N))
    <3>1. a >= Floor(N) /\ a \in Nat
      BY <2>2, <2>4 DEF Words
    <3> HIDE DEF a
    <3>2. a # rsp - 1
      BY <1>2, <1>p, <3>1
    <3> QED BY <3>2 DEF a
  <2> QED BY <1>6, <2>2, <2>5
<1>10. ValueOf(q)' = ValueOf(q)
  BY <1>1, <1>6, <1>7, <1>8, <1>9 DEF ValueOf, Current
<1> QED BY <1>1, <1>10 DEF Waits, Given

LEMMA ArgPushed ==
  ASSUME IInv, NotR11, Arriving, PushArg
  PROVE  Arriving'
<1> DEFINE k == pc.k
<1>1. /\ pc.at = "arg" /\ k <= Len(todo.args) /\ UNCHANGED <<todo, frames>>
      /\ pc' = Step(Current, "arg", k + 1) /\ PushWord(ValueOf(todo.args[k]))
  BY DEF PushArg
<1>2. k \in ArgNumbers /\ k \in Nat /\ rsp = Floor(N) - (k - 1) /\ Floor(N) \in Int /\ Passing = k - 1
  BY <1>1, CallPlace DEF ArgNumbers
<1>3. Apart(todo.args) /\ Len(todo.given) = Len(todo.args)
      /\ \A i \in ArgNumbers : IF i < k THEN Stacked(i) ELSE Waits(i)
  BY <1>1 DEF Arriving
<1>4. ValueOf(todo.args[k]) \in Nat /\ Types
  BY <1>1, <1>2, CallPlace, ValueIsNat DEF IInv
<1>5. rsp \in Int /\ mem'[rsp - 1] = ValueOf(todo.args[k]) /\ \A a \in Words : a >= rsp => mem'[a] = mem[a]
  <2>1. rsp \in Int /\ \A a \in Words : a >= rsp => a # rsp - 1
    BY <1>2 DEF Words
  <2> QED BY <1>1, <1>4, <2>1, Pushing
<1>6. pc'.at = "arg" /\ pc'.k = k + 1 /\ ArgNumbers' = ArgNumbers /\ Floor(N)' = Floor(N)
  BY <1>1, Standing DEF Step, ArgNumbers
<1>7. ASSUME NEW i \in ArgNumbers PROVE IF i < k + 1 THEN Stacked(i)' ELSE Waits(i)'
  <2>0. i \in Nat /\ i >= 1
    BY DEF ArgNumbers
  <2>1. CASE i < k
    BY <1>1, <1>2, <1>3, <1>5, <2>0, <2>1, StackedStep
  <2>2. CASE i = k
    <3>1. Waits(k) /\ rsp - 1 = Floor(N) - k
      BY <1>2, <1>3
    <3> QED BY <1>1, <1>2, <1>5, <1>6, <2>2, <3>1 DEF Stacked, Waits, Given
  <2>3. CASE i > k
    BY <1>2, <1>3, <2>0, <2>3, WaitsStep
  <2> QED BY <1>2, <2>0, <2>1, <2>2, <2>3
<1> QED BY <1>1, <1>3, <1>6, <1>7 DEF Arriving

LEMMA ArgPopped ==
  ASSUME IInv, Arriving, PopArg
  PROVE  Arriving'
<1> DEFINE k == pc.k
<1>1. /\ pc.at = "pop_arg" /\ k > 0 /\ UNCHANGED <<mem, todo, frames>>
      /\ pc' = Step(Current, "pop_arg", k - 1) /\ reg' = [reg EXCEPT ![ArgRegs[k]] = mem[rsp]]
  BY DEF PopArg, PopInto
<1>2. k \in ArgNumbers /\ k \in 1..2 /\ rsp = Floor(N) - k /\ Len(todo.args) \in 0..2
  BY <1>1, CallPlace DEF ArgNumbers
<1>3. Len(todo.given) = Len(todo.args) /\ \A i \in ArgNumbers : IF i <= k THEN Stacked(i) ELSE Arrived(i)
  BY <1>1 DEF Arriving
<1>4. reg \in [Regs -> Nat] /\ \A i \in 1..2 : ArgRegs[i] \in Regs
  BY Registers, TypeParts DEF IInv
<1>5. \A i \in 1..2 : i # k => ArgRegs[i] # ArgRegs[k]
  BY <1>2 DEF ArgRegs
<1>6. pc'.at = "pop_arg" /\ pc'.k = k - 1 /\ ArgNumbers' = ArgNumbers /\ Floor(N)' = Floor(N)
  BY <1>1, Standing DEF Step, ArgNumbers
<1>7. ASSUME NEW i \in ArgNumbers PROVE IF i <= k - 1 THEN Stacked(i)' ELSE Arrived(i)'
  <2>0. i \in 1..2
    <3> DEFINE n == Len(todo.args)
    <3>1. i \in 1..n /\ n \in 0..2
      BY <1>2 DEF ArgNumbers
    <3> HIDE DEF n
    <3> QED BY <3>1
  <2>1. CASE i < k
    BY <1>1, <1>2, <1>3, <1>6, <2>0, <2>1 DEF Stacked, Given
  <2>2. CASE i = k
    BY <1>1, <1>2, <1>3, <1>4, <2>0, <2>2 DEF Stacked, Arrived, Given
  <2>3. CASE i > k
    BY <1>1, <1>2, <1>3, <1>4, <1>5, <2>0, <2>3 DEF Arrived, Given
  <2> QED BY <1>2, <2>0, <2>1, <2>2, <2>3
<1> QED BY <1>1, <1>3, <1>6, <1>7 DEF Arriving

LEMMA ArrivingStep ==
  ASSUME IInv, NotR11, Arriving, [Next]_vars
  PROVE  Arriving'
<1>k. pc.at \in {"arg", "pop_arg"} => pc.k \in Nat /\ Len(todo.args) \in 0..2
  BY CallPlace
<1>1. CASE \E f \in Fns, n \in 0..Len(ArgRegs) : \E args \in [1..n -> Operands] : CallStart(f, args)
  <2>1. PICK f \in Fns, n \in 0..Len(ArgRegs) : \E args \in [1..n -> Operands] : CallStart(f, args)
    BY <1>1
  <2>2. PICK args \in [1..n -> Operands] : CallStart(f, args)
    BY <2>1
  <2>3. /\ Apart(args) /\ pc' = Step(Current, "arg", 1) /\ UNCHANGED <<mem, rsp, reg, frames>>
        /\ todo' = [fn |-> f, args |-> args, given |-> [i \in DOMAIN args |-> ValueOf(args[i])]]
    BY <2>2 DEF CallStart
  <2>4. n \in Nat /\ Len(args) = n /\ DOMAIN args = 1..n
    BY Registers, Tuples
  <2>5. Len(todo'.given) = n /\ todo'.args = args /\ \A i \in 1..n : todo'.given[i] = ValueOf(args[i])
    BY <2>3, <2>4
  <2>6. pc'.at = "arg" /\ pc'.k = 1 /\ pc'.fn = pc.fn
    BY <2>3 DEF Step, Current
  <2>7. \A i \in 1..n : ValueOf(args[i])' = ValueOf(args[i])
    BY <2>3, <2>6 DEF ValueOf, Current
  <2>8. \A i \in ArgNumbers' : i >= 1 /\ Waits(i)'
    BY <2>3, <2>4, <2>5, <2>7 DEF Waits, Given, ArgNumbers
  <2>9. \A i \in ArgNumbers' : ~(i < 1)
    BY <2>4, <2>5 DEF ArgNumbers
  <2> QED BY <2>3, <2>4, <2>5, <2>6, <2>8, <2>9 DEF Arriving
<1>2. CASE PushArg
  BY <1>2, ArgPushed
<1>3. CASE ArgsPushed
  <2>1. /\ pc.at = "arg" /\ pc.k > Len(todo.args) /\ UNCHANGED <<mem, reg, todo, frames>>
        /\ pc' = Step(Current, "pop_arg", Len(todo.args))
    BY <1>3 DEF ArgsPushed
  <2>2. \A i \in ArgNumbers : i < pc.k /\ i <= Len(todo.args) /\ Stacked(i)
    BY <1>k, <2>1 DEF Arriving, ArgNumbers
  <2>3. Floor(N)' = Floor(N)
    BY <2>1, Standing
  <2> QED BY <2>1, <2>2, <2>3 DEF Arriving, Stacked, Given, ArgNumbers, Step
<1>4. CASE PopArg
  BY <1>4, ArgPopped
<1>5. CASE CallFn
  <2>1. /\ pc.at = "pop_arg" /\ pc.k = 0 /\ UNCHANGED <<reg, todo>> /\ pc'.at = "entry"
        /\ \E e : frames' = Append(frames, e) /\ e.given = todo.given
    BY <1>5 DEF CallFn, At
  <2>2. PICK e : frames' = Append(frames, e) /\ e.given = todo.given
    BY <2>1
  <2>3. frames \in Seq(Frame)
    BY TypeParts DEF IInv
  <2>4. frames'[N'] = e
    BY <2>2, <2>3, LenProperties DEF N
  <2>5. DOMAIN todo.given = ArgNumbers
    BY <2>1, CallPlace, LenProperties DEF Arriving, ArgNumbers
  <2>6. \A i \in ArgNumbers : ~(i <= 0)
    BY <1>k, <2>1 DEF ArgNumbers
  <2>7. \A i \in ArgNumbers : Arrived(i)
    BY <2>1, <2>6 DEF Arriving
  <2> QED BY <2>1, <2>2, <2>4, <2>5, <2>7 DEF Arriving, Arrived, Given
<1>6. CASE Interruption
  <2>1. UNCHANGED <<rsp, reg, pc, todo, frames>>
    BY <1>6 DEF Interruption
  <2>2. \A a \in Words : a >= rsp => mem'[a] = mem[a]
    <3>1. RedZone \in Nat /\ IrqWords \in Nat /\ rsp \in Nat
      BY FrameAssumption, TypeParts DEF IInv
    <3>2. \A a \in Words : a >= rsp => a \notin (rsp - RedZone - IrqWords)..(rsp - RedZone - 1)
      BY <3>1 DEF Words
    <3> QED BY <1>6, <3>2 DEF Interruption
  <2>3. ASSUME pc.at = "arg" PROVE \A i \in ArgNumbers : IF i < pc.k THEN Stacked(i)' ELSE Waits(i)'
    <3> SUFFICES ASSUME NEW i \in ArgNumbers PROVE IF i < pc.k THEN Stacked(i)' ELSE Waits(i)'
      OBVIOUS
    <3>1. /\ Passing = pc.k - 1 /\ pc.k \in Nat /\ todo.args[i] \in Operands /\ Usable(todo.args[i])
          /\ i \in Nat /\ i >= 1
      BY <2>3, <1>k, CallPlace DEF ArgNumbers
    <3>2. CASE i < pc.k
      BY <2>1, <2>2, <2>3, <3>1, <3>2, StackedStep DEF Arriving
    <3>3. CASE ~(i < pc.k)
      <4>1. Waits(i)
        BY <2>3, <3>3 DEF Arriving
      <4>2. ASSUME todo.args[i].kind = "local"
            PROVE  LET a == LocalAt(Current, todo.args[i].n, reg["rbp"]) IN mem'[a] = mem[a]
        <5> DEFINE a == LocalAt(Current, todo.args[i].n, reg["rbp"])
        <5>1. /\ N > 0 /\ reg["rbp"] = FrameBase(N) /\ a \in Words
              /\ a \in (FrameBase(N) - 4 - LocalWords(Current))..(FrameBase(N) - 5)
              /\ Current = frames[N].fn
          BY <2>3, <3>1, <4>2, LocalPlace DEF Usable
        <5>2. /\ Floor(N) <= Low(N) /\ Low(N) = FrameBase(N) - 4 - LocalWords(frames[N].fn)
              /\ frames[N].sp \in Nat /\ FrameBase(N) = frames[N].sp - 1 /\ LocalWords(frames[N].fn) \in Nat
          BY <5>1, TopFloor DEF IInv
        <5>3. rsp = Floor(N) - Passing /\ Floor(N) \in Int /\ Passing \in Nat
          BY <2>3, CallPlace
        <5> HIDE DEF a
        <5> DEFINE b == FrameBase(N)
                   w == LocalWords(frames[N].fn)
                   low == Low(N)
        <5>4. a \in (b - 4 - w)..(b - 5) /\ low = b - 4 - w /\ w \in Nat /\ b \in Int /\ Floor(N) <= low
          BY <5>1, <5>2
        <5> HIDE DEF b, w, low
        <5>5. a >= rsp
          BY <5>3, <5>4
        <5> QED BY <2>2, <5>1, <5>5 DEF a
      <4>3. ValueOf(todo.args[i])' = ValueOf(todo.args[i])
        <5>1. todo.args[i].kind \in {"reg", "num", "local", "sum"}
          BY <3>1, FrameAssumption
        <5> QED BY <2>1, <4>2, <5>1 DEF ValueOf, Current
      <4> QED BY <2>1, <3>3, <4>1, <4>3 DEF Waits, Given
    <3> QED BY <3>2, <3>3
  <2>4. ASSUME pc.at = "pop_arg" PROVE \A i \in ArgNumbers : IF i <= pc.k THEN Stacked(i)' ELSE Arrived(i)'
    <3> SUFFICES ASSUME NEW i \in ArgNumbers PROVE IF i <= pc.k THEN Stacked(i)' ELSE Arrived(i)'
      OBVIOUS
    <3>1. Passing = pc.k /\ pc.k \in Nat /\ i \in Nat /\ i >= 1
      BY <2>4, <1>k, CallPlace DEF ArgNumbers
    <3>2. CASE i <= pc.k
      BY <2>1, <2>2, <2>4, <3>1, <3>2, StackedStep DEF Arriving
    <3>3. CASE ~(i <= pc.k)
      BY <2>1, <2>4, <3>3 DEF Arriving, Arrived, Given
    <3> QED BY <3>2, <3>3
  <2> QED BY <2>1, <2>3, <2>4, Standing DEF Arriving, ArgNumbers
<1>7. CASE \/ Statement /\ ~\E f \in Fns, n \in 0..Len(ArgRegs) : \E args \in [1..n -> Operands] : CallStart(f, args)
           \/ Prologue \/ Epilogue
  <2>1. pc'.at \notin {"arg", "pop_arg", "entry"}
    BY <1>7 DEF Statement, SetRegister, SetLocal, AddLocal, StackPush, StackPop, ReturnValue, EndOfBody,
       Begin, Prologue, PushBase, SetBase, SaveRegister, Allocate,
       Epilogue, Unwind, SkipSaved, RestoreRegister, PopBase, Return, At, Step
  <2> QED BY <2>1 DEF Arriving
<1>8. CASE UNCHANGED vars
  <2>1. UNCHANGED <<mem, rsp, reg, pc, todo, frames>>
    BY <1>8 DEF vars
  <2> QED BY <2>1, Standing DEF Arriving, ArgNumbers, Stacked, Waits, Arrived, Given, ValueOf, Current
<1> QED BY <1>1, <1>2, <1>3, <1>4, <1>5, <1>6, <1>7, <1>8 DEF Next, Call

\* ArgsArrive, for any functions and operands but r11: the operands of a call are in the
\* argument registers at the function's entry, each as it was when the statement began.
THEOREM OperandsArrive ==
  ASSUME RedZone >= Saves, NotR11 PROVE Spec => []ArgsArrive
<1>1. Init => Arriving
  <2> SUFFICES ASSUME Init PROVE Arriving
    OBVIOUS
  <2>1. pc.at = "body"
    BY DEF Init, At
  <2> QED BY <2>1 DEF Arriving
<1>2. IInv /\ Arriving /\ [Next]_vars => Arriving'
  BY ArrivingStep
<1>3. IInv /\ Arriving => ArgsArrive
  BY DEF Arriving, ArgsArrive, Top, Last, N
<1> QED BY <1>1, <1>2, <1>3, Invariant, PTL DEF Spec
=============================================================================
