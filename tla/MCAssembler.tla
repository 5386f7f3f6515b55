------------------------------ MODULE MCAssembler ------------------------------
(***************************************************************************)
(* The calls the model checker makes of the assembler.  The registers are  *)
(* both halves of the register file with rsp, rbp, r12 and r13, which the  *)
(* address forms treat specially, and the byte registers that need REX.    *)
(***************************************************************************)
EXTENDS Assembler

Regs == {0, 3, 4, 5, 6, 8, 11, 12, 13, 15}
SomeRegs == {0, 6, 8, 13}
Vectors == {0, 3, 7}            \* ACLM has xmm0 to xmm7
YmmRegs == Vectors \cup {8, 13}
Numbers == {0, 1, -1, 127, 128, 32768, -32768, 2147483647, -2147483647}

\* An immediate: a 32-bit number with the 4 bytes above it.
Imm(v, above) == Bytes(v, 4) \o [k \in 1 .. 4 |-> above]
Signed32 == {Imm(v, IF v < 0 THEN 255 ELSE 0) : v \in Numbers}
Any64 == Signed32 \cup {Imm(v, a) : v \in Numbers, a \in {0, 1, 128, 255}}
Counts == {<<n>> : n \in {0, 1, 31, 63, 64, 200}}

Item(op, args, imm) == [op |-> op, cond |-> "", args |-> args, imm |-> imm, ref |-> ""]
To(op, args, label) == [op |-> op, cond |-> "", args |-> args, imm |-> <<>>, ref |-> label]
If(op, cond, args, label) == [op |-> op, cond |-> cond, args |-> args, imm |-> <<>>, ref |-> label]

Immediates(op) ==
  IF op \in CheckedImm \cup {"mov_imm"} THEN Any64
  ELSE IF op \in Imm32Ops THEN Signed32 ELSE IF op \in Imm8Ops THEN Counts ELSE {<<>>}

OneImm(op) == IF Immediates(op) = {<<>>} THEN {<<>>} ELSE {CHOOSE m \in Immediates(op) : m[1] # 0}

PairOps == (DOMAIN ToRm \cup DOMAIN ToReg \cup {"xchg"}) \ {"shld_imm", "shrd_imm", "imul_imm"}
Pairs == {Item(op, <<<<d>>, <<s>>>>, <<>>) : op \in PairOps, d \in Regs, s \in Regs}
PairsImm ==
  UNION {{Item(op, <<<<d>>, <<s>>>>, m) : d \in SomeRegs, s \in SomeRegs, m \in Immediates(op)} :
           op \in {"shld_imm", "shrd_imm", "imul_imm", "rorx"}}
Ones == UNION {{Item(op, <<<<d>>>>, m) : d \in Regs, m \in OneImm(op)} \cup
               {Item(op, <<<<d>>>>, m) : d \in {0, 12}, m \in Immediates(op)} :
                 op \in DOMAIN One \cup {"push", "pop", "bswap", "mov_imm"}}
Plains == {Item(op, <<>>, <<>>) : op \in DOMAIN Plain} \cup {Item("int", <<>>, <<n>>) : n \in {0, 128, 255}}

\* pext and pdep are in ExtractDeposit.
ThreeOps == {"andn", "mulx", "bzhi", "bextr", "shlx", "shrx", "sarx"}
Threes(ops) == {Item(op, <<<<d>>, <<s>>, <<t>>>>, <<>>) : op \in ops, d \in SomeRegs, s \in SomeRegs, t \in SomeRegs}
BlsCalls == {Item(op, <<<<d>>, <<s>>>>, <<>>) : op \in DOMAIN Bls, d \in SomeRegs, s \in SomeRegs}
VectorPairs(ops, regs) ==
  UNION {{Item(op, <<<<d>>, <<s>>>>, m) : d \in regs, s \in regs, m \in Immediates(op)} : op \in ops}
VectorCalls == VectorPairs(DOMAIN Sse, Vectors) \cup VectorPairs(DOMAIN Ymm \cup {"vbroadcastss"}, YmmRegs)

\* Every condition of set but abe, which its table has as "below or equal".
CondCalls ==
  {If("set", c, <<<<d>>>>, "") : c \in DOMAIN SetccOpcode \ {"abe"}, d \in {0, 6, 12}} \cup
  {If("cmov", c, <<<<d>>, <<s>>>>, "") : c \in DOMAIN CmovOpcode, d \in {0, 12}, s \in {3, 13}}

\* Addresses.  Each family gets the bases and displacements it handles; the
\* README lists the ones it does not.
At(bases, disps) == {<<b, None, 1, d>> : b \in bases, d \in disps}
Indexed(disps) == {<<b, x, s, d>> : b \in {0, 4, 5, 12, 13}, x \in {0, 5, 12, 13}, s \in {1, 2, 8}, d \in disps}
NoSibBases == {b \in Regs : b % 8 # 4}
Near == {0, 8, -128, 127}

Load(op, reg, m) == Item(op, <<<<reg>>, m>>, <<>>)
Store(op, reg, m) == Item(op, <<m, <<reg>>>>, <<>>)
FarDisps == {0, 8, -8, 300}
Addresses == At(Regs, FarDisps) \cup Indexed({0, -300})

MemoryCalls ==
  {Load(op, r, m) : op \in {"mov_rm", "mov32_rm", "movzx8", "movzx16"}, r \in {0, 13}, m \in Addresses} \cup
  {Store(op, r, m) : op \in {"mov_mr", "mov32_mr", "mov16_mr", "mov8_mr"}, r \in {0, 6, 13}, m \in Addresses} \cup
  {Load("lea", r, m) : r \in {0, 13}, m \in At(Regs, Near) \cup Indexed({0, -100})} \cup
  {Store("lock_cmpxchg", r, m) : r \in {0, 13}, m \in At(Regs, Near)} \cup
  {Store("xchg", r, m) : r \in {0, 13}, m \in At(NoSibBases, Near)} \cup
  {If("cmov", "eq", <<<<r>>, m>>, "") : r \in {0, 13}, m \in At(NoSibBases, Near)} \cup
  {Item(op, <<m>>, <<>>) : op \in DOMAIN Fpu, m \in At(Regs, FarDisps)} \cup
  {Item(op, <<m>>, <<>>) : op \in {"cmpxchg16b", "cmpxchg8b", "lgdt", "lidt"}, m \in At(NoSibBases, Near)} \cup
  {Item(op, <<m>>, <<>>) :
     op \in DOMAIN Touch \ {"cmpxchg16b", "cmpxchg8b", "lgdt", "lidt"}, m \in At({b \in NoSibBases : b < 8}, Near)} \cup
  {Load("movups_rm", x, m) : x \in Vectors, m \in At(Regs, {0, 8, -300})} \cup
  {Store("movups_mr", x, m) : x \in Vectors, m \in At(Regs, {0, 8, -300})} \cup
  {Load("vmovups_rm", x, m) : x \in YmmRegs, m \in At({0, 3, 5, 6}, Near) \cup At({4}, {0})} \cup
  {Store("vmovups_mr", x, m) : x \in YmmRegs, m \in At({0, 3, 5, 6}, Near) \cup At({4}, {0})}

\* Programs are made of these.
MCLabels == {"a", "b"}
MCFew ==
  {To("jmp", <<>>, "a"), To("call", <<>>, "b"), If("j", "eq", <<>>, "a"), To("lea", <<<<0>>>>, "msg"),
   To("lea", <<<<12>>>>, "buf"), Item("mov_imm", <<<<0>>>>, Imm(60, 0)), Item("ret", <<>>, <<>>)}

JumpCalls == {If("j", c, <<>>, "a") : c \in DOMAIN JccOpcode} \cup {To("lea", <<<<r>>>>, "msg") : r \in Regs}

MCCalls ==
  Pairs \cup PairsImm \cup Ones \cup Plains \cup Threes(ThreeOps) \cup BlsCalls \cup VectorCalls \cup
  CondCalls \cup MemoryCalls \cup JumpCalls \cup MCFew

Alloc(name, size) == [kind |-> "alloc", name |-> name, size |-> size]
Align(size) == [kind |-> "align", name |-> "", size |-> size]
MCSections ==
  {<<>>, <<Alloc("msg", 3), Align(8), Alloc("buf", 20)>>, <<Alloc("buf", 8), Alloc("msg", 5), Alloc("buf", 16)>>}
SomeSections == {<<Alloc("msg", 3), Align(8), Alloc("buf", 20)>>}

Option(wx, debug, baremetal, deterministic) ==
  [wx |-> wx, debug |-> debug, baremetal |-> baremetal, deterministic |-> deterministic]

\* --wx with -g, or for a bare-metal program, is left out: the link then allows
\* for a padding that these writers do not insert.
MCOptions ==
  {Option(FALSE, FALSE, FALSE, FALSE), Option(FALSE, FALSE, FALSE, TRUE), Option(FALSE, TRUE, FALSE, FALSE),
   Option(FALSE, FALSE, TRUE, FALSE), Option(TRUE, FALSE, FALSE, FALSE)}
OnePlainOption == {Option(FALSE, FALSE, FALSE, FALSE)}

\* The two bit-field instructions alone.
ExtractDeposit == Threes({"pext", "pdep"})
=============================================================================
