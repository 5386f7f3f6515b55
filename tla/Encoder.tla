-------------------------------- MODULE Encoder --------------------------------
(***************************************************************************)
(* src/ACLM/x64enc.py: the bytes that each instruction method of the       *)
(* assembler appends.                                                      *)
(*                                                                         *)
(* A call of a method is [op, cond, args, imm, ref]: what it is to encode, *)
(* a condition by its ACLM name or "", the operands (destination first) in *)
(* the form of module X86, an immediate as 8 bytes or <<>>, and the label  *)
(* it refers to or "".                                                     *)
(***************************************************************************)
EXTENDS X86

Hi(r) == r \div 8
Rex(w, r, x, b) == \h40 + 8 * w + 4 * r + 2 * x + b
ModRM(mod, reg, rm) == 64 * mod + 8 * (reg % 8) + (rm % 8)
ByteWorth == <<1, 256, 65536, 16777216>>
Bytes(v, n) == [k \in 1 .. n |-> (v \div ByteWorth[k]) % 256]
Low4(imm) == SubSeq(imm, 1, 4)
Fixup == <<0, 0, 0, 0>>

-----------------------------------------------------------------------------
(* Operands in memory: m is <<base, index, scale, displacement>>.           *)

RexOf(w, reg, m) == Rex(w, Hi(reg), IF m[2] = None THEN 0 ELSE Hi(m[2]), Hi(m[1]))

ScaleBits == [s \in {1, 2, 4, 8} |-> CASE s = 1 -> 0 [] s = 2 -> 1 [] s = 4 -> 2 [] s = 8 -> 3]

Sib(m) == IF m[2] = None THEN 8 * 4 + (m[1] % 8)
          ELSE 64 * ScaleBits[m[3]]
               + 8 * (m[2] % 8) + (m[1] % 8)

\* rsp and r12 as a base, and every index, need a SIB byte.
NeedsSib(m) == m[2] # None \/ m[1] % 8 = 4

\* Fault variant: r13 is not seen to be like rbp.
ModeOfNoR13(m, wide) == IF m[4] # 0 \/ m[1] = 5 THEN wide ELSE 0

\* rbp and r13 as a base need a displacement, even of 0.
ModeOf(m, wide) == IF m[4] # 0 \/ m[1] % 8 = 5 THEN wide ELSE 0

Address(reg, m, mod, sib) ==
  <<ModRM(mod, reg, IF sib THEN 4 ELSE m[1])>> \o (IF sib THEN <<Sib(m)>> ELSE <<>>)
    \o Bytes(m[4], <<0, 1, 4>>[mod + 1])

\* The families of methods differ in the displacements and bases they handle.
Disp32(reg, m)  == Address(reg, m, ModeOf(m, 2), NeedsSib(m))
Disp8(reg, m)   == Address(reg, m, ModeOf(m, 1), NeedsSib(m))
NoSib(reg, m)   == Address(reg, m, ModeOf(m, 1), FALSE)
Shortest(reg, m) ==
  Address(reg, m, IF ModeOf(m, 1) = 0 THEN 0 ELSE IF m[4] \in -128 .. 127 THEN 1 ELSE 2, NeedsSib(m))
SibIfBare(reg, m) == Address(reg, m, ModeOf(m, 1), ModeOf(m, 1) = 0 /\ NeedsSib(m))

IsMem(arg) == Len(arg) = 4

\* mov r64, [..]; mov [..], r64; movzx r64, [..].
Far == [mov_rm |-> <<\h8B>>, mov_mr |-> <<\h89>>, movzx8 |-> <<\h0F, \hB6>>, movzx16 |-> <<\h0F, \hB7>>]

MemoryOf(i) == IF IsMem(i.args[1]) THEN i.args[1] ELSE i.args[2]
RegOf(i)    == IF IsMem(i.args[1]) THEN i.args[2][1] ELSE i.args[1][1]

FarMove(i) == <<RexOf(1, RegOf(i), MemoryOf(i))>> \o Far[i.op] \o Disp32(RegOf(i), MemoryOf(i))

\* The narrow moves leave the REX prefix out when they can.
NarrowMove(i) ==
  LET reg == RegOf(i)
      m == MemoryOf(i)
      high == reg >= 8 \/ m[1] >= 8 \/ m[2] >= 8
      rex == high \/ i.op \in {"mov16_mr", "mov32_mr"} \/ (i.op = "mov8_mr" /\ reg \in 4 .. 7)
  IN (IF i.op = "mov16_mr" THEN <<\h66>> ELSE <<>>) \o (IF rex THEN <<RexOf(0, reg, m)>> ELSE <<>>)
       \o <<CASE i.op = "mov32_rm" -> \h8B [] i.op = "mov8_mr" -> \h88 [] OTHER -> \h89>> \o Disp32(reg, m)

XchgMemory(i) == <<RexOf(1, RegOf(i), MemoryOf(i)), \h87>> \o NoSib(RegOf(i), MemoryOf(i))

Lea(i) == <<RexOf(1, RegOf(i), MemoryOf(i)), \h8D>> \o Disp8(RegOf(i), MemoryOf(i))

LockCmpxchg(i) == <<\hF0, RexOf(1, RegOf(i), MemoryOf(i)), \h0F, \hB1>> \o Disp8(RegOf(i), MemoryOf(i))

Movups(i) ==
  LET m == MemoryOf(i)
  IN (IF m[1] >= 8 THEN <<RexOf(0, RegOf(i), m)>> ELSE <<>>)
       \o <<\h0F, IF i.op = "movups_rm" THEN \h10 ELSE \h11>> \o Shortest(RegOf(i), m)

\* The two-byte VEX prefix: it has no room for the high bit of the base.
Vmovups(i) ==
  <<\hC5, 128 * (1 - Hi(RegOf(i))) + 8 * 15 + 4, IF i.op = "vmovups_rm" THEN \h10 ELSE \h11>>
    \o SibIfBare(RegOf(i), MemoryOf(i))

\* One operand, in memory: with a prefix and REX or without REX.
Touch == [cmpxchg16b |-> <<\h0F, \hC7, 1>>, cmpxchg8b |-> <<\h0F, \hC7, 1>>, lgdt |-> <<\h0F, \h01, 2>>, lidt |-> <<\h0F, \h01, 3>>,
          prefetchw |-> <<\h0F, \h0D, 1>>, prefetchnta |-> <<\h0F, \h18, 0>>, clflush |-> <<\h0F, \hAE, 7>>,
          stmxcsr |-> <<\h0F, \hAE, 3>>, ldmxcsr |-> <<\h0F, \hAE, 2>>, fxsave |-> <<\h0F, \hAE, 0>>,
          fxrstor |-> <<\h0F, \hAE, 1>>, invlpg |-> <<\h0F, \h01, 7>>]

TouchMemory(i) ==
  LET m == i.args[1]
      front == CASE i.op = "cmpxchg16b" -> <<\hF0, RexOf(1, 0, m)>>
                 [] i.op = "cmpxchg8b" -> <<RexOf(0, 0, m)>>
                 [] i.op \in {"lidt", "lgdt"} -> <<RexOf(1, 0, m)>>
                 [] OTHER -> <<>>
  IN front \o SubSeq(Touch[i.op], 1, 2) \o NoSib(Touch[i.op][3], m)

Fpu == [fld |-> <<\hDD, 0>>, fstp |-> <<\hDD, 3>>, fild |-> <<\hDF, 5>>, fistp |-> <<\hDF, 7>>]

FpuMemory(i) ==
  LET m == i.args[1]
  IN (IF m[1] >= 8 THEN <<Rex(0, 0, 0, 1)>> ELSE <<>>) \o <<Fpu[i.op][1]>> \o Disp32(Fpu[i.op][2], m)

-----------------------------------------------------------------------------
(* Operands in registers *)

\* _binop_reg_reg and its like: the destination is the r/m operand.
ToRm == [mov_mr |-> <<\h89>>, add |-> <<\h01>>, sub |-> <<\h29>>, and |-> <<\h21>>, or |-> <<\h09>>,
         xor |-> <<\h31>>, cmp |-> <<\h39>>, test |-> <<\h85>>, adc |-> <<\h11>>, sbb |-> <<\h19>>,
         xadd |-> <<\h0F, \hC1>>, bt |-> <<\h0F, \hA3>>, bts |-> <<\h0F, \hAB>>, btr |-> <<\h0F, \hB3>>,
         btc |-> <<\h0F, \hBB>>, shld |-> <<\h0F, \hA5>>, shrd |-> <<\h0F, \hAD>>, cmpxchg |-> <<\h0F, \hB1>>,
         shld_imm |-> <<\h0F, \hA4>>, shrd_imm |-> <<\h0F, \hAC>>]

\* The destination is the reg operand; the first byte is a prefix or 0.
ToReg == [imul |-> <<0, \h0F, \hAF>>, bsf |-> <<0, \h0F, \hBC>>, bsr |-> <<0, \h0F, \hBD>>,
          movzx8 |-> <<0, \h0F, \hB6>>, movzx16 |-> <<0, \h0F, \hB7>>, movsx8 |-> <<0, \h0F, \hBE>>,
          movsx16 |-> <<0, \h0F, \hBF>>, movsxd |-> <<0, \h63>>, lar |-> <<0, \h0F, \h02>>,
          lsl |-> <<0, \h0F, \h03>>, popcnt |-> <<\hF3, \h0F, \hB8>>, lzcnt |-> <<\hF3, \h0F, \hBD>>,
          tzcnt |-> <<\hF3, \h0F, \hBC>>, adcx |-> <<\h66, \h0F, \h38, \hF6>>,
          adox |-> <<\hF3, \h0F, \h38, \hF6>>, crc32 |-> <<\hF2, \h0F, \h38, \hF1>>, imul_imm |-> <<0, \h69>>]

\* One operand and a digit: prefix or 0, W, opcode, digit.
One == [idiv |-> <<0, 1, \hF7, 7>>, not |-> <<0, 1, \hF7, 2>>, neg |-> <<0, 1, \hF7, 3>>,
        mul |-> <<0, 1, \hF7, 4>>, div |-> <<0, 1, \hF7, 6>>, inc |-> <<0, 1, \hFF, 0>>,
        dec |-> <<0, 1, \hFF, 1>>, call_reg |-> <<0, 1, \hFF, 2>>,
        shl |-> <<0, 1, \hC1, 4>>, shr |-> <<0, 1, \hC1, 5>>, sar |-> <<0, 1, \hC1, 7>>,
        rol |-> <<0, 1, \hC1, 0>>, ror |-> <<0, 1, \hC1, 1>>, rcl |-> <<0, 1, \hC1, 2>>,
        rcr |-> <<0, 1, \hC1, 3>>, shl_cl |-> <<0, 1, \hD3, 4>>, shr_cl |-> <<0, 1, \hD3, 5>>,
        sar_cl |-> <<0, 1, \hD3, 7>>, rol_cl |-> <<0, 1, \hD3, 0>>, ror_cl |-> <<0, 1, \hD3, 1>>,
        rcl_cl |-> <<0, 1, \hD3, 2>>, rcr_cl |-> <<0, 1, \hD3, 3>>,
        add_imm |-> <<0, 1, \h81, 0>>, or_imm |-> <<0, 1, \h81, 1>>, and_imm |-> <<0, 1, \h81, 4>>,
        sub_imm |-> <<0, 1, \h81, 5>>, xor_imm |-> <<0, 1, \h81, 6>>, cmp_imm |-> <<0, 1, \h81, 7>>,
        test_imm |-> <<0, 1, \hF7, 0>>, bt_imm |-> <<0, 1, \hBA, 4>>, bts_imm |-> <<0, 1, \hBA, 5>>,
        btr_imm |-> <<0, 1, \hBA, 6>>, btc_imm |-> <<0, 1, \hBA, 7>>, rdrand |-> <<0, 1, \hC7, 6>>,
        rdseed |-> <<0, 1, \hC7, 7>>, rdfsbase |-> <<\hF3, 1, \hAE, 0>>, rdgsbase |-> <<\hF3, 1, \hAE, 1>>,
        wrfsbase |-> <<\hF3, 1, \hAE, 2>>, wrgsbase |-> <<\hF3, 1, \hAE, 3>>, sldt |-> <<0, 0, \h00, 0>>,
        str |-> <<0, 0, \h00, 1>>, smsw |-> <<0, 0, \h01, 4>>]

TwoByte == {"bt_imm", "bts_imm", "btr_imm", "btc_imm", "rdrand", "rdseed", "rdfsbase", "rdgsbase", "wrfsbase",
            "wrgsbase", "sldt", "str", "smsw"}
Imm32Ops == {"add_imm", "or_imm", "and_imm", "sub_imm", "xor_imm", "cmp_imm", "test_imm", "imul_imm"}
CheckedImm == {"add_imm", "or_imm", "and_imm", "sub_imm", "xor_imm", "cmp_imm"}
MaskedCount == {"shl", "shr", "rol", "ror"}
Imm8Ops == MaskedCount \cup {"sar", "rcl", "rcr", "bt_imm", "bts_imm", "btr_imm", "btc_imm", "shld_imm",
                             "shrd_imm", "rorx", "shufps", "blendps", "vshufps"}

Immediate(i) ==
  IF i.op \in Imm32Ops THEN Low4(i.imm)
  ELSE IF i.op \in MaskedCount THEN <<i.imm[1] % 64>>
  ELSE IF i.op \in Imm8Ops THEN <<i.imm[1]>> ELSE <<>>

Prefix(p) == IF p = 0 THEN <<>> ELSE <<p>>

BinopRegReg(i) ==
  LET d == i.args[1][1]
      s == i.args[2][1]
  IN IF i.op = "mov_mr" /\ d = s THEN <<>>
     ELSE <<Rex(1, Hi(s), 0, Hi(d))>> \o ToRm[i.op] \o <<ModRM(3, s, d)>> \o Immediate(i)

RegFromRm(i) ==
  LET d == i.args[1][1]
      s == i.args[2][1]
  IN Prefix(ToReg[i.op][1]) \o <<Rex(1, Hi(d), 0, Hi(s))>> \o Tail(ToReg[i.op]) \o <<ModRM(3, d, s)>> \o Immediate(i)

OneOperand(i) ==
  LET d == i.args[1][1]
      e == One[i.op]
  IN Prefix(e[1]) \o <<Rex(e[2], 0, 0, Hi(d))>> \o (IF i.op \in TwoByte THEN <<\h0F>> ELSE <<>>)
       \o <<e[3], ModRM(3, e[4], d)>> \o Immediate(i)

XchgRegReg(i) ==
  LET a == i.args[1][1]
      b == i.args[2][1]
  IN IF a = b THEN <<>>
     ELSE IF a = 0 THEN <<Rex(1, 0, 0, Hi(b)), \h90 + (b % 8)>>
     ELSE IF b = 0 THEN <<Rex(1, 0, 0, Hi(a)), \h90 + (a % 8)>>
     ELSE <<Rex(1, Hi(a), 0, Hi(b)), \h87, ModRM(3, a, b)>>

PushPop(i) ==
  LET r == i.args[1][1]
  IN (IF r >= 8 THEN <<Rex(0, 0, 0, 1)>> ELSE <<>>) \o <<(IF i.op = "push" THEN \h50 ELSE \h58) + (r % 8)>>

Bswap(i) == <<Rex(1, 0, 0, Hi(i.args[1][1])), \h0F, \hC8 + (i.args[1][1] % 8)>>

ZeroHigh(imm) == SubSeq(imm, 5, 8) = <<0, 0, 0, 0>>
FitsSigned32(imm) == SubSeq(imm, 5, 8) = [k \in 1 .. 4 |-> IF imm[4] >= 128 THEN 255 ELSE 0]

\* The shortest way to load a number, or always the long one.
MovRegImm(i, deterministic) ==
  LET d == i.args[1][1]
      long == <<Rex(1, 0, 0, Hi(d)), \hB8 + (d % 8)>> \o i.imm
  IN IF deterministic THEN long
     ELSE IF ZeroHigh(i.imm)
     THEN (IF d >= 8 THEN <<\h41>> ELSE <<>>) \o <<\hB8 + (d % 8)>> \o Low4(i.imm)
     ELSE IF FitsSigned32(i.imm)
     THEN <<Rex(1, 0, 0, Hi(d)), \hC7, ModRM(3, 0, d)>> \o Low4(i.imm)
     ELSE long

-----------------------------------------------------------------------------
(* Conditions *)

JccOpcode ==
  [eq |-> \h84, neq |-> \h85, gt |-> \h8F, lt |-> \h8C, gte |-> \h8D, lte |-> \h8E, above |-> \h87,
   below |-> \h82, abe |-> \h83, ae |-> \h83, be |-> \h86, ble |-> \h86, zf |-> \h84, e |-> \h84, z |-> \h84,
   nz |-> \h85, ne |-> \h85, g |-> \h8F, nle |-> \h8F, l |-> \h8C, nge |-> \h8C, ge |-> \h8D, nl |-> \h8D,
   le |-> \h8E, ng |-> \h8E, a |-> \h87, nbe |-> \h87, b |-> \h82, c |-> \h82, nae |-> \h82, nb |-> \h83,
   nc |-> \h83, na |-> \h86, s |-> \h88, ns |-> \h89, o |-> \h80, no |-> \h81, p |-> \h8A, pe |-> \h8A,
   np |-> \h8B, po |-> \h8B]

\* The set table has another code for abe.
SetccOpcode == [c \in DOMAIN JccOpcode |-> IF c = "abe" THEN \h96 ELSE JccOpcode[c] + \h10]

CmovOpcode ==
  [eq |-> \h44, neq |-> \h45, lt |-> \h4C, gt |-> \h4F, lte |-> \h4E, gte |-> \h4D, below |-> \h42,
   above |-> \h47, abe |-> \h43, ae |-> \h43, be |-> \h46, ble |-> \h46]

\* setcc and the movzx that clears the rest of the register.
Setcc(i) ==
  LET d == i.args[1][1]
  IN (IF d >= 8 THEN <<Rex(0, 0, 0, 1)>> ELSE IF d \in 4 .. 7 THEN <<Rex(0, 0, 0, 0)>> ELSE <<>>)
       \o <<\h0F, SetccOpcode[i.cond], ModRM(3, 0, d), Rex(1, Hi(d), 0, Hi(d)), \h0F, \hB6, ModRM(3, d, d)>>

Cmov(i) ==
  LET d == i.args[1][1]
      s == i.args[2]
  IN <<Rex(1, Hi(d), 0, Hi(s[1])), \h0F, CmovOpcode[i.cond]>>
       \o (IF IsMem(s) THEN NoSib(d, s) ELSE <<ModRM(3, d, s[1])>>)

\* A reference to a label: the last four bytes are filled in by link.
Reference(i) ==
  CASE i.op = "jmp"  -> <<\hE9>> \o Fixup
    [] i.op = "call" -> <<\hE8>> \o Fixup
    [] i.op = "j"    -> <<\h0F, JccOpcode[i.cond]>> \o Fixup
    [] i.op = "lea"  -> <<Rex(1, Hi(i.args[1][1]), 0, 0), \h8D, ModRM(0, i.args[1][1], 5)>> \o Fixup

-----------------------------------------------------------------------------
(* Vector and VEX instructions *)

Sse == [addps |-> <<0, \h58>>, subps |-> <<0, \h5C>>, mulps |-> <<0, \h59>>, divps |-> <<0, \h5E>>,
        movaps |-> <<0, \h28>>, shufps |-> <<0, \hC6>>, addpd |-> <<\h66, \h58>>, subpd |-> <<\h66, \h5C>>,
        mulpd |-> <<\h66, \h59>>, divpd |-> <<\h66, \h5E>>, paddd |-> <<\h66, \hFE>>, psubd |-> <<\h66, \hFA>>,
        haddps |-> <<\hF2, \h7C>>, blendps |-> <<\h66, \h3A, \h0C>>]

SseBinop(i) ==
  Prefix(Sse[i.op][1]) \o <<\h0F>> \o Tail(Sse[i.op]) \o <<ModRM(3, i.args[1][1], i.args[2][1])>> \o Immediate(i)

\* The three-byte VEX prefix for ModRM.reg r, VEX.vvvv v and ModRM.rm b.
Vex3(map, w, l, pp, r, v, b) ==
  <<\hC4, 128 * (1 - Hi(r)) + 64 + 32 * (1 - Hi(b)) + map, 128 * w + 8 * (15 - v) + 4 * l + pp>>

Ymm == [vaddps |-> \h58, vsubps |-> \h5C, vmulps |-> \h59, vdivps |-> \h5E, vshufps |-> \hC6]

\* The destination is the first source as well.
YmmBinop(i) ==
  LET d == i.args[1][1]
      s == i.args[2][1]
  IN Vex3(1, 0, 1, 0, d, d, s) \o <<Ymm[i.op], ModRM(3, d, s)>> \o Immediate(i)

Vbroadcastss(i) ==
  LET d == i.args[1][1]
      s == i.args[2][1]
  IN Vex3(2, 0, 1, 1, d, 0, s) \o <<\h18, ModRM(3, d, s)>>

\* pp and opcode; in the first set the second operand is VEX.vvvv, in the others
\* the third is.
Bmi == [andn |-> <<0, \hF2>>, pext |-> <<3, \hF5>>, pdep |-> <<2, \hF5>>, mulx |-> <<3, \hF6>>,
        bzhi |-> <<0, \hF5>>, bextr |-> <<0, \hF7>>, shlx |-> <<1, \hF7>>, shrx |-> <<3, \hF7>>,
        sarx |-> <<2, \hF7>>]

BmiOp(i) ==
  LET d == i.args[1][1]
      second == i.args[2][1]
      third == i.args[3][1]
      v  == IF i.op \in {"andn", "pext", "pdep", "mulx"} THEN second ELSE third
      rm == IF i.op \in {"andn", "pext", "pdep", "mulx"} THEN third ELSE second
  IN Vex3(2, 1, 0, Bmi[i.op][1], d, v, rm) \o <<Bmi[i.op][2], ModRM(3, d, rm)>>

\* The destination is VEX.vvvv; ModRM.reg is a digit.
Bls == [blsi |-> 3, blsr |-> 1, blsmsk |-> 2]
BlsOp(i) ==
  LET s == i.args[2][1]
  IN Vex3(2, 1, 0, 0, 0, i.args[1][1], s) \o <<\hF3, ModRM(3, Bls[i.op], s)>>

Rorx(i) ==
  LET d == i.args[1][1]
      s == i.args[2][1]
  IN Vex3(3, 1, 0, 3, d, 0, s) \o <<\hF0, ModRM(3, d, s)>> \o Immediate(i)

-----------------------------------------------------------------------------
(* Instructions without operands *)

Plain == [ret |-> <<\hC3>>, leave |-> <<\hC9>>, syscall |-> <<\h0F, \h05>>, nop |-> <<\h90>>,
          cld |-> <<\hFC>>, std |-> <<\hFD>>, hlt |-> <<\hF4>>, cqo |-> <<\h48, \h99>>, cdq |-> <<\h99>>,
          rdtsc |-> <<\h0F, \h31>>, cpuid |-> <<\h0F, \hA2>>, mfence |-> <<\h0F, \hAE, \hF0>>,
          lfence |-> <<\h0F, \hAE, \hE8>>, sfence |-> <<\h0F, \hAE, \hF8>>, cli |-> <<\hFA>>, sti |-> <<\hFB>>,
          in |-> <<\hEC>>, out |-> <<\hEE>>, rep_stosb |-> <<\hF3, \hAA>>, rep_movsb |-> <<\hF3, \hA4>>,
          clc |-> <<\hF8>>, stc |-> <<\hF9>>, cmc |-> <<\hF5>>, pause |-> <<\hF3, \h90>>, int3 |-> <<\hCC>>,
          ud2 |-> <<\h0F, \h0B>>, cdqe |-> <<\h48, \h98>>, pushfq |-> <<\h9C>>, popfq |-> <<\h9D>>,
          rdtscp |-> <<\h0F, \h01, \hF9>>, endbr64 |-> <<\hF3, \h0F, \h1E, \hFA>>, cbw |-> <<\h66, \h98>>,
          cwde |-> <<\h98>>, cwd |-> <<\h66, \h99>>, nop_long |-> <<\h0F, \h1F, \h00>>,
          xgetbv |-> <<\h0F, \h01, \hD0>>, xsetbv |-> <<\h0F, \h01, \hD1>>, wbinvd |-> <<\h0F, \h09>>,
          clts |-> <<\h0F, \h06>>, rdmsr |-> <<\h0F, \h32>>, wrmsr |-> <<\h0F, \h30>>, rdpmc |-> <<\h0F, \h33>>,
          swapgs |-> <<\h0F, \h01, \hF8>>, sysret |-> <<\h48, \h0F, \h07>>, sysenter |-> <<\h0F, \h34>>,
          sysexit |-> <<\h0F, \h35>>, iretq |-> <<\h48, \hCF>>, invd |-> <<\h0F, \h08>>,
          faddp |-> <<\hDE, \hC1>>, fsubp |-> <<\hDE, \hE9>>, fmulp |-> <<\hDE, \hC9>>,
          fdivp |-> <<\hDE, \hF9>>, fcomip |-> <<\hDF, \hF1>>, fstsw_ax |-> <<\hDF, \hE0>>,
          fxch |-> <<\hD9, \hC9>>]

-----------------------------------------------------------------------------
(* An immediate that does not fit makes the method raise. *)
Refuses(i) == i.op \in CheckedImm /\ ~ FitsSigned32(i.imm)

HasMemory(i) == \E k \in DOMAIN i.args : IsMem(i.args[k])

Encode(i, deterministic) ==
  IF i.ref # "" THEN Reference(i) ELSE
  CASE i.op \in DOMAIN Plain -> Plain[i.op]
    [] i.op = "int" -> <<\hCD, i.imm[1]>>
    [] i.op = "mov_imm" -> MovRegImm(i, deterministic)
    [] i.op = "set" -> Setcc(i)
    [] i.op = "cmov" -> Cmov(i)
    [] i.op = "xchg" -> IF HasMemory(i) THEN XchgMemory(i) ELSE XchgRegReg(i)
    [] i.op \in {"push", "pop"} -> PushPop(i)
    [] i.op = "bswap" -> Bswap(i)
    [] i.op \in DOMAIN Far /\ HasMemory(i) -> FarMove(i)
    [] i.op \in {"mov32_rm", "mov32_mr", "mov16_mr", "mov8_mr"} -> NarrowMove(i)
    [] i.op = "lea" -> Lea(i)
    [] i.op = "lock_cmpxchg" -> LockCmpxchg(i)
    [] i.op \in {"movups_rm", "movups_mr"} -> Movups(i)
    [] i.op \in {"vmovups_rm", "vmovups_mr"} -> Vmovups(i)
    [] i.op \in DOMAIN Touch -> TouchMemory(i)
    [] i.op \in DOMAIN Fpu -> FpuMemory(i)
    [] i.op \in DOMAIN ToRm /\ ~ HasMemory(i) -> BinopRegReg(i)
    [] i.op \in DOMAIN ToReg /\ ~ HasMemory(i) -> RegFromRm(i)
    [] i.op \in DOMAIN One -> OneOperand(i)
    [] i.op \in DOMAIN Sse -> SseBinop(i)
    [] i.op \in DOMAIN Ymm -> YmmBinop(i)
    [] i.op = "vbroadcastss" -> Vbroadcastss(i)
    [] i.op \in DOMAIN Bmi -> BmiOp(i)
    [] i.op \in DOMAIN Bls -> BlsOp(i)
    [] i.op = "rorx" -> Rorx(i)

-----------------------------------------------------------------------------
(* What the methods are documented to encode *)

\* The immediate as the processor gets it: counts are taken modulo 64.
Meant(i) ==
  IF i.op \in WholeByte THEN <<i.imm[1]>>
  ELSE IF i.op \in Imm8Ops THEN <<i.imm[1] % 64>> ELSE i.imm

Insn(op, args, imm) == [op |-> op, args |-> args, imm |-> imm]

\* The instructions that a call stands for.  Branch distances are not known yet.
Meaning(i) ==
  CASE i.op = "set" ->
         <<Insn("set", <<<<Condition[i.cond]>>>> \o i.args, <<>>), Insn("movzx8", i.args \o i.args, <<>>)>>
    [] i.op \in {"j", "cmov"} -> <<Insn(i.op, <<<<Condition[i.cond]>>>> \o i.args, <<>>)>>
    [] i.op \in {"mov_mr", "xchg"} /\ i.args[1] = i.args[2] -> <<>>
    [] i.op = "xchg" /\ HasMemory(i) -> <<Insn("xchg", i.args, <<>>)>>
    [] i.op = "xchg" /\ i.args[2] = <<0>> -> <<Insn("xchg", <<<<0>>, i.args[1]>>, <<>>)>>
    [] i.op = "xchg" /\ i.args[1] # <<0>> -> <<Insn("xchg", <<i.args[2], i.args[1]>>, <<>>)>>
    [] i.op \in DOMAIN Ymm -> <<Insn(i.op, <<i.args[1], i.args[1], i.args[2]>>, Meant(i))>>
    [] i.op = "nop_long" -> <<Insn("nop_long", <<<<0, None, 1, 0>>>>, <<>>)>>
    [] OTHER -> <<Insn(i.op, i.args, Meant(i))>>
=============================================================================
