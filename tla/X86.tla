---------------------------------- MODULE X86 ----------------------------------
(***************************************************************************)
(* The part of the x86-64 instruction format that ACLM's encoder uses, as  *)
(* the processor reads it.  It is written from the processor manual and    *)
(* not from the encoder, so that the encoder can be checked against it.    *)
(*                                                                         *)
(* A decoded instruction is [op, args, imm].  An argument is a register    *)
(* <<n>>, a place in memory <<base, index, scale, displacement>>, or the   *)
(* distance <<d>> of a branch; imm is the immediate, extended to 8 bytes.  *)
(***************************************************************************)
EXTENDS Integers, Sequences

None == -1       \* no index, no digit
Rip == -2        \* base of an address relative to the next instruction
Absolute == -3   \* base of an address that is only a displacement

-----------------------------------------------------------------------------
(* The opcode map.  An entry has a mandatory prefix (p), a map (m: 0 none,  *)
(* 1 0F, 2 0F38, 3 0F3A), an opcode (o), a ModRM digit (d), the W bit       *)
(* (w; 2 when it does not matter), the order of the operands (en), the      *)
(* number of immediate bytes (n) and whether it is a VEX instruction and of *)
(* which length (x).                                                        *)

Block(x, p, m, w, en, n, table) ==
  {[op |-> k, x |-> x, p |-> p, m |-> m, w |-> w, en |-> en, n |-> n, o |-> table[k], d |-> None] :
     k \in DOMAIN table}

Group(p, m, o, w, en, n, table) ==
  {[op |-> k, x |-> "no", p |-> p, m |-> m, w |-> w, en |-> en, n |-> n, o |-> o, d |-> table[k]] :
     k \in DOMAIN table}

General ==
  Block("no", 0, 0, 1, "MR", 0,
        [add |-> \h01, or |-> \h09, adc |-> \h11, sbb |-> \h19, and |-> \h21, sub |-> \h29, xor |-> \h31,
         cmp |-> \h39, test |-> \h85, xchg |-> \h87, mov_mr |-> \h89]) \cup
  Block("no", 0, 0, 1, "RM", 0, [mov_rm |-> \h8B, lea |-> \h8D, movsxd |-> \h63]) \cup
  Block("no", 0, 0, 1, "RM", 4, [imul_imm |-> \h69]) \cup
  Block("no", 0, 0, 0, "RM", 0, [mov32_rm |-> \h8B]) \cup
  Block("no", 0, 0, 0, "MR", 0, [mov32_mr |-> \h89, mov8_mr |-> \h88]) \cup
  Block("no", \h66, 0, 0, "MR", 0, [mov16_mr |-> \h89]) \cup
  Block("no", 0, 1, 1, "MR", 0,
        [bt |-> \hA3, shld |-> \hA5, bts |-> \hAB, shrd |-> \hAD, cmpxchg |-> \hB1, btr |-> \hB3,
         btc |-> \hBB, xadd |-> \hC1]) \cup
  Block("no", 0, 1, 1, "MR", 1, [shld_imm |-> \hA4, shrd_imm |-> \hAC]) \cup
  Block("no", 0, 1, 1, "RM", 0,
        [lar |-> \h02, lsl |-> \h03, imul |-> \hAF, movzx8 |-> \hB6, movzx16 |-> \hB7, bsf |-> \hBC,
         bsr |-> \hBD, movsx8 |-> \hBE, movsx16 |-> \hBF]) \cup
  Block("no", \hF3, 1, 1, "RM", 0, [popcnt |-> \hB8, tzcnt |-> \hBC, lzcnt |-> \hBD]) \cup
  Block("no", \h66, 2, 1, "RM", 0, [adcx |-> \hF6]) \cup
  Block("no", \hF3, 2, 1, "RM", 0, [adox |-> \hF6]) \cup
  Block("no", \hF2, 2, 1, "RM", 0, [crc32 |-> \hF1]) \cup
  Block("no", \hF0, 1, 1, "MR", 0, [lock_cmpxchg |-> \hB1]) \cup
  Block("no", 0, 1, 1, "CRM", 0, [cmov |-> \h40]) \cup
  Block("no", 0, 1, 0, "CM", 0, [set |-> \h90]) \cup
  Block("no", 0, 1, 0, "CD", 0, [j |-> \h80]) \cup
  Block("no", 0, 0, 0, "D", 0, [call |-> \hE8, jmp |-> \hE9]) \cup
  Block("no", 0, 0, 0, "O", 0, [push |-> \h50, pop |-> \h58]) \cup
  Block("no", 0, 0, 1, "AO", 0, [xchg |-> \h90]) \cup
  Block("no", 0, 1, 1, "O", 0, [bswap |-> \hC8]) \cup
  Block("no", 0, 0, 0, "O", 4, [mov_imm |-> \hB8]) \cup
  Block("no", 0, 0, 1, "O", 8, [mov_imm |-> \hB8])

Digits ==
  Group(0, 0, \hC7, 1, "M", 4, [mov_imm |-> 0]) \cup
  Group(0, 0, \h81, 1, "M", 4,
        [add_imm |-> 0, or_imm |-> 1, and_imm |-> 4, sub_imm |-> 5, xor_imm |-> 6, cmp_imm |-> 7]) \cup
  Group(0, 0, \hF7, 1, "M", 4, [test_imm |-> 0]) \cup
  Group(0, 0, \hF7, 1, "M", 0, [not |-> 2, neg |-> 3, mul |-> 4, div |-> 6, idiv |-> 7]) \cup
  Group(0, 0, \hFF, 1, "M", 0, [inc |-> 0, dec |-> 1, call_reg |-> 2]) \cup
  Group(0, 0, \hC1, 1, "M", 1,
        [rol |-> 0, ror |-> 1, rcl |-> 2, rcr |-> 3, shl |-> 4, shr |-> 5, sar |-> 7]) \cup
  Group(0, 0, \hD3, 1, "M", 0,
        [rol_cl |-> 0, ror_cl |-> 1, rcl_cl |-> 2, rcr_cl |-> 3, shl_cl |-> 4, shr_cl |-> 5, sar_cl |-> 7]) \cup
  Group(0, 1, \hBA, 1, "M", 1, [bt_imm |-> 4, bts_imm |-> 5, btr_imm |-> 6, btc_imm |-> 7]) \cup
  Group(0, 1, \hC7, 1, "Mr", 0, [rdrand |-> 6, rdseed |-> 7]) \cup
  Group(\hF3, 1, \hAE, 1, "Mr", 0, [rdfsbase |-> 0, rdgsbase |-> 1, wrfsbase |-> 2, wrgsbase |-> 3]) \cup
  Group(0, 1, \h00, 0, "M", 0, [sldt |-> 0, str |-> 1]) \cup
  Group(0, 1, \h01, 0, "Mr", 0, [smsw |-> 4]) \cup
  Group(0, 1, \h01, 2, "Mm", 0, [lgdt |-> 2, lidt |-> 3, invlpg |-> 7]) \cup
  Group(0, 1, \hAE, 0, "Mm", 0, [fxsave |-> 0, fxrstor |-> 1, ldmxcsr |-> 2, stmxcsr |-> 3, clflush |-> 7]) \cup
  Group(0, 1, \h0D, 0, "Mm", 0, [prefetchw |-> 1]) \cup
  Group(0, 1, \h18, 0, "Mm", 0, [prefetchnta |-> 0]) \cup
  Group(0, 1, \h1F, 0, "Mm", 0, [nop_long |-> 0]) \cup
  Group(\hF0, 1, \hC7, 1, "Mm", 0, [cmpxchg16b |-> 1]) \cup
  Group(0, 1, \hC7, 0, "Mm", 0, [cmpxchg8b |-> 1]) \cup
  Group(0, 0, \hDD, 0, "Mm", 0, [fld |-> 0, fstp |-> 3]) \cup
  Group(0, 0, \hDF, 0, "Mm", 0, [fild |-> 5, fistp |-> 7])

\* Here d is the whole byte after the opcode.
Fixed ==
  Block("no", 0, 0, 0, "ZO", 0,
        [nop |-> \h90, cwde |-> \h98, cdq |-> \h99, pushfq |-> \h9C, popfq |-> \h9D, ret |-> \hC3,
         leave |-> \hC9, int3 |-> \hCC, in |-> \hEC, out |-> \hEE, hlt |-> \hF4, cmc |-> \hF5, clc |-> \hF8,
         stc |-> \hF9, cli |-> \hFA, sti |-> \hFB, cld |-> \hFC, std |-> \hFD]) \cup
  Block("no", 0, 0, 1, "ZO", 0, [cdqe |-> \h98, cqo |-> \h99, iretq |-> \hCF]) \cup
  Block("no", \h66, 0, 0, "ZO", 0, [cbw |-> \h98, cwd |-> \h99]) \cup
  Block("no", \hF3, 0, 0, "ZO", 0, [pause |-> \h90, rep_movsb |-> \hA4, rep_stosb |-> \hAA]) \cup
  Block("no", 0, 0, 0, "ZO", 1, [int |-> \hCD]) \cup
  Block("no", 0, 1, 0, "ZO", 0,
        [syscall |-> \h05, clts |-> \h06, invd |-> \h08, wbinvd |-> \h09, ud2 |-> \h0B, wrmsr |-> \h30, rdtsc |-> \h31,
         rdmsr |-> \h32, rdpmc |-> \h33, sysenter |-> \h34, sysexit |-> \h35, cpuid |-> \hA2]) \cup
  Block("no", 0, 1, 1, "ZO", 0, [sysret |-> \h07]) \cup
  Group(0, 1, \h01, 0, "ZM", 0, [xgetbv |-> \hD0, xsetbv |-> \hD1, swapgs |-> \hF8, rdtscp |-> \hF9]) \cup
  Group(0, 1, \hAE, 0, "ZM", 0, [lfence |-> \hE8, mfence |-> \hF0, sfence |-> \hF8]) \cup
  Group(\hF3, 1, \h1E, 0, "ZM", 0, [endbr64 |-> \hFA]) \cup
  Group(0, 0, \hD9, 0, "ZM", 0, [fxch |-> \hC9]) \cup
  Group(0, 0, \hDE, 0, "ZM", 0, [faddp |-> \hC1, fmulp |-> \hC9, fsubp |-> \hE9, fdivp |-> \hF9]) \cup
  Group(0, 0, \hDF, 0, "ZM", 0, [fstsw_ax |-> \hE0, fcomip |-> \hF1])

Vector ==
  Block("no", 0, 1, 0, "RM", 0,
        [movups_rm |-> \h10, movaps |-> \h28, addps |-> \h58, mulps |-> \h59, subps |-> \h5C, divps |-> \h5E]) \cup
  Block("no", 0, 1, 0, "MR", 0, [movups_mr |-> \h11]) \cup
  Block("no", 0, 1, 0, "RM", 1, [shufps |-> \hC6]) \cup
  Block("no", \h66, 1, 0, "RM", 0,
        [addpd |-> \h58, mulpd |-> \h59, subpd |-> \h5C, divpd |-> \h5E, psubd |-> \hFA, paddd |-> \hFE]) \cup
  Block("no", \hF2, 1, 0, "RM", 0, [haddps |-> \h7C]) \cup
  Block("no", \h66, 3, 0, "RM", 1, [blendps |-> \h0C]) \cup
  Block("L1", 0, 1, 2, "RVM", 0, [vaddps |-> \h58, vmulps |-> \h59, vsubps |-> \h5C, vdivps |-> \h5E]) \cup
  Block("L1", 0, 1, 2, "RVM", 1, [vshufps |-> \hC6]) \cup
  Block("L1", 0, 1, 2, "RM", 0, [vmovups_rm |-> \h10]) \cup
  Block("L1", 0, 1, 2, "MR", 0, [vmovups_mr |-> \h11]) \cup
  Block("L1", \h66, 2, 0, "RM", 0, [vbroadcastss |-> \h18])

BitManipulation ==
  Block("L0", 0, 2, 1, "RVM", 0, [andn |-> \hF2]) \cup
  Block("L0", 0, 2, 1, "RMV", 0, [bzhi |-> \hF5, bextr |-> \hF7]) \cup
  Block("L0", \h66, 2, 1, "RMV", 0, [shlx |-> \hF7]) \cup
  Block("L0", \hF3, 2, 1, "RMV", 0, [sarx |-> \hF7]) \cup
  Block("L0", \hF2, 2, 1, "RMV", 0, [shrx |-> \hF7]) \cup
  Block("L0", \hF3, 2, 1, "RVM", 0, [pext |-> \hF5]) \cup
  Block("L0", \hF2, 2, 1, "RVM", 0, [pdep |-> \hF5, mulx |-> \hF6]) \cup
  Block("L0", \hF2, 3, 1, "RM", 1, [rorx |-> \hF0]) \cup
  {[e EXCEPT !.x = "L0"] : e \in Group(0, 2, \hF3, 1, "VM", 0, [blsr |-> 1, blsmsk |-> 2, blsi |-> 3])}

Manual == General \cup Digits \cup Fixed \cup Vector \cup BitManipulation

\* The condition codes, by the names ACLM has for them.
Condition ==
  [o |-> 0, no |-> 1, b |-> 2, c |-> 2, nae |-> 2, below |-> 2, ae |-> 3, nb |-> 3, nc |-> 3, abe |-> 3,
   eq |-> 4, e |-> 4, z |-> 4, zf |-> 4, neq |-> 5, ne |-> 5, nz |-> 5, be |-> 6, na |-> 6, ble |-> 6,
   a |-> 7, nbe |-> 7, above |-> 7, s |-> 8, ns |-> 9, p |-> 10, pe |-> 10, np |-> 11, po |-> 11,
   lt |-> 12, l |-> 12, nge |-> 12, gte |-> 13, ge |-> 13, nl |-> 13, lte |-> 14, le |-> 14, ng |-> 14,
   gt |-> 15, g |-> 15, nle |-> 15]

-----------------------------------------------------------------------------
(* Decoding *)

PrefixBytes == {\h66, \hF0, \hF2, \hF3}
Signed(b) == IF b >= 128 THEN b - 256 ELSE b

\* The number in bytes k .. k + n - 1, little-endian and signed.
Number(bs, k, n) ==
  IF n = 1 THEN Signed(bs[k])
  ELSE bs[k] + 256 * bs[k + 1] + 65536 * bs[k + 2] + 16777216 * Signed(bs[k + 3])

\* Everything before the operands: the two- and three-byte VEX prefixes, or a
\* legacy prefix, REX and an opcode of one to three bytes.
VexHeader(bs) ==
  LET long == bs[1] = \hC4
      last == IF long THEN bs[3] ELSE bs[2]
      at   == IF long THEN 4 ELSE 3
  IN [x |-> IF (last \div 4) % 2 = 1 THEN "L1" ELSE "L0",
      p |-> <<0, \h66, \hF3, \hF2>>[(last % 4) + 1],
      m |-> IF long THEN bs[2] % 32 ELSE 1,
      w |-> IF long THEN last \div 128 ELSE 0,
      r |-> 1 - (bs[2] \div 128),
      i |-> IF long THEN 1 - ((bs[2] \div 64) % 2) ELSE 0,
      b |-> IF long THEN 1 - ((bs[2] \div 32) % 2) ELSE 0,
      v |-> 15 - ((last \div 8) % 16),
      rex |-> FALSE, at |-> at, o |-> bs[at]]

MapAt(bs, c) == IF bs[c] # \h0F THEN 0 ELSE IF bs[c + 1] = \h38 THEN 2 ELSE IF bs[c + 1] = \h3A THEN 3 ELSE 1

\* c is the byte after REX, or after the prefix if there is no REX.
RexHeader(bs, p, rex, c, m) ==
  LET at == CASE m = 0 -> c [] m = 1 -> c + 1 [] OTHER -> c + 2
      bits == IF rex = None THEN 0 ELSE rex
  IN [x |-> "no", p |-> p, m |-> m, w |-> bits \div 8, r |-> (bits \div 4) % 2, i |-> (bits \div 2) % 2,
      b |-> bits % 2, v |-> None, rex |-> rex # None, at |-> at, o |-> bs[at]]

LegacyHeader(bs, p, a) ==
  IF bs[a] \in \h40 .. \h4F
  THEN RexHeader(bs, p, bs[a] - \h40, a + 1, MapAt(bs, a + 1))
  ELSE RexHeader(bs, p, None, a, MapAt(bs, a))

Header(bs) ==
  IF bs[1] \in {\hC4, \hC5} THEN VexHeader(bs)
  ELSE IF bs[1] \in PrefixBytes THEN LegacyHeader(bs, bs[1], 2)
  ELSE LegacyHeader(bs, 0, 1)

\* The ModRM and SIB bytes: the register operand, the other operand and where
\* what follows them starts.
Operands(bs, f) ==
  LET byte == bs[f.at + 1]
      mod  == byte \div 64
      low  == byte % 8
      sib  == bs[f.at + 2]
      k    == f.at + (IF low = 4 THEN 3 ELSE 2)
      base == 8 * f.b + (IF low = 4 THEN sib % 8 ELSE low)
      idx  == 8 * f.i + ((sib \div 8) % 8)
      bare == mod = 0 /\ base % 8 = 5     \* no base register, a displacement instead
      n    == IF mod = 1 THEN 1 ELSE IF mod = 2 \/ bare THEN 4 ELSE 0
  IN [mod |-> mod, byte |-> byte, digit |-> (byte \div 8) % 8,
      reg |-> 8 * f.r + ((byte \div 8) % 8),
      rm  |-> IF mod = 3 THEN <<8 * f.b + low>>
              ELSE <<IF ~ bare THEN base ELSE IF low = 4 THEN Absolute ELSE Rip,
                     IF low = 4 /\ idx # 4 THEN idx ELSE None,
                     IF low = 4 /\ idx # 4 THEN <<1, 2, 4, 8>>[(sib \div 64) + 1] ELSE 1,
                     IF n = 0 THEN 0 ELSE Number(bs, k, n)>>,
      end |-> IF mod = 3 THEN f.at + 2 ELSE k + n]

HasModRM(e) == e.en \notin {"ZO", "O", "AO", "D", "CD"}
OpcodeSpan(e) == IF e.en \in {"O", "AO"} THEN 8 ELSE IF e.en \in {"CRM", "CM", "CD"} THEN 16 ELSE 1

ByOpcode == [o \in 0 .. 255 |-> {e \in Manual : o \in e.o .. e.o + OpcodeSpan(e) - 1}]

\* The entries of the opcode map that the bytes match.
Matches(f, t) ==
  {e \in ByOpcode[f.o] :
     /\ e.x = f.x /\ e.p = f.p /\ e.m = f.m /\ e.w \in {f.w, 2}
     /\ e.d # None => (IF e.en = "ZM" THEN t.byte ELSE t.digit) = e.d
     /\ e.en = "Mm" => t.mod # 3
     /\ e.en = "Mr" => t.mod = 3}

\* Without a REX prefix the byte registers 4 to 7 are ah to bh.
ByteRegister(f, n) == IF ~ f.rex /\ n \in 4 .. 7 THEN 16 + n ELSE n

\* Immediate bytes that are not counts.
WholeByte == {"int", "shufps", "blendps", "vshufps"}

\* What the processor makes of the n bytes at k.
Extend(bs, k, n, unsigned) ==
  [j \in 1 .. 8 |->
     IF j <= n THEN bs[k + j - 1]
     ELSE IF ~ unsigned /\ bs[k + n - 1] >= 128 THEN 255 ELSE 0]

Unknown == [op |-> "unknown", args |-> <<>>, imm |-> <<>>]

\* The instruction of entry e, with header f and ModRM operands t.
Instruction(bs, f, t, e) ==
  LET k == IF ~ HasModRM(e) THEN f.at + 1 ELSE IF e.en = "ZM" THEN f.at + 2 ELSE t.end
      reg == <<IF e.op = "mov8_mr" THEN ByteRegister(f, t.reg) ELSE t.reg>>
      rm == IF e.op = "set" /\ t.mod = 3 THEN <<ByteRegister(f, t.rm[1])>> ELSE t.rm
      low == <<8 * f.b + (f.o - e.o)>>
      rel == <<Number(bs, k, 4)>>
  IN [insn |->
        [op |-> e.op,
         args |-> CASE e.en = "MR" -> <<rm, reg>> [] e.en = "RM" -> <<reg, rm>>
                    [] e.en \in {"M", "Mm", "Mr"} -> <<rm>>
                    [] e.en = "RVM" -> <<reg, <<f.v>>, rm>> [] e.en = "RMV" -> <<reg, rm, <<f.v>>>>
                    [] e.en = "VM" -> <<<<f.v>>, rm>>
                    [] e.en = "O" -> <<low>> [] e.en = "AO" -> <<<<0>>, low>>
                    [] e.en = "D" -> <<rel>> [] e.en = "CD" -> <<<<f.o - e.o>>, rel>>
                    [] e.en = "CM" -> <<<<f.o - e.o>>, rm>>
                    [] e.en = "CRM" -> <<<<f.o - e.o>>, reg, rm>>
                    [] OTHER -> <<>>,
         imm |-> CASE e.n = 0 -> <<>>
                   [] e.n = 1 -> <<IF e.op \in WholeByte THEN bs[k] ELSE bs[k] % 64>>
                   [] OTHER -> Extend(bs, k, e.n, f.w = 0 /\ e.op = "mov_imm")],
      len |-> (k - 1) + (IF e.en \in {"D", "CD"} THEN 4 ELSE e.n)]

OneOf(bs, f, t, found) ==
  IF found = {} THEN [insn |-> Unknown, len |-> 1] ELSE Instruction(bs, f, t, CHOOSE e \in found : TRUE)

WithHeader(bs, f) == LET t == Operands(bs, f) IN OneOf(bs, f, t, Matches(f, t))

\* The instruction at the start of bs, and its length.
Decode(bs) == WithHeader(bs, Header(bs))
=============================================================================
