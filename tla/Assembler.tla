------------------------------- MODULE Assembler -------------------------------
(***************************************************************************)
(* The assembler object of src/ACLM/x64enc.py, from the first instruction  *)
(* to the linked program, and the image that src/ACLM/elfwriter.py and     *)
(* src/ACLM/kernel_boot.py make of it.                                     *)
(*                                                                         *)
(* Statements call instruction methods and label() one after another; the *)
(* data section is laid out before; link() then fills in the distances to  *)
(* labels, and the writer decides where code and data are loaded.          *)
(***************************************************************************)
EXTENDS Encoder, SequencesExt

CONSTANTS
  Calls,      \* the calls of instruction methods
  Few,        \* those that programs of more than one call are made of
  Labels,     \* labels in the code
  Sections,   \* the sequences of data declarations
  Options,    \* the command-line options and targets: [wx, debug, baremetal, deterministic]
  MaxItems,   \* bound: calls and labels in a program
  Page        \* PAGE, 4096 in the source

Byte == 0 .. 255
LoadVaddr == \h400000   \* where a program is loaded

\* A page divides the address a program is loaded at; a method appends bytes,
\* and a method that refers to a label is one of four.
ASSUME AssemblerAssumption ==
  /\ MaxItems \in Nat
  /\ Page \in Nat \ {0} /\ LoadVaddr % Page = 0
  /\ \A i \in Calls \cup Few :
       /\ ~ Refuses(i) => \A o \in Options : Encode(i, o.deterministic) \in Seq(Byte)
       /\ i.ref # "" => i.op \in {"jmp", "call", "j", "lea"}
  /\ \A ds \in Sections :
       ds \in Seq([kind : {"alloc"}, name : STRING, size : Nat]
                   \cup [kind : {"align"}, name : STRING, size : Nat \ {0}])

VARIABLES
  code, labels, relocs,   \* the Assembler object
  layout, dataSize,       \* CodeGen.data_layout, len(CodeGen.data_bytes)
  options,
  phase,                  \* "emitting", "linked", or "refused": an exception was raised
  program, decls          \* history: the calls and labels, the declarations

vars == <<code, labels, relocs, layout, dataSize, options, phase, program, decls>>

-----------------------------------------------------------------------------
(* The data section *)

\* A dictionary with one entry more, or another.
With(f, n, v) == [x \in DOMAIN f \cup {n} |-> IF x = n THEN v ELSE f[x]]

\* A declaration takes up room or aligns what follows.
Declare(d, acc) ==
  IF d.kind = "align"
  THEN [acc EXCEPT !.off = @ + ((d.size - (@ % d.size)) % d.size)]
  ELSE [layout |-> With(acc.layout, d.name, acc.off), off |-> acc.off + d.size]

CollectData(ds) ==
  LET upTo[n \in 0 .. Len(ds)] ==
        IF n = 0 THEN [layout |-> << >>, off |-> 0] ELSE Declare(ds[n], upTo[n - 1])
  IN upTo[Len(ds)]

Init ==
  /\ options \in Options /\ decls \in Sections
  /\ layout = CollectData(decls).layout /\ dataSize = CollectData(decls).off
  /\ code = <<>> /\ labels = << >> /\ relocs = <<>>
  /\ phase = "emitting" /\ program = <<>>

-----------------------------------------------------------------------------
(* Emitting *)

CallItem(i) == [kind |-> "call", call |-> i]
LabelItem(l) == [kind |-> "label", label |-> l]

\* Bounds the programs: any one call, or several of the few and labels.
Composable == {CallItem(i) : i \in Few} \cup {LabelItem(l) : l \in Labels}
NextCalls == IF program = <<>> THEN Calls ELSE IF program[1] \in Composable THEN Few ELSE {}

MayAppend(item) ==
  /\ phase = "emitting" /\ Len(program) < MaxItems
  /\ program # <<>> => program[1] \in Composable
  /\ program' = Append(program, item)

Refuse == phase' = "refused" /\ UNCHANGED <<code, labels, relocs, layout, dataSize, options, decls>>

Fixups(i, bytes) ==
  IF i.ref = "" THEN <<>> ELSE <<[offset |-> Len(code) + Len(bytes) - 4, target |-> i.ref]>>

Call(i) ==
  /\ MayAppend(CallItem(i))
  /\ IF Refuses(i) THEN Refuse
     ELSE LET bytes == Encode(i, options.deterministic)
          IN /\ relocs' = relocs \o Fixups(i, bytes)
             /\ code' = code \o bytes
             /\ UNCHANGED <<labels, layout, dataSize, options, phase, decls>>

Label(l) ==
  /\ MayAppend(LabelItem(l))
  /\ IF l \in DOMAIN labels THEN Refuse
     ELSE /\ labels' = With(labels, l, Len(code))
          /\ UNCHANGED <<code, relocs, layout, dataSize, options, phase, decls>>

-----------------------------------------------------------------------------
(* Linking *)

AlignUp(n, a) == ((n + a - 1) \div a) * a

WxCodeOffset == AlignUp(64 + 2 * 56, Page)

\* Fault variant: the data segment follows the code segment directly.
WxDataOffsetUnaligned(size) == WxCodeOffset + size

WxDataOffset(size) == AlignUp(WxCodeOffset + size, Page)

\* Fault variant: the padding between the segments is forgotten.
DataDistanceUnpadded == Len(code)

\* From the start of the code to the data, as the linker sees it.
DataDistance ==
  IF options.wx THEN WxDataOffset(Len(code)) - WxCodeOffset ELSE Len(code)

Offsets ==
  [n \in DOMAIN labels \cup DOMAIN layout |->
     IF n \in DOMAIN layout THEN DataDistance + layout[n] ELSE labels[n]]

Distance(r) == Offsets[r.target] - (r.offset + 4)

\* The four bytes of a fixup, and the loop of link() that fills them in.
Field(r) == r.offset + 1 .. r.offset + 4
Fill(r, bytes) ==
  [k \in DOMAIN bytes |-> IF k \in Field(r) THEN Bytes(Distance(r), 4)[k - r.offset] ELSE bytes[k]]

Patched ==
  LET upTo[n \in 0 .. Len(relocs)] == IF n = 0 THEN code ELSE Fill(relocs[n], upTo[n - 1])
  IN upTo[Len(relocs)]

\* _s32 raises on a number that four bytes cannot hold.
FitsInField(d) == -2147483647 - 1 <= d /\ d <= 2147483647

Link ==
  /\ phase = "emitting" /\ program # <<>>
  /\ IF \E k \in DOMAIN relocs :
           relocs[k].target \notin DOMAIN Offsets \/ ~ FitsInField(Distance(relocs[k]))
     THEN Refuse /\ UNCHANGED program
     ELSE /\ code' = Patched
          /\ phase' = "linked"
          /\ UNCHANGED <<labels, relocs, layout, dataSize, options, program, decls>>

Next == (\E i \in NextCalls : Call(i)) \/ (\E l \in Labels : Label(l)) \/ Link

Spec == Init /\ [][Next]_vars

-----------------------------------------------------------------------------
(* The image *)

\* build_long_mode_kernel: header, trampoline, page tables, GDT, stub, program.
KernelStart ==
  LET tables == AlignUp(\h100000 + 84 + 12 + 63, 4096)
      gdt    == AlignUp(tables + 3 * 4096 + 6, 8)
      stub   == AlignUp(gdt + 40, 16)
  IN AlignUp(stub + 32, 16)

CodeAddress ==
  IF options.baremetal THEN KernelStart
  ELSE IF options.wx /\ ~ options.debug THEN LoadVaddr + WxCodeOffset
  ELSE LoadVaddr + 64 + 56

DataAddress ==
  IF options.wx /\ ~ options.baremetal /\ ~ options.debug THEN LoadVaddr + WxDataOffset(Len(code))
  ELSE CodeAddress + Len(code)

-----------------------------------------------------------------------------
(* What the processor sees *)

Walk(bytes) ==
  LET from[k \in 1 .. Len(bytes) + 16] ==
        IF k > Len(bytes) THEN <<>>
        ELSE LET d == Decode(SubSeq(bytes, k, Len(bytes)) \o [j \in 1 .. 16 |-> 0])
             IN <<[at |-> k - 1, next |-> k - 1 + d.len, insn |-> d.insn]>> \o from[k + d.len]
  IN from[1]

\* The instructions the calls stand for, each with its reference.
Wanted(item) ==
  IF item.kind = "label" THEN <<>>
  ELSE [k \in DOMAIN Meaning(item.call) |-> [insn |-> Meaning(item.call)[k], ref |-> item.call.ref]]

AllWanted(items) == FlattenSeq([k \in DOMAIN items |-> Wanted(items[k])])

\* The distance in the last operand of a branch or of an address.
Rel(insn) == LET a == insn.args[Len(insn.args)] IN IF IsMem(a) THEN a[4] ELSE a[1]

SameInstruction(seen, wanted) ==
  IF wanted.ref = "" THEN seen.insn = wanted.insn
  ELSE /\ seen.insn.op = wanted.insn.op /\ seen.insn.imm = wanted.insn.imm
       /\ Front(seen.insn.args) = wanted.insn.args

Seen == Walk(code)

\* Where a label stands, counted in instructions and not in the bytes that
\* label() recorded.
PlaceOf(l) ==
  LET k == CHOOSE k \in DOMAIN program : program[k] = LabelItem(l)
      before == Len(AllWanted(SubSeq(program, 1, k - 1)))
  IN IF before = Len(Seen) THEN Len(code) ELSE Seen[before + 1].at

AddressOf(n) ==
  IF n \in DOMAIN layout THEN DataAddress + layout[n] ELSE CodeAddress + PlaceOf(n)

PagesOf(from, size) == IF size = 0 THEN {} ELSE (from \div Page) .. ((from + size - 1) \div Page)

-----------------------------------------------------------------------------
(* Properties *)

\* What the processor reads is what was asked for: decoded from the first byte,
\* before and after linking, the code is the sequence of the documented
\* meanings of the calls, with the same operands, and nothing more or less.
Disassembles ==
  LET wanted == AllWanted(program)
      seen == Seen
  IN phase # "refused" =>
       /\ Len(seen) = Len(wanted)
       /\ \A k \in DOMAIN wanted : SameInstruction(seen[k], wanted[k])

\* In the loaded image every branch goes to the instruction its label stands
\* before, and every address taken of a declaration is where its data is.
ReferencesReach ==
  LET wanted == AllWanted(program)
  IN phase = "linked" =>
       \A k \in DOMAIN wanted :
         wanted[k].ref # "" =>
           CodeAddress + Seen[k].next + Rel(Seen[k].insn) = AddressOf(wanted[k].ref)

\* Whatever the bytes decode to: in the loaded image the four bytes of every
\* fixup, read as a processor reads them, lead from the end of the field to
\* the place that label() or the data layout recorded for its target.
FixupsReach ==
  phase = "linked" =>
    \A k \in DOMAIN relocs :
      LET r == relocs[k]
      IN CodeAddress + r.offset + 4 + Number(code, r.offset + 1, 4) =
           IF r.target \in DOMAIN layout THEN DataAddress + layout[r.target] ELSE CodeAddress + labels[r.target]

\* link() touches nothing but the fields of the fixups.
LinkKeepsTheRest ==
  [][phase' = "linked" =>
       /\ DOMAIN code' = DOMAIN code
       /\ \A k \in DOMAIN code : (\A j \in DOMAIN relocs : k \notin Field(relocs[j])) => code'[k] = code[k]]_vars

\* With --wx no page is both in the executable and in the writable segment.
SegmentsApart ==
  options.wx => PagesOf(CodeAddress, Len(code)) \cap PagesOf(DataAddress, dataSize) = {}

\* pext_reg_reg's docstring, "pext r64, r64, r/m64 - dst = pext(src, mask)": the
\* method for a bit-field instruction emits that instruction.
BitFieldsAsDocumented ==
  \A k \in DOMAIN program :
    program[k].kind = "call" /\ program[k].call.op \in {"pext", "pdep"} =>
      Seen[k].insn = Meaning(program[k].call)[1]
=============================================================================
