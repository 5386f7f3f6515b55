--------------------------- MODULE Assembler_proofs ---------------------------
(***************************************************************************)
(* What holds of the assembler object for every set of calls, every data   *)
(* section and every page size: every fixup leads where its label or its   *)
(* declaration is in the loaded image, linking touches nothing else, and   *)
(* the two segments of --wx share no page.                                 *)
(***************************************************************************)
EXTENDS Assembler, SequenceTheorems, WellFoundedInduction, TLAPS

-----------------------------------------------------------------------------
(* Induction over the numbers, for a set of them.                          *)

LEMMA SetInduction ==
  ASSUME NEW S, 0 \in S, \A n \in Nat : n \in S => n + 1 \in S
  PROVE  Nat \subseteq S
<1> DEFINE R == OpToRel(<, Nat)  T == Nat \ S
<1>1. SUFFICES ASSUME T # {} PROVE FALSE
  OBVIOUS
<1>2. IsWellFoundedOn(R, Nat)
  BY NatLessThanWellFounded
<1>3. \A x, y \in Nat : x < y => <<x, y>> \in R
  BY DEF OpToRel
<1>4. T \subseteq Nat
  OBVIOUS
<1> HIDE DEF R
<1>5. PICK x \in T : \A y \in T : ~ (<<y, x>> \in R)
  <2> HIDE DEF T
  <2> QED BY <1>1, <1>2, <1>4, WFMin
<1>6. x # 0 /\ x - 1 \in Nat /\ x - 1 < x
  OBVIOUS
<1>7. x - 1 \in S
  BY <1>3, <1>5, <1>6
<1> QED BY <1>6, <1>7

-----------------------------------------------------------------------------
(* A loop over L steps: its states, one after another.                     *)

IsRun(f, base, step, L) == f[0] = base /\ \A n \in 1 .. L : f[n] = step[n][f[n - 1]]

LEMMA LoopRuns ==
  ASSUME NEW X, NEW base \in X, NEW L \in Nat, NEW step \in [1 .. L -> [X -> X]]
  PROVE  \E f \in [0 .. L -> X] : IsRun(f, base, step, L)
<1> DEFINE S == {n \in Nat : n <= L => \E f \in [0 .. n -> X] : IsRun(f, base, step, n)}
<1>1. 0 \in S
  <2>1. [m \in 0 .. 0 |-> base] \in [0 .. 0 -> X] /\ IsRun([m \in 0 .. 0 |-> base], base, step, 0)
    BY DEF IsRun
  <2> QED BY <2>1
<1>2. ASSUME NEW n \in Nat, n \in S PROVE n + 1 \in S
  <2>1. SUFFICES ASSUME n + 1 <= L PROVE \E f \in [0 .. n + 1 -> X] : IsRun(f, base, step, n + 1)
    OBVIOUS
  <2>2. PICK f \in [0 .. n -> X] : IsRun(f, base, step, n)
    BY <1>2, <2>1
  <2> DEFINE g == [m \in 0 .. n + 1 |-> IF m = n + 1 THEN step[n + 1][f[n]] ELSE f[m]]
  <2>3. step[n + 1] \in [X -> X] /\ f[n] \in X
    BY <2>1
  <2>4. g \in [0 .. n + 1 -> X]
    BY <2>3
  <2>5. g[0] = base
    BY <2>2 DEF IsRun
  <2>6. ASSUME NEW m \in 1 .. n + 1 PROVE g[m] = step[m][g[m - 1]]
    <3>1. m - 1 \in 0 .. n /\ g[m - 1] = f[m - 1]
      OBVIOUS
    <3>2. CASE m = n + 1
      BY <3>1, <3>2
    <3>3. CASE m # n + 1
      <4>1. m \in 1 .. n /\ g[m] = f[m]
        BY <3>3
      <4> HIDE DEF g
      <4> QED BY <2>2, <3>1, <4>1 DEF IsRun
    <3> QED BY <3>2, <3>3
  <2> HIDE DEF g
  <2>7. IsRun(g, base, step, n + 1)
    BY <2>5, <2>6 DEF IsRun
  <2> QED BY <2>4, <2>7
<1>3. L \in S
  <2> HIDE DEF S
  <2> QED BY <1>1, <1>2, SetInduction
<1> QED BY <1>3

-----------------------------------------------------------------------------
(* Numbers.                                                                *)

\* The four bytes of a number that fits, read back.
LEMMA LowByte ==
  ASSUME NEW d \in Int
  PROVE  d \div 256 \in Int /\ d % 256 \in Int /\ d = 256 * (d \div 256) + (d % 256)
OBVIOUS

\* The four bytes of a number that fits, read back.
LEMMA FieldReadsBack ==
  ASSUME NEW d, d \in Int, FitsInField(d), NEW c, NEW o, \A j \in 1 .. 4 : c[o + j] = Bytes(d, 4)[j], o \in Nat
  PROVE  Number(c, o + 1, 4) = d
<1>1. /\ c[o + 1] = d % 256 /\ c[o + 2] = (d \div 256) % 256
      /\ c[o + 3] = (d \div 65536) % 256 /\ c[o + 4] = (d \div 16777216) % 256
  BY DEF Bytes, ByteWorth
<1> DEFINE a == d \div 256  b == d \div 65536  e == d \div 16777216
<1>2. a \in Int /\ b \in Int /\ e \in Int
  OBVIOUS
<1>3. b = a \div 256 /\ e = b \div 256
  OBVIOUS
<1>4. d = 256 * a + (d % 256) /\ a = 256 * b + (a % 256) /\ b = 256 * e + (b % 256)
  <2>1. d = 256 * a + (d % 256)
    BY LowByte
  <2> HIDE DEF a, b, e
  <2> QED BY <1>2, <1>3, <2>1, LowByte
<1>5. -128 <= e /\ e <= 127
  BY DEF FitsInField
<1>6. Signed(e % 256) = e
  <2> HIDE DEF e
  <2>1. CASE e >= 0
    BY <1>2, <1>5, <2>1 DEF Signed
  <2>2. CASE e < 0
    <3>1. e % 256 = e + 256
      BY <1>2, <1>5, <2>2
    <3> QED BY <1>2, <1>5, <2>2, <3>1 DEF Signed
  <2> QED BY <1>2, <2>1, <2>2
<1>7. Number(c, o + 1, 4) = c[o + 1] + 256 * c[o + 2] + 65536 * c[o + 3] + 16777216 * Signed(c[o + 4])
  <2>1. o + 1 + 1 = o + 2 /\ o + 1 + 2 = o + 3 /\ o + 1 + 3 = o + 4 /\ 4 # 1
    OBVIOUS
  <2> QED BY <2>1 DEF Number
<1>8. /\ c[o + 1] = d % 256 /\ c[o + 2] = a % 256 /\ c[o + 3] = b % 256 /\ Signed(c[o + 4]) = e
  BY <1>1, <1>6
<1>9. d % 256 \in Int /\ a % 256 \in Int /\ b % 256 \in Int
  BY <1>2
<1> HIDE DEF a, b, e
<1> QED BY <1>2, <1>4, <1>7, <1>8, <1>9

LEMMA AlignParts ==
  ASSUME NEW n \in Nat, NEW a, a \in Nat \ {0}
  PROVE  /\ AlignUp(n, a) \in Nat /\ AlignUp(n, a) >= n
         /\ \E q \in Nat : AlignUp(n, a) = q * a
<1> DEFINE q == (n + a - 1) \div a
<1>1. q \in Nat /\ n + a - 1 = a * q + ((n + a - 1) % a) /\ (n + a - 1) % a \in 0 .. (a - 1)
  OBVIOUS
<1>2. q * a \in Nat /\ q * a = a * q
  BY <1>1
<1>3. AlignUp(n, a) = q * a
  BY DEF AlignUp
<1> HIDE DEF q
<1>4. q * a >= n
  BY <1>1, <1>2
<1> QED BY <1>1, <1>2, <1>3, <1>4
-----------------------------------------------------------------------------
(* The data section.                                                       *)

Declarations ==
  [kind : {"alloc"}, name : STRING, size : Nat] \cup [kind : {"align"}, name : STRING, size : Nat \ {0}]

\* What the loop over the declarations carries: names with places, and a size.
Laid == [layout : UNION {[D -> Nat] : D \in SUBSET STRING}, off : Nat]

LEMMA DeclareLays ==
  ASSUME NEW d \in Declarations, NEW acc \in Laid
  PROVE  Declare(d, acc) \in Laid
<1>1. acc = [layout |-> acc.layout, off |-> acc.off] /\ acc.off \in Nat
  BY DEF Laid
<1>2. PICK D \in SUBSET STRING : acc.layout \in [D -> Nat]
  BY DEF Laid
<1>3. CASE d.kind = "align"
  <2>1. d.size \in Nat \ {0}
    BY <1>3 DEF Declarations
  <2>2. acc.off + ((d.size - (acc.off % d.size)) % d.size) \in Nat
    BY <1>1, <2>1
  <2> QED BY <1>1, <1>2, <1>3, <2>2 DEF Declare, Laid
<1>4. CASE d.kind # "align"
  <2>1. d.size \in Nat /\ d.name \in STRING
    BY <1>4 DEF Declarations
  <2>2. With(acc.layout, d.name, acc.off) \in [D \cup {d.name} -> Nat]
    BY <1>1, <1>2 DEF With
  <2>3. D \cup {d.name} \in SUBSET STRING
    BY <2>1
  <2>4. Declare(d, acc) = [layout |-> With(acc.layout, d.name, acc.off), off |-> acc.off + d.size]
    BY <1>4 DEF Declare
  <2> QED BY <1>1, <2>1, <2>2, <2>3, <2>4 DEF Laid
<1> QED BY <1>3, <1>4

LEMMA DataIsLaid ==
  ASSUME NEW ds \in Seq(Declarations)
  PROVE  CollectData(ds) \in Laid
<1> DEFINE empty == [layout |-> << >>, off |-> 0]
           L == Len(ds)
           step == [n \in 1 .. L |-> [acc \in Laid |-> Declare(ds[n], acc)]]
           upTo == CHOOSE f : f = [n \in 0 .. L |-> IF n = 0 THEN empty ELSE Declare(ds[n], f[n - 1])]
<1>1. empty \in Laid
  <2>1. << >> \in [{} -> Nat] /\ {} \in SUBSET STRING
    OBVIOUS
  <2> QED BY <2>1 DEF Laid
<1>2. L \in Nat /\ \A n \in 1 .. L : ds[n] \in Declarations
  OBVIOUS
<1>3. step \in [1 .. L -> [Laid -> Laid]]
  BY <1>2, DeclareLays
<1>4. PICK f \in [0 .. L -> Laid] : IsRun(f, empty, step, L)
  <2> HIDE DEF empty, step, L
  <2> QED BY <1>1, <1>2, <1>3, LoopRuns
<1>5. f = [n \in 0 .. L |-> IF n = 0 THEN empty ELSE Declare(ds[n], f[n - 1])]
  <2>1. ASSUME NEW n \in 1 .. L PROVE f[n] = Declare(ds[n], f[n - 1])
    BY <1>2, <1>4, <2>1 DEF IsRun
  <2> HIDE DEF empty, step
  <2>2. f[0] = empty
    BY <1>4 DEF IsRun
  <2> QED BY <1>2, <2>1, <2>2
<1>6. upTo = [n \in 0 .. L |-> IF n = 0 THEN empty ELSE Declare(ds[n], upTo[n - 1])]
  BY <1>5
<1> HIDE DEF upTo, step
<1> DEFINE S == {n \in Nat : n <= L => upTo[n] \in Laid}
<1>7. 0 \in S
  <2> HIDE DEF empty
  <2> QED BY <1>1, <1>2, <1>6
<1>8. ASSUME NEW n \in Nat, n \in S PROVE n + 1 \in S
  <2> SUFFICES ASSUME n + 1 <= L PROVE upTo[n + 1] \in Laid
    OBVIOUS
  <2>1. upTo[n + 1] = Declare(ds[n + 1], upTo[n])
    <3> HIDE DEF empty
    <3> QED BY <1>2, <1>6
  <2> QED BY <1>2, <1>8, <2>1, DeclareLays
<1>9. upTo[L] \in Laid
  <2>1. L \in S
    <3> HIDE DEF S
    <3> QED BY <1>2, <1>7, <1>8, SetInduction
  <2> QED BY <1>2, <2>1
<1> QED BY <1>9 DEF CollectData, upTo
-----------------------------------------------------------------------------
(* The assembler object while a program is built.                          *)

Targets == {i.ref : i \in Calls \cup Few}
Reloc == [offset : Nat, target : Targets]

\* The code is bytes, a label stands somewhere, and the fixups are fields of
\* four bytes, one behind the other.
Emitted ==
  /\ options \in Options
  /\ layout \in UNION {[D -> Nat] : D \in SUBSET STRING} /\ dataSize \in Nat
  /\ code \in Seq(Byte)
  /\ \A l \in DOMAIN labels : labels[l] \in Nat
  /\ relocs \in Seq(Reloc)
  /\ \A k \in 1 .. Len(relocs) : relocs[k].offset + 4 <= Len(code)
  /\ \A j, k \in 1 .. Len(relocs) : j < k => relocs[j].offset + 4 <= relocs[k].offset
  /\ phase \in {"emitting", "linked", "refused"}

\* In a linked program every field holds its distance, and the distance fits.
Filled ==
  phase = "linked" =>
    \A k \in 1 .. Len(relocs) :
      /\ relocs[k].target \in DOMAIN Offsets
      /\ FitsInField(Distance(relocs[k]))
      /\ \A j \in 1 .. 4 : code[relocs[k].offset + j] = Bytes(Distance(relocs[k]), 4)[j]

Assembled == Emitted /\ Filled

LEMMA ShortSequences ==
  ASSUME NEW S, NEW a \in S, NEW b \in S, NEW c \in S, NEW d \in S
  PROVE  /\ <<a>> \in Seq(S) /\ <<a, b>> \in Seq(S) /\ <<a, b, c>> \in Seq(S)
         /\ <<a, b, c, d>> \in Seq(S) /\ Len(<<a, b, c, d>>) = 4
OBVIOUS

LEMMA FourMore ==
  ASSUME NEW S, NEW s \in Seq(S), NEW a \in S, NEW b \in S, NEW c \in S, NEW d \in S
  PROVE  Len(s \o <<a, b, c, d>>) >= 4
<1>1. <<a, b, c, d>> \in Seq(S) /\ Len(<<a, b, c, d>>) = 4
  BY ShortSequences
<1> DEFINE t == <<a, b, c, d>>
<1> HIDE DEF t
<1>2. Len(s) \in Nat /\ Len(s \o t) = Len(s) + Len(t)
  BY <1>1, ConcatProperties, LenProperties
<1> QED BY <1>1, <1>2 DEF t

\* A method that refers to a label ends with the four bytes of a fixup.
RefersToLabel(i) == i.op \in {"jmp", "call", "j", "lea"}

LEMMA ReferenceEnds ==
  ASSUME NEW i, RefersToLabel(i)
  PROVE  Len(Reference(i)) >= 4
<1> DEFINE jmp == \hE9  call == \hE8  two == \h0F  lea == \h8D
           jcc == JccOpcode[i.cond]
           rex == Rex(1, Hi(i.args[1][1]), 0, 0)
           modrm == ModRM(0, i.args[1][1], 5)
           S == {0, jmp, call, two, lea, jcc, rex, modrm}
<1>1. \/ Reference(i) = <<jmp>> \o Fixup
      \/ Reference(i) = <<call>> \o Fixup
      \/ Reference(i) = <<two, jcc>> \o Fixup
      \/ Reference(i) = <<rex, lea, modrm>> \o Fixup
  <2> HIDE DEF jmp, call, two, lea, jcc, rex, modrm
  <2>1. CASE i.op = "jmp"
    BY <2>1 DEF Reference, jmp
  <2>2. CASE i.op = "call"
    BY <2>2 DEF Reference, call
  <2>3. CASE i.op = "j"
    BY <2>3 DEF Reference, two, jcc
  <2>4. CASE i.op = "lea"
    BY <2>4 DEF Reference, lea, rex, modrm
  <2> QED BY <2>1, <2>2, <2>3, <2>4 DEF RefersToLabel
<1> HIDE DEF jmp, call, two, lea, jcc, rex, modrm
<1>2. /\ 0 \in S /\ jmp \in S /\ call \in S /\ two \in S /\ lea \in S
      /\ jcc \in S /\ rex \in S /\ modrm \in S
  OBVIOUS
<1> HIDE DEF S
<1>3. /\ <<jmp>> \in Seq(S) /\ <<call>> \in Seq(S) /\ <<two, jcc>> \in Seq(S)
      /\ <<rex, lea, modrm>> \in Seq(S)
  BY <1>2, ShortSequences
<1>4. ASSUME NEW s \in Seq(S) PROVE Len(s \o Fixup) >= 4
  BY <1>2, FourMore DEF Fixup
<1> QED BY <1>1, <1>3, <1>4

LEMMA InitAssembles == Init => Assembled
<1> SUFFICES ASSUME Init PROVE Assembled
  OBVIOUS
<1>1. decls \in Seq(Declarations)
  BY AssemblerAssumption DEF Init, Declarations
<1>2. CollectData(decls) \in Laid
  BY <1>1, DataIsLaid
<1>3. layout \in UNION {[D -> Nat] : D \in SUBSET STRING} /\ dataSize \in Nat
  BY <1>2 DEF Init, Laid
<1> QED BY <1>3 DEF Init, Assembled, Emitted, Filled

LEMMA CallEmits ==
  ASSUME Assembled, NEW i \in NextCalls, Call(i)
  PROVE  Assembled'
<1>1. i \in Calls \cup Few
  BY DEF NextCalls
<1>2. CASE Refuses(i)
  BY <1>2 DEF Call, Refuse, Assembled, Emitted, Filled
<1>3. CASE ~ Refuses(i)
  <2> DEFINE bytes == Encode(i, options.deterministic)  new == Fixups(i, bytes)
  <2>1. bytes \in Seq(Byte)
    BY <1>1, <1>3, AssemblerAssumption DEF Assembled, Emitted
  <2>2. i.ref # "" => Len(bytes) >= 4
    <3> SUFFICES ASSUME i.ref # "" PROVE Len(bytes) >= 4
      OBVIOUS
    <3>1. bytes = Reference(i)
      BY DEF Encode
    <3>2. RefersToLabel(i)
      BY <1>1, AssemblerAssumption DEF RefersToLabel
    <3> HIDE DEF bytes
    <3>3. Len(Reference(i)) >= 4
      BY <3>2, ReferenceEnds
    <3> QED BY <3>1, <3>3, Zenon
  <2>3. /\ relocs' = relocs \o new /\ code' = code \o bytes
        /\ UNCHANGED <<labels, layout, dataSize, options, phase>> /\ phase = "emitting"
    BY <1>3 DEF Call, MayAppend
  <2> HIDE DEF bytes
  <2>4. code' \in Seq(Byte) /\ Len(code') = Len(code) + Len(bytes) /\ Len(code) \in Nat /\ Len(bytes) \in Nat
    BY <2>1, <2>3 DEF Assembled, Emitted
  <2>5. CASE i.ref = ""
    <3>1. relocs' = relocs
      <4>1. new = << >>
        BY <2>5 DEF Fixups
      <4> HIDE DEF new
      <4> QED BY <2>3, <4>1, ConcatEmptySeq DEF Assembled, Emitted
    <3> HIDE DEF new
    <3>2. \A k \in 1 .. Len(relocs) : relocs[k].offset + 4 <= Len(code')
      <4>1. \A k \in 1 .. Len(relocs) : relocs[k] \in Reloc /\ relocs[k].offset + 4 <= Len(code)
        BY ElementOfSeq DEF Assembled, Emitted
      <4>2. \A x \in Reloc : x.offset \in Nat
        BY DEF Reloc
      <4> QED BY <2>4, <4>1, <4>2
    <3> QED BY <2>3, <2>4, <3>1, <3>2 DEF Assembled, Emitted, Filled
  <2>6. CASE i.ref # ""
    <3> DEFINE r == [offset |-> Len(code) + Len(bytes) - 4, target |-> i.ref]
    <3>1. r \in Reloc /\ r.offset = Len(code) + Len(bytes) - 4 /\ r.offset >= Len(code)
      <4>1. i.ref \in Targets
        BY <1>1 DEF Targets
      <4>2. Len(code) + Len(bytes) - 4 \in Nat /\ Len(code) + Len(bytes) - 4 >= Len(code)
        <5>1. Len(bytes) >= 4
          BY <2>2, <2>6
        <5> HIDE DEF r, new
        <5> QED BY <2>4, <5>1
      <4> QED BY <4>1, <4>2 DEF Reloc
    <3>2. relocs' = relocs \o <<r>>
      BY <2>3, <2>6 DEF Fixups
    <3> HIDE DEF r
    <3>3. /\ relocs' \in Seq(Reloc) /\ Len(relocs') = Len(relocs) + 1 /\ Len(relocs) \in Nat
          /\ \A k \in 1 .. Len(relocs) : relocs'[k] = relocs[k] /\ relocs[k] \in Reloc
          /\ relocs'[Len(relocs) + 1] = r
      BY <3>1, <3>2 DEF Assembled, Emitted
    <3>4. \A k \in 1 .. Len(relocs) : relocs[k].offset \in Nat /\ relocs[k].offset + 4 <= Len(code)
      BY <3>3 DEF Reloc, Assembled, Emitted
    <3>5. \A k \in 1 .. Len(relocs') : relocs'[k].offset + 4 <= Len(code')
      <4> TAKE k \in 1 .. Len(relocs')
      <4>1. CASE k = Len(relocs) + 1
        BY <2>4, <3>1, <3>3, <4>1
      <4>2. CASE k # Len(relocs) + 1
        <5>1. k \in 1 .. Len(relocs)
          BY <3>3, <4>2
        <5> QED BY <2>4, <3>3, <3>4, <5>1
      <4> QED BY <4>1, <4>2
    <3>6. \A j, k \in 1 .. Len(relocs') : j < k => relocs'[j].offset + 4 <= relocs'[k].offset
      <4> SUFFICES ASSUME NEW j \in 1 .. Len(relocs'), NEW k \in 1 .. Len(relocs'), j < k
                   PROVE  relocs'[j].offset + 4 <= relocs'[k].offset
        OBVIOUS
      <4>1. j \in 1 .. Len(relocs) /\ relocs'[j] = relocs[j]
        BY <3>3
      <4>2. CASE k = Len(relocs) + 1
        BY <2>4, <3>1, <3>3, <3>4, <4>1, <4>2
      <4>3. CASE k # Len(relocs) + 1
        <5>1. k \in 1 .. Len(relocs) /\ relocs'[k] = relocs[k]
          BY <3>3, <4>3
        <5> QED BY <4>1, <5>1 DEF Assembled, Emitted
      <4> QED BY <4>2, <4>3
    <3> QED BY <2>3, <2>4, <3>3, <3>5, <3>6 DEF Assembled, Emitted, Filled
  <2> QED BY <2>5, <2>6
<1> QED BY <1>2, <1>3

LEMMA LabelEmits ==
  ASSUME Assembled, NEW l \in Labels, Label(l)
  PROVE  Assembled'
<1>1. CASE l \in DOMAIN labels
  BY <1>1 DEF Label, Refuse, Assembled, Emitted, Filled
<1>2. CASE l \notin DOMAIN labels
  <2>1. /\ labels' = With(labels, l, Len(code)) /\ Len(code) \in Nat
        /\ UNCHANGED <<code, relocs, layout, dataSize, options, phase>> /\ phase = "emitting"
    BY <1>2 DEF Label, MayAppend, Assembled, Emitted
  <2>2. \A n \in DOMAIN labels' : labels'[n] \in Nat
    BY <2>1 DEF With, Assembled, Emitted
  <2> QED BY <2>1, <2>2 DEF Assembled, Emitted, Filled
<1> QED BY <1>1, <1>2
-----------------------------------------------------------------------------
(* Linking.                                                                *)

LEMMA PageIsNumber == Page \in Nat \ {0} /\ LoadVaddr \in Nat /\ LoadVaddr % Page = 0
<1>1. LoadVaddr \in Nat
  BY SMT DEF LoadVaddr
<1> QED BY <1>1, AssemblerAssumption

LEMMA WxParts ==
  ASSUME NEW n \in Nat
  PROVE  /\ WxCodeOffset \in Nat /\ WxDataOffset(n) \in Nat
         /\ WxDataOffset(n) >= WxCodeOffset + n
         /\ \E q \in Nat : WxCodeOffset = q * Page
         /\ \E q \in Nat : WxDataOffset(n) = q * Page
<1>1. WxCodeOffset \in Nat /\ \E q \in Nat : WxCodeOffset = q * Page
  <2>1. 64 + 2 * 56 \in Nat
    OBVIOUS
  <2> QED BY <2>1, AlignParts, PageIsNumber DEF WxCodeOffset
<1>2. WxCodeOffset + n \in Nat
  BY <1>1
<1> QED BY <1>1, <1>2, AlignParts, PageIsNumber DEF WxDataOffset

LEMMA DistanceIsNumber ==
  ASSUME Emitted, NEW r \in Reloc, r.target \in DOMAIN Offsets
  PROVE  Distance(r) \in Int
<1>1. Len(code) \in Nat /\ r.offset \in Nat
  BY DEF Emitted, Reloc
<1>2. DataDistance \in Int
  <2>1. WxCodeOffset \in Nat /\ WxDataOffset(Len(code)) \in Nat
    BY <1>1, WxParts
  <2> QED BY <1>1, <2>1 DEF DataDistance
<1>3. \A n \in DOMAIN layout : layout[n] \in Nat
  BY DEF Emitted
<1>4. \A n \in DOMAIN labels : labels[n] \in Nat
  BY DEF Emitted
<1>5. Offsets[r.target] \in Int
  <2>1. r.target \in DOMAIN labels \cup DOMAIN layout
    BY DEF Offsets
  <2>2. Offsets[r.target] =
          IF r.target \in DOMAIN layout THEN DataDistance + layout[r.target] ELSE labels[r.target]
    BY <2>1 DEF Offsets
  <2>3. CASE r.target \in DOMAIN layout
    BY <1>2, <1>3, <2>2, <2>3
  <2>4. CASE r.target \notin DOMAIN layout
    BY <1>4, <2>1, <2>2, <2>4
  <2> QED BY <2>3, <2>4
<1> QED BY <1>1, <1>5 DEF Distance

LEMMA FillFills ==
  ASSUME Emitted, NEW r \in Reloc, Distance(r) \in Int, NEW bytes \in [1 .. Len(code) -> Byte],
         r.offset + 4 <= Len(code)
  PROVE  /\ Fill(r, bytes) \in [1 .. Len(code) -> Byte]
         /\ \A j \in 1 .. 4 : Fill(r, bytes)[r.offset + j] = Bytes(Distance(r), 4)[j]
         /\ \A k \in 1 .. Len(code) : k \notin Field(r) => Fill(r, bytes)[k] = bytes[k]
<1> DEFINE d == Distance(r)  N == Len(code)
<1>1. N \in Nat /\ r.offset \in Nat
  BY DEF Emitted, Reloc
<1> HIDE DEF d, N
<1>2. \A j \in 1 .. 4 : Bytes(d, 4)[j] \in Byte
  <2> TAKE j \in 1 .. 4
  <2>1. ByteWorth[j] \in Nat \ {0}
    <3>1. j = 1 \/ j = 2 \/ j = 3 \/ j = 4
      OBVIOUS
    <3> QED BY <3>1 DEF ByteWorth
  <2>2. Bytes(d, 4)[j] = (d \div ByteWorth[j]) % 256
    BY DEF Bytes
  <2>3. d \in Int
    BY DEF d
  <2>4. d \div ByteWorth[j] \in Int
    BY <2>1, <2>3
  <2>5. \A x \in Int : x % 256 \in Byte
    BY DEF Byte
  <2> QED BY <2>2, <2>4, <2>5
<1>3. DOMAIN bytes = 1 .. N
  BY DEF N
<1>4. Fill(r, bytes) = [k \in 1 .. N |-> IF k \in Field(r) THEN Bytes(d, 4)[k - r.offset] ELSE bytes[k]]
  BY <1>3 DEF Fill, d
<1>5. \A k \in Field(r) : k - r.offset \in 1 .. 4 /\ k \in 1 .. N
  BY <1>1 DEF Field, N
<1>6. \A j \in 1 .. 4 : r.offset + j \in Field(r) /\ r.offset + j - r.offset = j
  BY <1>1 DEF Field
<1>7. \A k \in 1 .. N : bytes[k] \in Byte
  BY DEF N
<1> HIDE DEF Bytes, Byte, Field
<1>8. Fill(r, bytes) \in [1 .. N -> Byte]
  BY <1>2, <1>4, <1>5, <1>7
<1>9. \A j \in 1 .. 4 : Fill(r, bytes)[r.offset + j] = Bytes(d, 4)[j]
  <2> TAKE j \in 1 .. 4
  <2> DEFINE k == r.offset + j
  <2>1. k \in Field(r) /\ k \in 1 .. N /\ k - r.offset = j
    <3>1. k \in Field(r) /\ k - r.offset = j
      BY <1>1 DEF Field
    <3> HIDE DEF k
    <3> QED BY <1>5, <3>1
  <2> HIDE DEF k
  <2>2. Fill(r, bytes)[k] = Bytes(d, 4)[j]
    BY <1>4, <2>1
  <2> QED BY <2>2 DEF k
<1>10. \A k \in 1 .. N : k \notin Field(r) => Fill(r, bytes)[k] = bytes[k]
  BY <1>4
<1> QED BY <1>8, <1>9, <1>10 DEF N, d

\* What the loop of link() has done after n fixups.
FilledUpTo(n, bytes) ==
  /\ bytes \in [1 .. Len(code) -> Byte]
  /\ \A m \in 1 .. n : \A j \in 1 .. 4 :
       bytes[relocs[m].offset + j] = Bytes(Distance(relocs[m]), 4)[j]
  /\ \A k \in 1 .. Len(code) : (\A m \in 1 .. n : k \notin Field(relocs[m])) => bytes[k] = code[k]

LEMMA FillNext ==
  ASSUME Emitted, \A m \in 1 .. Len(relocs) : relocs[m].target \in DOMAIN Offsets,
         NEW n \in Nat, n + 1 <= Len(relocs), NEW bytes, FilledUpTo(n, bytes)
  PROVE  FilledUpTo(n + 1, Fill(relocs[n + 1], bytes))
<1> DEFINE r == relocs[n + 1]  new == Fill(r, bytes)
<1>1. n + 1 \in 1 .. Len(relocs) /\ Len(relocs) \in Nat /\ Len(code) \in Nat
  BY DEF Emitted
<1>2. r \in Reloc /\ \A m \in 1 .. Len(relocs) : relocs[m] \in Reloc
  BY <1>1, ElementOfSeq DEF Emitted
<1>3. r.offset + 4 <= Len(code) /\ Distance(r) \in Int
  BY <1>1, <1>2, DistanceIsNumber DEF Emitted
<1>4. \A x \in Reloc : x.offset \in Nat
  BY DEF Reloc
<1>5. \A m \in 1 .. n : relocs[m] \in Reloc /\ relocs[m].offset + 4 <= r.offset
  BY <1>1, <1>2 DEF Emitted
<1> HIDE DEF r
<1>6. /\ new \in [1 .. Len(code) -> Byte]
      /\ \A j \in 1 .. 4 : new[r.offset + j] = Bytes(Distance(r), 4)[j]
      /\ \A k \in 1 .. Len(code) : k \notin Field(r) => new[k] = bytes[k]
  BY <1>2, <1>3, FillFills DEF FilledUpTo
<1> HIDE DEF new
<1>7. ASSUME NEW m \in 1 .. n + 1, NEW j \in 1 .. 4
      PROVE  new[relocs[m].offset + j] = Bytes(Distance(relocs[m]), 4)[j]
  <2>1. CASE m = n + 1
    BY <1>6, <2>1 DEF r
  <2>2. CASE m # n + 1
    <3>1. m \in 1 .. n
      BY <2>2
    <3>2. relocs[m].offset \in Nat /\ r.offset \in Nat /\ relocs[m].offset + 4 <= r.offset
      BY <1>2, <1>4, <1>5, <3>1
    <3>3. relocs[m].offset + j \in 1 .. Len(code) /\ relocs[m].offset + j \notin Field(r)
      <4>1. \A a, b, N \in Nat : a + 4 <= b /\ b + 4 <= N => a + j \in 1 .. N /\ a + j \notin b + 1 .. b + 4
        OBVIOUS
      <4> QED BY <1>1, <1>3, <3>2, <4>1 DEF Field
    <3> QED BY <1>6, <3>1, <3>3 DEF FilledUpTo
  <2> QED BY <2>1, <2>2
<1>8. ASSUME NEW k \in 1 .. Len(code), \A m \in 1 .. n + 1 : k \notin Field(relocs[m])
      PROVE  new[k] = code[k]
  <2>1. k \notin Field(r) /\ \A m \in 1 .. n : k \notin Field(relocs[m])
    BY <1>8 DEF r
  <2> QED BY <1>6, <2>1 DEF FilledUpTo
<1> QED BY <1>6, <1>7, <1>8 DEF FilledUpTo, new, r

LEMMA PatchedFills ==
  ASSUME Emitted, \A m \in 1 .. Len(relocs) : relocs[m].target \in DOMAIN Offsets
  PROVE  FilledUpTo(Len(relocs), Patched)
<1> DEFINE L == Len(relocs)
           X == [1 .. Len(code) -> Byte]
           step == [n \in 1 .. L |-> [b \in X |-> Fill(relocs[n], b)]]
           upTo == CHOOSE f : f = [n \in 0 .. L |-> IF n = 0 THEN code ELSE Fill(relocs[n], f[n - 1])]
<1>1. L \in Nat /\ code \in X
  BY LenProperties DEF Emitted
<1>2. \A n \in 1 .. L : \A b \in X : Fill(relocs[n], b) \in X
  <2> TAKE n \in 1 .. L
  <2> TAKE b \in X
  <2>1. relocs[n] \in Reloc /\ relocs[n].offset + 4 <= Len(code)
    BY ElementOfSeq DEF Emitted
  <2>2. Distance(relocs[n]) \in Int
    BY <2>1, DistanceIsNumber
  <2> QED BY <2>1, <2>2, FillFills
<1>3. step \in [1 .. L -> [X -> X]]
  <2> HIDE DEF X
  <2> QED BY <1>2
<1>4. PICK f \in [0 .. L -> X] : IsRun(f, code, step, L)
  <2> HIDE DEF L, X, step
  <2> QED BY <1>1, <1>3, LoopRuns
<1>5. f = [n \in 0 .. L |-> IF n = 0 THEN code ELSE Fill(relocs[n], f[n - 1])]
  <2> HIDE DEF X, L
  <2>1. ASSUME NEW n \in 1 .. L PROVE f[n] = Fill(relocs[n], f[n - 1])
    <3>1. f[n] = step[n][f[n - 1]]
      <4> HIDE DEF step
      <4> QED BY <1>4 DEF IsRun
    <3>2. f[n - 1] \in X
      BY <1>1
    <3> QED BY <3>1, <3>2
  <2> HIDE DEF step
  <2>2. f[0] = code
    BY <1>4 DEF IsRun
  <2> QED BY <1>1, <2>1, <2>2
<1>6. upTo = [n \in 0 .. L |-> IF n = 0 THEN code ELSE Fill(relocs[n], upTo[n - 1])]
  <2> HIDE DEF L
  <2> QED BY <1>5
<1> HIDE DEF upTo, step
<1> DEFINE S == {n \in Nat : n <= L => FilledUpTo(n, upTo[n])}
<1>7. 0 \in S
  <2>1. upTo[0] = code
    <3> HIDE DEF L
    <3> QED BY <1>1, <1>6
  <2>2. FilledUpTo(0, code)
    BY <1>1 DEF FilledUpTo
  <2> QED BY <2>1, <2>2
<1>8. ASSUME NEW n \in Nat, n \in S PROVE n + 1 \in S
  <2> SUFFICES ASSUME n + 1 <= L PROVE FilledUpTo(n + 1, upTo[n + 1])
    OBVIOUS
  <2>1. upTo[n + 1] = Fill(relocs[n + 1], upTo[n])
    <3> HIDE DEF L
    <3> QED BY <1>1, <1>6
  <2> QED BY <1>1, <1>8, <2>1, FillNext
<1>9. FilledUpTo(L, upTo[L])
  <2>1. L \in S
    <3> HIDE DEF S
    <3> QED BY <1>1, <1>7, <1>8, SetInduction
  <2> QED BY <1>1, <2>1
<1> QED BY <1>9 DEF Patched, upTo

LEMMA LinkFills ==
  ASSUME Assembled, Link
  PROVE  /\ Assembled'
         /\ phase' = "linked" => DOMAIN code' = DOMAIN code /\ FilledUpTo(Len(relocs), code')
<1> DEFINE refused ==
      \E k \in DOMAIN relocs :
        relocs[k].target \notin DOMAIN Offsets \/ ~ FitsInField(Distance(relocs[k]))
<1>1. CASE refused
  <2>1. phase' = "refused" /\ UNCHANGED <<code, labels, relocs, layout, dataSize, options>>
    BY <1>1 DEF Link, Refuse
  <2>2. Assembled'
    BY <2>1 DEF Assembled, Emitted, Filled
  <2> QED BY <2>1, <2>2
<1>2. CASE ~ refused
  <2>1. /\ code' = Patched /\ phase' = "linked"
        /\ UNCHANGED <<labels, relocs, layout, dataSize, options>>
    BY <1>2 DEF Link
  <2>2. /\ Emitted /\ DOMAIN relocs = 1 .. Len(relocs) /\ DOMAIN code = 1 .. Len(code)
        /\ Len(code) \in Nat /\ Len(relocs) \in Nat
    BY LenProperties DEF Assembled, Emitted
  <2>3. \A m \in 1 .. Len(relocs) : relocs[m].target \in DOMAIN Offsets /\ FitsInField(Distance(relocs[m]))
    BY <1>2, <2>2
  <2>4. FilledUpTo(Len(relocs), code')
    BY <2>1, <2>2, <2>3, PatchedFills
  <2>5. code' \in [1 .. Len(code) -> Byte]
    BY <2>4 DEF FilledUpTo
  <2>6. code' \in Seq(Byte) /\ Len(code') = Len(code) /\ DOMAIN code' = DOMAIN code
    BY <2>2, <2>5
  <2>7. Emitted'
    BY <2>1, <2>2, <2>6 DEF Emitted
  <2>8. DataDistance' = DataDistance
    BY <2>1, <2>6 DEF DataDistance
  <2>9. Offsets' = Offsets
    BY <2>1, <2>8 DEF Offsets
  <2>10. Filled'
    <3>1. \A m \in 1 .. Len(relocs) : Distance(relocs[m])' = Distance(relocs[m])
      BY <2>1, <2>9 DEF Distance
    <3> QED BY <2>1, <2>3, <2>4, <2>9, <3>1 DEF Filled, FilledUpTo
  <2> QED BY <2>1, <2>4, <2>6, <2>7, <2>10 DEF Assembled
<1> QED BY <1>1, <1>2

\* The object the assembler keeps is as it should be, whatever is called.
THEOREM AssemblerKeepsShape == Spec => []Assembled
<1>1. Init => Assembled
  BY InitAssembles
<1>2. Assembled /\ [Next]_vars => Assembled'
  <2> SUFFICES ASSUME Assembled, [Next]_vars PROVE Assembled'
    OBVIOUS
  <2>1. ASSUME NEW i \in NextCalls, Call(i) PROVE Assembled'
    BY <2>1, CallEmits
  <2>2. ASSUME NEW l \in Labels, Label(l) PROVE Assembled'
    BY <2>2, LabelEmits
  <2>3. CASE Link
    BY <2>3, LinkFills
  <2>4. CASE UNCHANGED vars
    BY <2>4 DEF vars, Assembled, Emitted, Filled, Offsets, DataDistance, Distance
  <2> QED BY <2>1, <2>2, <2>3, <2>4 DEF Next
<1> QED BY <1>1, <1>2, PTL DEF Spec

\* link() changes the four bytes of each fixup and nothing else.
THEOREM LinkKeeps == Spec => LinkKeepsTheRest
<1> DEFINE Kept ==
      phase' = "linked" =>
        /\ DOMAIN code' = DOMAIN code
        /\ \A k \in DOMAIN code : (\A j \in DOMAIN relocs : k \notin Field(relocs[j])) => code'[k] = code[k]
<1>1. Assembled /\ [Next]_vars => [Kept]_vars
  <2> SUFFICES ASSUME Assembled, Next, phase' = "linked" PROVE Kept
    OBVIOUS
  <2>1. ASSUME NEW i \in NextCalls, Call(i) PROVE FALSE
    BY <2>1 DEF Call, MayAppend, Refuse
  <2>2. ASSUME NEW l \in Labels, Label(l) PROVE FALSE
    BY <2>2 DEF Label, MayAppend, Refuse
  <2>3. Link
    BY <2>1, <2>2 DEF Next
  <2>4. DOMAIN code' = DOMAIN code /\ FilledUpTo(Len(relocs), code')
    BY <2>3, LinkFills
  <2>5. DOMAIN relocs = 1 .. Len(relocs) /\ DOMAIN code = 1 .. Len(code)
    BY LenProperties DEF Assembled, Emitted
  <2> QED BY <2>4, <2>5 DEF FilledUpTo
<1> QED BY <1>1, AssemblerKeepsShape, PTL DEF Spec, LinkKeepsTheRest
-----------------------------------------------------------------------------
(* The image.                                                              *)

\* The linker allows for a padding that only one of the writers inserts: --wx
\* goes neither with -g nor with a program for the bare machine.
Consistent == \A o \in Options : o.wx => ~ o.debug /\ ~ o.baremetal

LEMMA QuotientBelow ==
  ASSUME NEW a, a \in Nat \ {0}, NEW q \in Nat, NEW x \in Nat, x < q * a
  PROVE  x \div a \in Nat /\ x \div a < q
<1> DEFINE m == x \div a
<1>1. m \in Nat /\ x = a * m + (x % a) /\ x % a \in 0 .. (a - 1)
  OBVIOUS
<1> HIDE DEF m
<1>2. CASE m >= q
  <2>1. PICK k \in Nat : m = q + k
    BY <1>1, <1>2
  <2>2. a * m = q * a + a * k /\ a * k \in Nat /\ q * a \in Nat /\ a * m \in Nat
    BY <2>1
  <2>3. x >= q * a
    BY <1>1, <2>2
  <2>4. q * a \in Int
    BY <2>2
  <2> QED BY <2>3, <2>4
<1> QED BY <1>1, <1>2 DEF m

LEMMA QuotientExact ==
  ASSUME NEW a, a \in Nat \ {0}, NEW q \in Nat, NEW n \in Nat, n = q * a
  PROVE  n \div a = q
<1> DEFINE m == n \div a
<1>1. m \in Nat /\ n = a * m + (n % a) /\ n % a \in 0 .. (a - 1)
  OBVIOUS
<1> HIDE DEF m
<1>2. CASE m > q
  <2>1. PICK k \in Nat \ {0} : m = q + k
    BY <1>1, <1>2
  <2>2. a * m = q * a + a * k /\ a * k \in Nat \ {0} /\ q * a \in Nat /\ a * m \in Nat
    BY <2>1
  <2> QED BY <1>1, <2>2
<1>3. CASE m < q
  <2>1. PICK k \in Nat : q = m + 1 + k
    BY <1>1, <1>3
  <2>2. q * a = a * m + a + a * k /\ a * k \in Nat /\ q * a \in Nat /\ a * m \in Nat
    BY <1>1, <2>1
  <2> QED BY <1>1, <2>2
<1> QED BY <1>1, <1>2, <1>3 DEF m

LEMMA CodeAddressIsNumber == CodeAddress \in Nat
<1>1. KernelStart \in Nat
  <2> DEFINE tables == AlignUp(\h100000 + 84 + 12 + 63, 4096)
             gdt == AlignUp(tables + 3 * 4096 + 6, 8)
             stub == AlignUp(gdt + 40, 16)
  <2>1. tables \in Nat
    <3>1. \h100000 + 84 + 12 + 63 \in Nat /\ 4096 \in Nat \ {0}
      BY SMT
    <3> QED BY <3>1, AlignParts
  <2>2. gdt \in Nat
    <3>1. tables + 3 * 4096 + 6 \in Nat /\ 8 \in Nat \ {0}
      BY <2>1, SMT
    <3> QED BY <3>1, AlignParts
  <2>3. stub \in Nat
    <3>1. gdt + 40 \in Nat /\ 16 \in Nat \ {0}
      BY <2>2, SMT
    <3> QED BY <3>1, AlignParts
  <2>4. stub + 32 \in Nat /\ 16 \in Nat \ {0}
    BY <2>3, SMT
  <2>5. AlignUp(stub + 32, 16) \in Nat
    BY <2>4, AlignParts
  <2> QED BY <2>5 DEF KernelStart
<1>2. LoadVaddr + WxCodeOffset \in Nat /\ LoadVaddr + 64 + 56 \in Nat
  <2>1. WxCodeOffset \in Nat
    BY WxParts
  <2> QED BY <2>1, PageIsNumber
<1> QED BY <1>1, <1>2 DEF CodeAddress

\* Where the linker and the writers put the data is the same place.
LEMMA WritersAgree ==
  ASSUME Assembled, Consistent
  PROVE  DataAddress = CodeAddress + DataDistance /\ DataDistance \in Int
<1>1. Len(code) \in Nat /\ options \in Options
  BY DEF Assembled, Emitted
<1>2. /\ WxCodeOffset \in Nat /\ WxDataOffset(Len(code)) \in Nat
      /\ LoadVaddr \in Nat /\ CodeAddress \in Nat
  BY <1>1, WxParts, PageIsNumber, CodeAddressIsNumber
<1>3. CASE options.wx
  <2>1. ~ options.debug /\ ~ options.baremetal
    BY <1>1, <1>3 DEF Consistent
  <2>2. /\ CodeAddress = LoadVaddr + WxCodeOffset
        /\ DataAddress = LoadVaddr + WxDataOffset(Len(code))
        /\ DataDistance = WxDataOffset(Len(code)) - WxCodeOffset
    BY <1>3, <2>1 DEF CodeAddress, DataAddress, DataDistance
  <2> QED BY <1>2, <2>2
<1>4. CASE ~ options.wx
  BY <1>1, <1>2, <1>4 DEF DataAddress, DataDistance
<1> QED BY <1>3, <1>4

LEMMA FixupsArrive ==
  ASSUME Assembled, Consistent
  PROVE  FixupsReach
<1> SUFFICES ASSUME phase = "linked", NEW k \in DOMAIN relocs
             PROVE  CodeAddress + relocs[k].offset + 4 + Number(code, relocs[k].offset + 1, 4) =
                      IF relocs[k].target \in DOMAIN layout
                      THEN DataAddress + layout[relocs[k].target]
                      ELSE CodeAddress + labels[relocs[k].target]
  BY DEF FixupsReach
<1> DEFINE r == relocs[k]
<1>1. k \in 1 .. Len(relocs) /\ r \in Reloc
  BY ElementOfSeq, LenProperties DEF Assembled, Emitted
<1>2. r.offset \in Nat
  BY <1>1 DEF Reloc
<1>3. /\ r.target \in DOMAIN Offsets /\ FitsInField(Distance(r))
      /\ \A j \in 1 .. 4 : code[r.offset + j] = Bytes(Distance(r), 4)[j]
  BY <1>1 DEF Assembled, Filled
<1>4. Distance(r) \in Int
  BY <1>1, <1>3, DistanceIsNumber DEF Assembled
<1> HIDE DEF r
<1>5. Number(code, r.offset + 1, 4) = Distance(r)
  BY <1>2, <1>3, <1>4, FieldReadsBack
<1>6. Distance(r) = Offsets[r.target] - (r.offset + 4)
  BY DEF Distance
<1>7. r.target \in DOMAIN labels \cup DOMAIN layout
  BY <1>3 DEF Offsets
<1>8. Offsets[r.target] =
        IF r.target \in DOMAIN layout THEN DataDistance + layout[r.target] ELSE labels[r.target]
  BY <1>7 DEF Offsets
<1>9. CodeAddress \in Nat /\ DataAddress = CodeAddress + DataDistance /\ DataDistance \in Int
  BY CodeAddressIsNumber, WritersAgree
<1>10. /\ \A n \in DOMAIN layout : layout[n] \in Nat
       /\ \A n \in DOMAIN labels : labels[n] \in Nat
  BY DEF Assembled, Emitted
<1>11. CASE r.target \in DOMAIN layout
  <2>1. layout[r.target] \in Nat /\ Offsets[r.target] = DataDistance + layout[r.target]
    BY <1>8, <1>10, <1>11
  <2>2. CodeAddress + r.offset + 4 + Number(code, r.offset + 1, 4) = DataAddress + layout[r.target]
    BY <1>2, <1>5, <1>6, <1>9, <2>1
  <2> QED BY <1>11, <2>2 DEF r
<1>12. CASE r.target \notin DOMAIN layout
  <2>1. labels[r.target] \in Nat /\ Offsets[r.target] = labels[r.target]
    BY <1>7, <1>8, <1>10, <1>12
  <2>2. CodeAddress + r.offset + 4 + Number(code, r.offset + 1, 4) = CodeAddress + labels[r.target]
    BY <1>2, <1>5, <1>6, <1>9, <2>1
  <2> QED BY <1>12, <2>2 DEF r
<1> QED BY <1>11, <1>12

\* In a linked program every fixup leads to its label or its declaration.
THEOREM FixupsReached ==
  ASSUME Consistent
  PROVE  Spec => []FixupsReach
<1>1. Assembled => FixupsReach
  BY FixupsArrive
<1> QED BY <1>1, AssemblerKeepsShape, PTL

LEMMA PagesApart ==
  ASSUME Assembled, Consistent
  PROVE  SegmentsApart
<1> DEFINE C == CodeAddress  D == DataAddress  n == Len(code)
<1> SUFFICES ASSUME options.wx PROVE PagesOf(C, n) \cap PagesOf(D, dataSize) = {}
  BY DEF SegmentsApart
<1>1. n \in Nat /\ options \in Options /\ dataSize \in Nat
  BY DEF Assembled, Emitted
<1>2. ~ options.debug /\ ~ options.baremetal
  BY <1>1 DEF Consistent
<1>3. C = LoadVaddr + WxCodeOffset /\ D = LoadVaddr + WxDataOffset(n)
  BY <1>2 DEF CodeAddress, DataAddress
<1> HIDE DEF C, D, n
<1>4. PICK q \in Nat : WxDataOffset(n) = q * Page
  BY <1>1, WxParts
<1>5. PICK l \in Nat : LoadVaddr = l * Page
  <2>1. LoadVaddr = Page * (LoadVaddr \div Page) + (LoadVaddr % Page) /\ LoadVaddr \div Page \in Nat
    BY PageIsNumber
  <2>2. Page * (LoadVaddr \div Page) \in Nat
    BY <2>1, PageIsNumber
  <2> QED BY <2>1, <2>2, PageIsNumber
<1>6. D = (l + q) * Page /\ l + q \in Nat /\ D \in Nat
  BY <1>3, <1>4, <1>5, PageIsNumber
<1>7. C \in Nat /\ D >= C + n
  <2>1. WxCodeOffset \in Nat /\ WxDataOffset(n) \in Nat /\ WxDataOffset(n) >= WxCodeOffset + n
    BY <1>1, WxParts
  <2> QED BY <1>1, <1>3, <2>1, PageIsNumber
<1>8. D \div Page = l + q
  BY <1>6, QuotientExact, PageIsNumber
<1>9. CASE n = 0 \/ dataSize = 0
  BY <1>9 DEF PagesOf
<1>10. CASE n # 0 /\ dataSize # 0
  <2>1. C + n - 1 \in Nat /\ C + n - 1 < (l + q) * Page
    BY <1>1, <1>6, <1>7, <1>10
  <2>2. (C + n - 1) \div Page \in Nat /\ (C + n - 1) \div Page < l + q
    BY <1>6, <2>1, QuotientBelow, PageIsNumber
  <2>3. PagesOf(C, n) = (C \div Page) .. ((C + n - 1) \div Page)
    BY <1>10 DEF PagesOf
  <2>4. PagesOf(D, dataSize) = (l + q) .. ((D + dataSize - 1) \div Page)
    BY <1>8, <1>10 DEF PagesOf
  <2>5. C \div Page \in Int /\ (D + dataSize - 1) \div Page \in Int
    BY <1>1, <1>6, <1>7, PageIsNumber
  <2>6. \A a, b, c, d \in Int : b < c => (a .. b) \cap (c .. d) = {}
    OBVIOUS
  <2> QED BY <1>6, <2>2, <2>3, <2>4, <2>5, <2>6
<1> QED BY <1>9, <1>10

\* With --wx no page of the program is both executable and writable.
THEOREM SegmentsStayApart ==
  ASSUME Consistent
  PROVE  Spec => []SegmentsApart
<1>1. Assembled => SegmentsApart
  BY PagesApart
<1> QED BY <1>1, AssemblerKeepsShape, PTL
=============================================================================
