------------------------ MODULE KernelServices_proofs ------------------------
(***************************************************************************)
(* Nothing is written outside its own block while the file table has a     *)
(* free entry, the heap, the ports and the system call table hold what     *)
(* they were given, the file table is a map whoever writes to the tables   *)
(* around it, and a system call comes back as it should, for tables of     *)
(* every size in every layout and any number of statements and calls.      *)
(***************************************************************************)
EXTENDS KernelServices, SequenceTheorems, WellFoundedInduction, TLAPS

-----------------------------------------------------------------------------
(* The bytes of the file table are a map of names, for tables and names of *)
(* any size.                                                               *)

Places == 0..(Entries - 1)

-----------------------------------------------------------------------------
(* Searches, which end at the first place that has what they look for.     *)

LEMMA Least ==
  ASSUME NEW S \in SUBSET Nat, S # {}
  PROVE  \E x \in S : \A y \in S : x <= y
<1>1. PICK x \in S : \A y \in S : <<y, x>> \notin OpToRel(<, Nat)
  BY NatLessThanWellFounded, WFMin
<1>2. ASSUME NEW y \in S PROVE ~(y < x)
  <2>1. <<y, x>> \in Nat \X Nat
    OBVIOUS
  <2> QED BY <1>1, <2>1, Zenon DEF OpToRel
<1> QED BY <1>2

SearchStops ==
  /\ FreeEntry \in 0..Entries
  /\ \A j \in 0..(FreeEntry - 1) : ~IsFree(j)
  /\ FreeEntry # Entries => IsFree(FreeEntry)
  /\ \A f \in 0..Entries :
       (\A j \in 0..(f - 1) : ~IsFree(j)) /\ (f = Entries \/ IsFree(f)) => FreeEntry = f

LEMMA EntriesType == Entries \in Nat \ {0} /\ NameBytes \in Nat /\ NameBytes > 1
BY LayoutAssumption

LEMMA SearchForFree == SearchStops
<1>1. CASE \E i \in Places : IsFree(i)
  <2> DEFINE S == {i \in Places : IsFree(i)}
  <2>1. S \in SUBSET Nat /\ S # {}
    BY <1>1 DEF Places
  <2>2. PICK x \in S : \A y \in S : x <= y
    BY <2>1, Least
  <2>3. x \in Places /\ IsFree(x) /\ \A j \in 0..(x - 1) : ~IsFree(j)
    BY <2>2, EntriesType DEF Places
  <2>4. \A i \in Places : IsFree(i) /\ (\A j \in 0..(i - 1) : ~IsFree(j)) => i = x
    BY <2>3 DEF Places
  <2>5. FreeEntry = x
    <3>1. FreeEntry = CHOOSE i \in Places : IsFree(i) /\ \A j \in 0..(i - 1) : ~IsFree(j)
      BY <1>1 DEF FreeEntry, Places
    <3> QED BY <3>1, <2>3, <2>4
  <2>6. ~IsFree(Entries) \/ IsFree(Entries)
    OBVIOUS
  <2> QED BY <2>3, <2>4, <2>5, EntriesType DEF SearchStops, Places
<1>2. CASE ~ \E i \in Places : IsFree(i)
  <2>1. FreeEntry = Entries
    BY <1>2 DEF FreeEntry, Places
  <2> QED BY <1>2, <2>1, EntriesType DEF SearchStops, Places
<1> QED BY <1>1, <1>2

\* What a get finds.
NoMatch(m) == \A i \in Places : ~Matches(i, m)
FirstMatch(i, m) == Matches(i, m) /\ \A j \in 0..(i - 1) : ~Matches(j, m)

GetFinds ==
  \A m \in FileNames :
    /\ NoMatch(m) => Found(m) = 0
    /\ \A i \in Places : FirstMatch(i, m) => Found(m) = data[AddressCell(i)]
    /\ NoMatch(m) \/ \E i \in Places : FirstMatch(i, m)

LEMMA SearchForName == GetFinds
<1> SUFFICES ASSUME NEW m \in FileNames
             PROVE  /\ NoMatch(m) => Found(m) = 0
                    /\ \A i \in Places : FirstMatch(i, m) => Found(m) = data[AddressCell(i)]
                    /\ NoMatch(m) \/ \E i \in Places : FirstMatch(i, m)
  BY DEF GetFinds
<1>1. NoMatch(m) => Found(m) = 0
  BY DEF NoMatch, Found, Places
<1>2. \A i, j \in Places : FirstMatch(i, m) /\ FirstMatch(j, m) => i = j
  BY EntriesType DEF FirstMatch, Places
<1>3. ASSUME NEW i \in Places, FirstMatch(i, m) PROVE Found(m) = data[AddressCell(i)]
  <2>1. i = CHOOSE i_1 \in Places : FirstMatch(i_1, m)
    BY <1>2, <1>3
  <2>2. Matches(i, m)
    BY <1>3 DEF FirstMatch
  <2> QED BY <2>1, <2>2 DEF Found, FirstMatch, Places
<1>4. ASSUME ~NoMatch(m) PROVE \E i \in Places : FirstMatch(i, m)
  <2> DEFINE S == {i \in Places : Matches(i, m)}
  <2>1. S \in SUBSET Nat /\ S # {}
    BY <1>4 DEF NoMatch, Places
  <2>2. PICK x \in S : \A y \in S : x <= y
    BY <2>1, Least
  <2> QED BY <2>2, EntriesType DEF FirstMatch, Places
<1> QED BY <1>1, <1>3, <1>4

-----------------------------------------------------------------------------
(* Where things are.                                                       *)

Fields == 0..(EntryCells - 1)

LEMMA RowsInside ==
  ASSUME layout \in Layouts
  PROVE  /\ EntryCells = NameBytes + 2 /\ layout["ramfs"] \in Nat
         /\ Block("ramfs") \subseteq Cells
         /\ \A i \in Places : Entry(i) \in Nat /\ \A k \in Fields : Entry(i) + k \in Block("ramfs")
         /\ \A i, j \in Places : i < j => Entry(i) + EntryCells <= Entry(j)
         /\ Entry(Entries) = layout["ramfs"] + Size("ramfs")
<1>1. /\ EntryCells = NameBytes + 2 /\ EntryCells \in Nat
      /\ Size("ramfs") = Entries * EntryCells
  BY EntriesType DEF EntryCells, Size
<1>2. layout["ramfs"] \in Base..(Base + Total) /\ layout["ramfs"] + Size("ramfs") <= Base + Total
      /\ Base \in Nat
  BY LayoutAssumption DEF Blocks
<1>3. Entries * EntryCells \in Nat /\ Total \in Nat
  <2>1. Slots \in Nat /\ HeapCells \in Nat
    BY LayoutAssumption
  <2>2. Size("systab") = Slots /\ Size("kheap") = HeapCells
    BY DEF Size
  <2> QED BY <1>1, <2>1, <2>2, EntriesType DEF Total
<1>4. Block("ramfs") = layout["ramfs"]..(layout["ramfs"] + Entries * EntryCells - 1)
  BY <1>1 DEF Block, Extent
<1>5. ASSUME NEW i \in Nat, NEW j \in Nat, i < j
      PROVE  i * EntryCells \in Nat /\ i * EntryCells + EntryCells <= j * EntryCells
  <2>1. PICK r \in Nat : j = i + 1 + r
    <3>1. j - 1 - i \in Nat /\ j = i + 1 + (j - 1 - i)
      BY <1>5
    <3> QED BY <3>1
  <2>2. r * EntryCells \in Nat /\ i * EntryCells \in Nat
    BY <1>1
  <2>3. (i + 1 + r) * EntryCells = i * EntryCells + EntryCells + r * EntryCells
    BY <1>1, <2>1
  <2> QED BY <1>1, <2>1, <2>2, <2>3
<1>6. \A i \in Places : i \in Nat /\ i < Entries
  BY EntriesType DEF Places
<1>7. Block("ramfs") \subseteq Cells
  BY <1>1, <1>2, <1>3, <1>4 DEF Cells
<1>8. ASSUME NEW i \in Places
      PROVE  Entry(i) \in Nat /\ \A k \in Fields : Entry(i) + k \in Block("ramfs")
  <2>1. i * EntryCells \in Nat /\ i * EntryCells + EntryCells <= Entries * EntryCells
    BY <1>5, <1>6, EntriesType
  <2> QED BY <1>1, <1>2, <1>3, <1>4, <2>1 DEF Entry, Fields
<1>9. ASSUME NEW i \in Places, NEW j \in Places, i < j
      PROVE  Entry(i) + EntryCells <= Entry(j)
  <2>1. i * EntryCells \in Nat /\ i * EntryCells + EntryCells <= j * EntryCells
    BY <1>5, <1>6, <1>9
  <2>2. j * EntryCells \in Nat
    BY <1>1, <1>6
  <2> QED BY <1>1, <1>2, <2>1, <2>2 DEF Entry
<1> QED BY <1>1, <1>2, <1>7, <1>8, <1>9 DEF Entry

\* A name that fits is compared up to the zero behind it.
ReadsAs(i, m) == \A k \in 1..(Len(m) + 1) : data[Entry(i) + k - 1] = Char(m, k)

Compares == \A i \in Places, m \in Keys : Matches(i, m) <=> ReadsAs(i, m)

LEMMA Comparison == Compares
<1> SUFFICES ASSUME NEW i \in Places, NEW m \in Keys
             PROVE  Matches(i, m) <=> ReadsAs(i, m)
  BY DEF Compares
<1>1. m \in Seq(Nat \ {0}) /\ Len(m) \in Nat /\ Len(m) < NameBytes
  BY FileAssumption DEF Keys, Short
<1>2. \A k \in 1..Len(m) : Char(m, k) # 0
  BY <1>1 DEF Char
<1>3. Char(m, Len(m) + 1) = 0
  BY <1>1 DEF Char
<1>4. \A k \in 1..NameBytes : (\A j \in 1..(k - 1) : Char(m, j) # 0) <=> k \in 1..(Len(m) + 1)
  BY <1>1, <1>2, <1>3, EntriesType
<1> QED BY <1>1, <1>4, EntriesType DEF Matches, ReadsAs

LEMMA KeyFits ==
  ASSUME NEW n \in FileNames
  PROVE  /\ KeyOf(n) \in Keys /\ (KeyOf(n) = <<>> <=> n = <<>>)
         /\ n \in Seq(Nat \ {0}) /\ Len(KeyOf(n)) = IF Len(n) < NameBytes THEN Len(n) ELSE NameBytes - 1
         /\ \A k \in 1..(Len(KeyOf(n)) + 1) :
              Char(KeyOf(n), k) = IF k = NameBytes THEN 0 ELSE Char(n, k)
<1>1. n \in Seq(Nat \ {0}) /\ Len(n) \in Nat /\ KeyOf(n) \in FileNames
  BY FileAssumption
<1>2. CASE Short(n)
  BY <1>1, <1>2 DEF KeyOf, Keys, Short, Char
<1>3. CASE ~Short(n)
  <2>1. Len(n) >= NameBytes /\ KeyOf(n) = SubSeq(n, 1, NameBytes - 1)
    BY <1>1, <1>3, EntriesType DEF KeyOf, Short
  <2>2. /\ Len(KeyOf(n)) = NameBytes - 1
        /\ \A k \in 1..(NameBytes - 1) : KeyOf(n)[k] = n[k]
    BY <1>1, <2>1, EntriesType
  <2>3. KeyOf(n) \in Keys
    BY <1>1, <2>2, EntriesType DEF Keys, Short
  <2>4. KeyOf(n) # <<>> /\ n # <<>>
    BY <1>1, <2>1, <2>2, EntriesType, SMTT(30)
  <2>5. ASSUME NEW k \in 1..(Len(KeyOf(n)) + 1)
        PROVE  Char(KeyOf(n), k) = IF k = NameBytes THEN 0 ELSE Char(n, k)
    BY <1>1, <2>1, <2>2, EntriesType DEF Char
  <2>6. Len(KeyOf(n)) = IF Len(n) < NameBytes THEN Len(n) ELSE NameBytes - 1
    BY <1>1, <2>1, <2>2, EntriesType
  <2>7. KeyOf(n) = <<>> <=> n = <<>>
    BY <2>4
  <2> QED BY <1>1, <2>3, <2>5, <2>6, <2>7
<1> QED BY <1>2, <1>3

-----------------------------------------------------------------------------
(* The table as its statements leave it.                                   *)

TableInOrder ==
  /\ layout \in Layouts
  /\ \A i, j \in Places : i <= j /\ IsFree(i) => IsFree(j)
  /\ \A i \in Places : ~IsFree(i) => data[AddressCell(i)] \in FileAddresses
  /\ \A i \in Places : i > FreeEntry => data[AddressCell(i)] = 0

FilesSame ==
  /\ FreeEntry' = FreeEntry
  /\ \A m \in FileNames : Found(m)' = Found(m)

\* Steps that leave the bytes of the table alone.
LEMMA TableSame ==
  ASSUME TableInOrder, layout' = layout,
         \A c \in Block("ramfs") : data'[c] = data[c]
  PROVE  TableInOrder' /\ FilesSame
<1>1. /\ \A i \in Places : Entry(i)' = Entry(i) /\ AddressCell(i)' = AddressCell(i)
      /\ \A i \in Places : \A k \in Fields : data'[Entry(i) + k] = data[Entry(i) + k]
  BY RowsInside DEF TableInOrder, Entry, AddressCell
<1>2. \A i \in Places : (IsFree(i)' <=> IsFree(i)) /\ data[AddressCell(i)]' = data[AddressCell(i)]
  <2>1. 0 \in Fields /\ NameBytes \in Fields
    BY RowsInside, EntriesType DEF TableInOrder, Fields
  <2>2. \A i \in Places : Entry(i) + 0 = Entry(i)
    BY RowsInside DEF TableInOrder
  <2> QED BY <1>1, <2>1, <2>2 DEF IsFree, AddressCell
<1>3. FreeEntry' = FreeEntry
  <2>1. SearchStops /\ SearchStops'
    BY SearchForFree, PTL
  <2>2. \A j \in 0..(FreeEntry - 1) : j \in Places
    BY <2>1, EntriesType DEF SearchStops, Places
  <2>3. FreeEntry # Entries => FreeEntry \in Places
    BY <2>1, EntriesType DEF SearchStops, Places
  <2> QED BY <1>2, <2>1, <2>2, <2>3 DEF SearchStops
<1>4. ASSUME NEW m \in FileNames PROVE Found(m)' = Found(m)
  <2>1. \A i \in Places : Matches(i, m)' <=> Matches(i, m)
    <3>1. \A i \in Places : \A k \in 1..NameBytes : data'[Entry(i) + k - 1] = data[Entry(i) + k - 1]
      <4>1. ASSUME NEW i \in Places, NEW k \in 1..NameBytes
            PROVE  data'[Entry(i) + k - 1] = data[Entry(i) + k - 1]
        <5>1. k - 1 \in Fields /\ Entry(i) + k - 1 = Entry(i) + (k - 1)
          BY RowsInside, EntriesType DEF TableInOrder, Fields
        <5> QED BY <1>1, <5>1
      <4> QED BY <4>1
    <3> QED BY <1>1, <3>1 DEF Matches
  <2>2. \A i \in Places : FirstMatch(i, m)' <=> FirstMatch(i, m)
    <3>1. \A i \in Places : \A j \in 0..(i - 1) : j \in Places
      BY EntriesType DEF Places
    <3> QED BY <2>1, <3>1 DEF FirstMatch
  <2>3. NoMatch(m)' <=> NoMatch(m)
    BY <2>1 DEF NoMatch
  <2>4. GetFinds /\ GetFinds'
    BY SearchForName, PTL
  <2> QED BY <1>2, <2>2, <2>3, <2>4 DEF GetFinds
<1>5. TableInOrder'
  BY <1>2, <1>3 DEF TableInOrder
<1> QED BY <1>3, <1>4, <1>5 DEF FilesSame

\* What a put writes into the first free place.
LEMMA PutEffect ==
  ASSUME layout \in Layouts, NEW n \in FileNames, NEW a \in FileAddresses,
         FreeEntry # Entries, RamfsPut(n, a, Len(n))
  PROVE  /\ layout' = layout /\ FreeEntry \in Places
         /\ \A k \in 1..(Len(KeyOf(n)) + 1) :
              data'[Entry(FreeEntry) + k - 1] = Char(KeyOf(n), k)
         /\ data'[AddressCell(FreeEntry)] = a
         /\ \A j \in Places \ {FreeEntry} : \A k \in Fields :
              data'[Entry(j) + k] = data[Entry(j) + k]
<1> DEFINE i == FreeEntry
           written == NameCells(i, n) \cup {AddressCell(i), LengthCell(i)}
<1>1. i \in Places
  BY SearchForFree, EntriesType DEF SearchStops, Places
<1>2. /\ layout' = layout
      /\ data' = [c \in Cells |-> IF c \in written
                                 THEN IF c = AddressCell(i) THEN a
                                      ELSE IF c = LengthCell(i) THEN Len(n)
                                      ELSE NameByte(i, n, c)
                                 ELSE data[c]]
  BY DEF RamfsPut, Write
<1>3. /\ Entry(i) \in Nat /\ EntryCells = NameBytes + 2
      /\ \A k \in Fields : Entry(i) + k \in Cells
      /\ AddressCell(i) = Entry(i) + NameBytes /\ LengthCell(i) = Entry(i) + NameBytes + 1
  BY <1>1, RowsInside DEF AddressCell, LengthCell
<1>4. Len(n) \in Nat
  BY FileAssumption
<1>5. NameCells(i, n) = Entry(i)..(Entry(i) + (IF Len(n) < NameBytes THEN Len(n) ELSE NameBytes - 1))
  BY <1>1, EntriesType DEF NameCells, Places
<1>6. ASSUME NEW k \in 1..(Len(KeyOf(n)) + 1)
      PROVE  data'[Entry(i) + k - 1] = Char(KeyOf(n), k)
  <2> DEFINE c == Entry(i) + k - 1
  <2>1. Len(KeyOf(n)) = IF Len(n) < NameBytes THEN Len(n) ELSE NameBytes - 1
    BY KeyFits
  <2>2. k \in 1..NameBytes /\ k - 1 <= (IF Len(n) < NameBytes THEN Len(n) ELSE NameBytes - 1)
    BY <2>1, <1>4, EntriesType
  <2>3. c \in NameCells(i, n) /\ c # AddressCell(i) /\ c # LengthCell(i)
    BY <1>3, <1>4, <1>5, <2>2, EntriesType
  <2>4. c \in Cells
    <3>1. k - 1 \in Fields /\ c = Entry(i) + (k - 1)
      BY <1>3, <2>2, EntriesType DEF Fields
    <3> QED BY <1>3, <3>1
  <2>5. data'[c] = NameByte(i, n, c)
    BY <1>2, <2>3, <2>4
  <2>6. c - Entry(i) + 1 = k /\ (c = Entry(i) + NameBytes - 1 <=> k = NameBytes)
    BY <1>3, <2>2, EntriesType
  <2>7. NameByte(i, n, c) = IF k = NameBytes THEN 0 ELSE Char(n, k)
    BY <2>6 DEF NameByte
  <2>8. Char(KeyOf(n), k) = IF k = NameBytes THEN 0 ELSE Char(n, k)
    BY KeyFits
  <2> QED BY <2>5, <2>7, <2>8
<1>7. data'[AddressCell(i)] = a
  <2>1. NameBytes \in Fields
    BY <1>3, EntriesType DEF Fields
  <2> QED BY <1>2, <1>3, <2>1
<1>8. ASSUME NEW j \in Places \ {i}, NEW k \in Fields
      PROVE  data'[Entry(j) + k] = data[Entry(j) + k]
  <2>1. Entry(j) \in Nat /\ Entry(j) + k \in Cells
    BY RowsInside
  <2>2. Entry(j) + EntryCells <= Entry(i) \/ Entry(i) + EntryCells <= Entry(j)
    <3>1. i \in Int /\ j \in Int /\ i # j /\ j \in Places
      BY <1>1 DEF Places
    <3>2. i < j \/ j < i
      BY <3>1
    <3> QED BY <1>1, <3>1, <3>2, RowsInside
  <2>3. k \in 0..(NameBytes + 1)
    BY <1>3, EntriesType DEF Fields
  <2>4. Entry(j) + k \notin written
    BY <1>3, <1>4, <1>5, <2>1, <2>2, <2>3, EntriesType
  <2> QED BY <1>2, <2>1, <2>4
<1> QED BY <1>1, <1>2, <1>6, <1>7, <1>8

\* Two names that agree up to the zero are one.
LEMMA SameName ==
  ASSUME NEW p \in Keys, NEW q \in Keys,
         \A k \in 1..(Len(p) + 1) : Char(q, k) = Char(p, k)
  PROVE  p = q
<1>1. p \in Seq(Nat \ {0}) /\ q \in Seq(Nat \ {0}) /\ Len(p) \in Nat /\ Len(q) \in Nat
  BY FileAssumption DEF Keys
<1>2. Len(q) <= Len(p)
  <2>1. Char(q, Len(p) + 1) = 0
    BY <1>1 DEF Char
  <2> QED BY <1>1, <2>1 DEF Char
<1>3. Len(q) >= Len(p)
  <2>1. CASE Len(q) + 1 \in 1..Len(p)
    <3>1. Char(p, Len(q) + 1) # 0 /\ Char(q, Len(q) + 1) = 0
      BY <1>1, <2>1 DEF Char
    <3> QED BY <1>1, <2>1, <3>1
  <2> QED BY <1>1, <2>1
<1>4. \A k \in 1..Len(p) : p[k] = q[k]
  BY <1>1, <1>2, <1>3 DEF Char
<1> QED BY <1>1, <1>2, <1>3, <1>4

LEMMA FirstByte ==
  ASSUME layout \in Layouts, NEW i \in Places, NEW m \in Keys
  PROVE  /\ m # <<>> /\ Matches(i, m) => ~IsFree(i)
         /\ m = <<>> => (Matches(i, m) <=> IsFree(i))
<1>1. m \in Seq(Nat \ {0}) /\ Len(m) \in Nat /\ Entry(i) \in Nat
  BY FileAssumption, RowsInside DEF Keys
<1>2. Entry(i) + 1 - 1 = Entry(i) /\ 1 \in 1..(Len(m) + 1)
  BY <1>1
<1>3. m # <<>> => Char(m, 1) # 0
  BY <1>1 DEF Char
<1>4. CASE m # <<>>
  BY <1>2, <1>3, <1>4, Comparison DEF Compares, ReadsAs, IsFree
<1>5. CASE m = <<>>
  <2>1. 1..(Len(m) + 1) = {1} /\ Char(m, 1) = 0
    BY <1>5 DEF Char
  <2> QED BY <1>2, <1>5, <2>1, Comparison DEF Compares, ReadsAs, IsFree
<1> QED BY <1>4, <1>5

FirstBytes ==
  \A i \in Places, m \in Keys :
    layout \in Layouts =>
      /\ m # <<>> /\ Matches(i, m) => ~IsFree(i)
      /\ m = <<>> => (Matches(i, m) <=> IsFree(i))

LEMMA FirstByteAlways == FirstBytes
BY FirstByte DEF FirstBytes

\* How the rows differ after a put of n at a into row i.
PutRow(i, n, a) ==
  /\ layout' = layout
  /\ data[AddressCell(i)]' = a
  /\ \A m \in Keys : Matches(i, m)' <=> m = KeyOf(n)
  /\ IsFree(i)' <=> n = <<>>
  /\ \A j \in Places \ {i} :
       /\ IsFree(j)' <=> IsFree(j)
       /\ data[AddressCell(j)]' = data[AddressCell(j)]
       /\ \A m \in Keys : Matches(j, m)' <=> Matches(j, m)

LEMMA PutInRow ==
  ASSUME layout \in Layouts, NEW n \in FileNames, NEW a \in FileAddresses,
         NEW i \in Places, i = FreeEntry, RamfsPut(n, a, Len(n))
  PROVE  PutRow(i, n, a)
<1> DEFINE key == KeyOf(n)
<1>1. /\ layout' = layout
      /\ \A k \in 1..(Len(key) + 1) : data'[Entry(i) + k - 1] = Char(key, k)
      /\ data'[AddressCell(i)] = a
      /\ \A j \in Places \ {i} : \A k \in Fields : data'[Entry(j) + k] = data[Entry(j) + k]
  <2>1. FreeEntry # Entries
    BY EntriesType DEF Places
  <2> QED BY <2>1, PutEffect
<1>2. \A j \in Places : Entry(j)' = Entry(j) /\ AddressCell(j)' = AddressCell(j)
  BY <1>1 DEF Entry, AddressCell
<1>3. Compares'
  BY Comparison, PTL
<1>4. ASSUME NEW m \in Keys PROVE Matches(i, m)' <=> m = key
  <2>1. Matches(i, m)' <=> \A k \in 1..(Len(m) + 1) : data'[Entry(i) + k - 1] = Char(m, k)
    BY <1>2, <1>3 DEF Compares, ReadsAs
  <2>2. key \in Keys /\ Len(m) \in Nat /\ Len(key) \in Nat
    BY KeyFits, FileAssumption DEF Keys
  <2>3. CASE m = key
    BY <1>1, <2>1, <2>3
  <2>4. ASSUME Matches(i, m)', Len(m) <= Len(key) PROVE m = key
    <3>1. \A k \in 1..(Len(m) + 1) : Char(key, k) = Char(m, k)
      BY <1>1, <2>1, <2>2, <2>4
    <3> QED BY <2>2, <3>1, SameName
  <2>5. ASSUME Matches(i, m)', Len(key) <= Len(m) PROVE m = key
    <3>1. \A k \in 1..(Len(key) + 1) : Char(m, k) = Char(key, k)
      BY <1>1, <2>1, <2>2, <2>5
    <3> QED BY <2>2, <3>1, SameName
  <2> QED BY <2>2, <2>3, <2>4, <2>5
<1>5. \A j \in Places \ {i} :
        /\ IsFree(j)' <=> IsFree(j)
        /\ data[AddressCell(j)]' = data[AddressCell(j)]
        /\ \A m \in Keys : Matches(j, m)' <=> Matches(j, m)
  <2> SUFFICES ASSUME NEW j \in Places \ {i}
               PROVE  /\ IsFree(j)' <=> IsFree(j)
                      /\ data[AddressCell(j)]' = data[AddressCell(j)]
                      /\ \A m \in Keys : Matches(j, m)' <=> Matches(j, m)
    OBVIOUS
  <2>1. 0 \in Fields /\ NameBytes \in Fields /\ Entry(j) \in Nat /\ Entry(j) + 0 = Entry(j)
    BY RowsInside, EntriesType DEF Fields
  <2>2. \A k \in 1..NameBytes : data'[Entry(j) + k - 1] = data[Entry(j) + k - 1]
    <3>1. ASSUME NEW k \in 1..NameBytes
          PROVE  data'[Entry(j) + k - 1] = data[Entry(j) + k - 1]
      <4>1. k - 1 \in Fields /\ Entry(j) + k - 1 = Entry(j) + (k - 1)
        BY <2>1, RowsInside, EntriesType DEF Fields
      <4> QED BY <1>1, <4>1
    <3> QED BY <3>1
  <2>3. \A m \in Keys : Matches(j, m)' <=> Matches(j, m)
    BY <1>2, <2>2 DEF Matches
  <2>4. IsFree(j)' <=> IsFree(j)
    BY <1>1, <1>2, <2>1 DEF IsFree
  <2>5. data[AddressCell(j)]' = data[AddressCell(j)]
    BY <1>1, <1>2, <2>1 DEF AddressCell
  <2> QED BY <2>3, <2>4, <2>5
<1>6. IsFree(i)' <=> n = <<>>
  <2>1. data'[Entry(i)] = Char(key, 1)
    <3>1. 1 \in 1..(Len(key) + 1) /\ Entry(i) + 1 - 1 = Entry(i)
      BY RowsInside, KeyFits, FileAssumption DEF Keys
    <3> QED BY <1>1, <3>1
  <2>2. Char(key, 1) = 0 <=> key = <<>>
    <3>1. key \in Seq(Nat \ {0})
      BY KeyFits, FileAssumption DEF Keys
    <3> QED BY <3>1 DEF Char
  <2> QED BY <1>2, <2>1, <2>2, KeyFits DEF IsFree
<1>7. data[AddressCell(i)]' = a
  BY <1>1, <1>2
<1> QED BY <1>1, <1>4, <1>5, <1>6, <1>7 DEF PutRow

\* The put as a map sees it.
PutSeen(n, a) ==
  /\ FreeEntry' = IF n = <<>> THEN FreeEntry ELSE FreeEntry + 1
  /\ \A m \in Keys :
       Found(m)' = IF m = <<>> THEN IF n = <<>> THEN a ELSE 0
                   ELSE IF m = KeyOf(n) /\ Found(m) = 0 THEN a
                   ELSE Found(m)

LEMMA PutStep ==
  ASSUME TableInOrder, NEW n \in FileNames, NEW a \in FileAddresses,
         NEW i \in Places, i = FreeEntry, PutRow(i, n, a)
  PROVE  TableInOrder' /\ PutSeen(n, a)
<1>1. /\ IsFree(i) /\ \A j \in 0..(i - 1) : ~IsFree(j)
      /\ \A j \in Places : j >= i => IsFree(j)
      /\ i \in Nat /\ i < Entries
  <2>1. SearchStops
    BY SearchForFree
  <2>2. IsFree(i)
    BY <2>1, EntriesType DEF SearchStops, Places
  <2> QED BY <2>1, <2>2, EntriesType DEF SearchStops, Places, TableInOrder
<1>2. \A j \in Places : \A k \in 0..(j - 1) : k \in Places
  BY EntriesType DEF Places
<1>3. FreeEntry' = IF n = <<>> THEN i ELSE i + 1
  <2>1. SearchStops'
    BY SearchForFree, PTL
  <2> DEFINE f == IF n = <<>> THEN i ELSE i + 1
  <2>2. f \in 0..Entries
    BY <1>1, EntriesType
  <2>3. \A j \in 0..(f - 1) : ~IsFree(j)'
    BY <1>1, <1>2 DEF PutRow, Places
  <2>4. f = Entries \/ IsFree(f)'
    BY <1>1, EntriesType DEF PutRow, Places
  <2> HIDE DEF f
  <2>5. FreeEntry' = f
    BY <2>1, <2>2, <2>3, <2>4 DEF SearchStops
  <2> QED BY <2>5 DEF f
<1>4. TableInOrder'
  <2>1. ASSUME NEW j \in Places, NEW k \in Places, j <= k, IsFree(j)' PROVE IsFree(k)'
    <3>1. CASE k = i
      <4>1. CASE j = i
        BY <2>1, <3>1, <4>1
      <4>2. CASE j # i
        BY <1>1, <2>1, <3>1, <4>2 DEF PutRow, Places
      <4> QED BY <4>1, <4>2
    <3>2. CASE k # i
      <4>1. IsFree(j)
        BY <1>1, <2>1 DEF PutRow
      <4> QED BY <2>1, <3>2, <4>1 DEF PutRow, TableInOrder
    <3> QED BY <3>1, <3>2
  <2>2. ASSUME NEW j \in Places, ~IsFree(j)' PROVE data[AddressCell(j)]' \in FileAddresses
    BY <2>2 DEF PutRow, TableInOrder
  <2>3. ASSUME NEW j \in Places, j > FreeEntry' PROVE data[AddressCell(j)]' = 0
    <3>1. j > i
      BY <1>1, <1>3, <2>3 DEF Places
    <3> QED BY <1>1, <3>1 DEF PutRow, TableInOrder, Places
  <2> QED BY <2>1, <2>2, <2>3 DEF TableInOrder, PutRow
<1>5. layout \in Layouts /\ GetFinds /\ GetFinds' /\ FirstBytes /\ FirstBytes'
  BY SearchForName, FirstByteAlways, PTL DEF TableInOrder
<1>6. \A m \in Keys : m \in FileNames
  BY DEF Keys
<1>7. \A j \in Places, m \in Keys : m # <<>> /\ j >= i => ~Matches(j, m)
  BY <1>1, <1>5 DEF FirstBytes
<1>8. ASSUME NEW m \in Keys, m # <<>>, m # KeyOf(n) PROVE Found(m)' = Found(m)
  <2>1. \A j \in Places : Matches(j, m)' <=> Matches(j, m)
    BY <1>1, <1>7, <1>8 DEF PutRow
  <2>2. \A j \in Places : FirstMatch(j, m)' <=> FirstMatch(j, m)
    BY <1>2, <2>1 DEF FirstMatch
  <2>3. NoMatch(m)' <=> NoMatch(m)
    BY <2>1 DEF NoMatch
  <2>4. \A j \in Places : FirstMatch(j, m) => data[AddressCell(j)]' = data[AddressCell(j)]
    BY <1>1, <1>7, <1>8 DEF FirstMatch, PutRow
  <2> QED BY <1>5, <1>6, <2>2, <2>3, <2>4 DEF GetFinds
<1>9. ASSUME NEW m \in Keys, m # <<>>, m = KeyOf(n)
      PROVE  Found(m)' = IF Found(m) = 0 THEN a ELSE Found(m)
  <2>1. CASE NoMatch(m)
    <3>1. Found(m) = 0
      BY <1>5, <1>6, <2>1 DEF GetFinds
    <3>2. FirstMatch(i, m)'
      BY <1>2, <1>9, <2>1 DEF FirstMatch, NoMatch, PutRow, Places
    <3> QED BY <1>5, <1>6, <3>1, <3>2 DEF GetFinds, PutRow
  <2>2. CASE ~NoMatch(m)
    <3>1. PICK j \in Places : FirstMatch(j, m)
      BY <1>5, <1>6, <2>2 DEF GetFinds
    <3>2. j < i /\ ~IsFree(j)
      <4>1. ~(j >= i)
        BY <1>7, <1>9, <3>1 DEF FirstMatch
      <4> QED BY <1>1, <4>1 DEF Places
    <3>3. FirstMatch(j, m)' /\ data[AddressCell(j)]' = data[AddressCell(j)]
      BY <1>1, <1>2, <3>1, <3>2 DEF FirstMatch, PutRow, Places
    <3>4. data[AddressCell(j)] # 0
      BY <3>2, FileAssumption DEF TableInOrder
    <3> QED BY <1>5, <1>6, <3>1, <3>3, <3>4 DEF GetFinds
  <2> QED BY <2>1, <2>2
<1>10. ASSUME NEW m \in Keys, m = <<>> PROVE Found(m)' = IF n = <<>> THEN a ELSE 0
  <2>1. layout' \in Layouts
    BY <1>5 DEF PutRow
  <2>2. \A j \in Places : Matches(j, m)' <=> IsFree(j)'
    BY <1>5, <1>10, <2>1 DEF FirstBytes
  <2>3. CASE n = <<>>
    <3>1. FirstMatch(i, m)'
      BY <1>1, <1>2, <2>2, <2>3 DEF FirstMatch, PutRow, Places
    <3> QED BY <1>5, <1>6, <2>3, <3>1 DEF GetFinds, PutRow
  <2>4. CASE n # <<>>
    <3>1. \A j \in Places : FirstMatch(j, m)' => data[AddressCell(j)]' = 0
      <4>1. ASSUME NEW j \in Places, FirstMatch(j, m)' PROVE j > i
        <5>1. IsFree(j)' /\ j # i
          BY <2>2, <2>4, <4>1 DEF FirstMatch, PutRow
        <5>2. IsFree(j)
          BY <5>1 DEF PutRow
        <5> QED BY <1>1, <5>1, <5>2 DEF Places
      <4> QED BY <1>1, <4>1 DEF PutRow, TableInOrder, Places
    <3> QED BY <1>5, <1>6, <2>4, <3>1 DEF GetFinds
  <2> QED BY <2>3, <2>4
<1> QED BY <1>3, <1>4, <1>8, <1>9, <1>10 DEF PutSeen

-----------------------------------------------------------------------------
(* The steps of the map.                                                   *)

Zeroed == layout \in Layouts /\ \A c \in Block("ramfs") : data[c] = 0
Empty == TableInOrder /\ FreeEntry = 0 /\ \A m \in Keys : Found(m) = 0

LEMMA ZeroedIsEmpty == Zeroed => Empty
<1> SUFFICES ASSUME Zeroed PROVE Empty
  OBVIOUS
<1>1. \A i \in Places : data[Entry(i)] = 0 /\ data[AddressCell(i)] = 0
  <2>1. ASSUME NEW i \in Places PROVE data[Entry(i)] = 0 /\ data[AddressCell(i)] = 0
    <3>1. 0 \in Fields /\ NameBytes \in Fields /\ Entry(i) + 0 = Entry(i)
      BY RowsInside, EntriesType DEF Zeroed, Fields
    <3>2. Entry(i) + 0 \in Block("ramfs") /\ Entry(i) + NameBytes \in Block("ramfs")
      BY <3>1, RowsInside DEF Zeroed
    <3> QED BY <3>1, <3>2 DEF Zeroed, AddressCell
  <2> QED BY <2>1
<1>2. FreeEntry = 0
  <2>1. 0 \in Places /\ 0 \in 0..Entries /\ 0..(0 - 1) = {}
    BY EntriesType DEF Places
  <2> QED BY <1>1, <2>1, SearchForFree DEF SearchStops, IsFree
<1>3. TableInOrder
  BY <1>1 DEF TableInOrder, IsFree, Zeroed
<1>4. ASSUME NEW m \in Keys PROVE Found(m) = 0
  BY <1>1, SearchForName DEF GetFinds, Keys
<1> QED BY <1>2, <1>3, <1>4 DEF Empty

mapped == <<[n \in Keys |-> Found(n)], FreeEntry>>

LEMMA MapStarts == Empty => Files!MapInit
BY DEF Empty, Files!MapInit, Files!Missing

LEMMA InitFormats ==
  ASSUME TableInOrder, RamfsInit
  PROVE  TableInOrder' /\ Files!Format
<1>1. layout' = layout /\ data' = [c \in Cells |-> IF c \in Block("ramfs") THEN 0 ELSE data[c]]
  BY DEF RamfsInit, Write
<1>2. Block("ramfs")' = Block("ramfs") /\ Block("ramfs") \subseteq Cells
  BY <1>1, RowsInside DEF Block, TableInOrder
<1>3. Zeroed'
  BY <1>1, <1>2 DEF Zeroed, TableInOrder
<1>4. Empty'
  BY <1>3, ZeroedIsEmpty, PTL
<1> QED BY <1>4 DEF Empty, Files!Format, Files!Missing

LEMMA FullPutStutters ==
  ASSUME TableInOrder, NEW n \in FileNames, NEW a \in FileAddresses,
         RamfsPut(n, a, Len(n)), FreeEntry = Entries
  PROVE  TableInOrder' /\ FilesSame
<1>1. /\ layout' = layout
      /\ \A c \in Cells \ {AddressCell(Entries), LengthCell(Entries)} : data'[c] = data[c]
  BY DEF RamfsPut, Write, NameCells
<1>2. /\ Block("ramfs") \subseteq Cells
      /\ AddressCell(Entries) \notin Block("ramfs") /\ LengthCell(Entries) \notin Block("ramfs")
  <2>1. layout["ramfs"] \in Nat /\ Size("ramfs") \in Nat
    BY RowsInside, EntriesType DEF TableInOrder, Size
  <2>2. Block("ramfs") = layout["ramfs"]..(layout["ramfs"] + Size("ramfs") - 1)
    BY DEF Block, Extent
  <2> QED BY <2>1, <2>2, RowsInside, EntriesType DEF TableInOrder, AddressCell, LengthCell
<1> QED BY <1>1, <1>2, TableSame

LEMMA PutPuts ==
  ASSUME TableInOrder, NEW n \in FileNames, NEW a \in FileAddresses,
         RamfsPut(n, a, Len(n)), FreeEntry # Entries
  PROVE  TableInOrder' /\ Files!MapNext
<1>1. FreeEntry \in Places /\ FreeEntry < Entries
  BY SearchForFree, EntriesType DEF SearchStops, Places
<1>2. PICK i \in Places : i = FreeEntry
  BY <1>1
<1>3. TableInOrder' /\ PutSeen(n, a)
  <2>1. PutRow(i, n, a)
    BY <1>2, PutInRow DEF TableInOrder
  <2> QED BY <1>2, <2>1, PutStep
<1>4. KeyOf(n) \in Keys /\ (KeyOf(n) = <<>> <=> n = <<>>)
  BY KeyFits
<1>5. CASE n = <<>>
  <2>1. [m \in Keys |-> Found(m)]' = [[m \in Keys |-> Found(m)] EXCEPT ![<<>>] = a]
    BY <1>3, <1>4, <1>5 DEF PutSeen
  <2>2. Files!PutNameless(a)
    BY <1>1, <1>3, <1>5, <2>1 DEF PutSeen, Files!PutNameless
  <2> QED BY <1>3, <2>2 DEF Files!MapNext
<1>6. CASE n # <<>>
  <2>1. Files!Put(KeyOf(n), a)
    BY <1>1, <1>3, <1>4, <1>6 DEF PutSeen, Files!Put, Files!Missing
  <2> QED BY <1>3, <1>4, <2>1 DEF Files!MapNext
<1> QED BY <1>5, <1>6

LEMMA SameStutters == FilesSame => UNCHANGED mapped
BY DEF FilesSame, mapped, Keys

-----------------------------------------------------------------------------
(* The services together.                                                  *)

Rows == 0..(Slots - 1)

ServiceTypes ==
  /\ layout \in Layouts
  /\ data = [c \in Cells |-> data[c]]
  /\ registered \in [Rows -> Handlers \cup {NoHandler, 0}]
  /\ lstar \in {"none", "entry", "dispatch"} /\ sce \in BOOLEAN
  /\ nr \in Nat /\ rbx \in Int /\ stack \in Seq(Int)
  /\ before.rbx \in Int /\ before.stack \in Seq(Int)

\* The objects of the heap lie one after the other up to the pointer, which is where
\* what is left begins.
HeapInOrder ==
  /\ data[HeapPointer] \in Int /\ room \in Int
  /\ room >= 0 =>
       /\ room <= HeapCells /\ data[HeapPointer] = HeapStart + HeapCells - room
       /\ \A o \in objects : o.at >= HeapStart
  /\ \A o \in objects :
       /\ o.at \in Int /\ o.size \in Nat
       /\ o.at + o.size <= data[HeapPointer]
       /\ \A p \in objects : o # p => o.at + o.size <= p.at \/ p.at + p.size <= o.at

Untouched == Intact => HeapInOrder /\ HandlersAsRegistered

\* What is on the stack above the caller's words while a call is under way.
Level == rbx = before.rbx /\ stack = before.stack
Inside == stack = before.stack \o <<before.rbx, Back>>
Gone == ~sce \/ lstar = "none" \/ ~Intact \/ registered[nr % Slots] = 0

UnderWay ==
  /\ cpu \in {"kernel", "entry", "dispatch"} => Level
  /\ cpu = "nosys" => Inside /\ rbx = nr % Slots
  /\ cpu = "handler" => Inside
  /\ cpu = "leave" => stack = before.stack \o <<before.rbx>>

IInv == ServiceTypes /\ Untouched /\ UnderWay /\ CallsAnswered

-----------------------------------------------------------------------------
(* Blocks and writes.                                                      *)

LEMMA Extents ==
  ASSUME ServiceTypes
  PROVE  /\ HeapPointer \in Block("kheap_ptr")
         /\ PortCell \in Block("net_allow")
         /\ \A s \in Rows : SlotCell(s) \in Block("systab")
         /\ HeapStart \in Nat /\ Block("kheap") = HeapStart..(HeapStart + HeapCells - 1)
         /\ Slots \in Nat \ {0} /\ HeapCells \in Nat
         /\ layout["ramfs"] \in Nat /\ layout["kheap_ptr"] \in Nat
<1>1. /\ Entries \in Nat /\ NameBytes \in Nat /\ Slots \in Nat \ {0} /\ HeapCells \in Nat
      /\ layout \in [Blocks -> Base..(Base + Total)] /\ Base \in Nat
  BY LayoutAssumption DEF ServiceTypes
<1>2. /\ Size("systab") = Slots /\ Size("kheap") = HeapCells
      /\ Size("kheap_ptr") = 1 /\ Size("net_allow") = 1
  BY DEF Size
<1>3. \A b \in Blocks : layout[b] \in Nat
  BY <1>1
<1> QED
  BY <1>1, <1>2, <1>3 DEF Blocks, Block, Extent, HeapPointer, PortCell, SlotCell, HeapStart, Rows

LEMMA BlocksApart ==
  ASSUME ServiceTypes, NEW b \in Blocks, NEW c \in Blocks, b # c
  PROVE  Block(b) \cap Block(c) = {}
BY LayoutAssumption DEF ServiceTypes, Block

LEMMA BlocksInside ==
  ASSUME ServiceTypes, NEW b \in Blocks
  PROVE  Block(b) \subseteq Cells
<1>1. /\ layout[b] \in Base..(Base + Total) /\ layout[b] + Size(b) <= Base + Total
      /\ Base \in Nat
      /\ Entries \in Nat /\ NameBytes \in Nat /\ Slots \in Nat /\ HeapCells \in Nat
  BY LayoutAssumption DEF ServiceTypes
<1>2. Size("ramfs") \in Nat /\ Size("systab") \in Nat /\ Size("kheap") \in Nat
  BY <1>1 DEF Size, EntryCells
<1>3. Total \in Nat /\ EntryCells \in Nat
  BY <1>1, <1>2 DEF Total, EntryCells
<1>4. Size(b) \in Nat
  BY <1>2 DEF Blocks, Size
<1> QED BY <1>1, <1>3, <1>4 DEF Block, Extent, Cells

\* What every statement does to the section, whatever it writes.
Wrote(b, cells) ==
  /\ layout' = layout
  /\ strays' = strays \cup (IF cells \subseteq Block(b) THEN {} ELSE {b})
  /\ Intact' <=> Intact /\ cells \subseteq Block(b)
  /\ data' = [c \in Cells |-> data'[c]]
  /\ \A c \in Cells \ cells : data'[c] = data[c]

LEMMA OthersKept ==
  ASSUME ServiceTypes, NEW b \in Blocks, NEW cells, Wrote(b, cells), Intact',
         NEW c \in Blocks, c # b
  PROVE  Intact /\ \A x \in Block(c) : data'[x] = data[x]
BY BlocksApart, BlocksInside DEF Wrote

LEMMA HeapKept ==
  ASSUME ServiceTypes, Untouched, NEW b \in Blocks, NEW cells, Wrote(b, cells), Intact',
         b # "kheap_ptr", objects' = objects, room' = room
  PROVE  HeapInOrder'
<1>1. Intact /\ data'[HeapPointer] = data[HeapPointer]
  BY Extents, OthersKept DEF Blocks
<1>2. HeapPointer' = HeapPointer /\ HeapStart' = HeapStart
  BY DEF Wrote, HeapPointer, HeapStart
<1> QED BY <1>1, <1>2 DEF Untouched, HeapInOrder

LEMMA RowsKept ==
  ASSUME ServiceTypes, Untouched, NEW b \in Blocks, NEW cells, Wrote(b, cells), Intact',
         b # "systab", registered' = registered
  PROVE  HandlersAsRegistered'
<1>1. Intact /\ \A s \in Rows : data'[SlotCell(s)] = data[SlotCell(s)]
  BY Extents, OthersKept DEF Blocks
<1>2. \A s : SlotCell(s)' = SlotCell(s)
  BY DEF Wrote, SlotCell
<1> QED BY <1>1, <1>2 DEF Untouched, HandlersAsRegistered, Rows

LEMMA TypesKept ==
  ASSUME ServiceTypes, NEW b, NEW cells, Wrote(b, cells),
         registered' \in [Rows -> Handlers \cup {NoHandler, 0}]
  PROVE  /\ layout' \in Layouts
         /\ data' = [c \in Cells |-> data'[c]]
BY DEF ServiceTypes, Wrote

-----------------------------------------------------------------------------
(* What the statements write, and that it is their own.                    *)

LEMMA PutWrites ==
  ASSUME NEW n \in FileNames, NEW a \in FileAddresses, RamfsPut(n, a, Len(n))
  PROVE  Wrote("ramfs", NameCells(FreeEntry, n) \cup {AddressCell(FreeEntry), LengthCell(FreeEntry)})
BY DEF RamfsPut, Write, Wrote, Intact

LEMMA InitWrites == ASSUME RamfsInit PROVE Wrote("ramfs", Block("ramfs"))
BY DEF RamfsInit, Write, Wrote, Intact

LEMMA HeapInitWrites ==
  ASSUME ServiceTypes, HeapInit
  PROVE  Wrote("kheap_ptr", {HeapPointer}) /\ data'[HeapPointer] = HeapStart
<1>1. HeapPointer \in Cells
  BY Extents, BlocksInside DEF Blocks
<1> QED BY <1>1 DEF HeapInit, Write, Wrote, Intact

LEMMA HeapAllocWrites ==
  ASSUME ServiceTypes, NEW n \in Sizes, HeapAlloc(n)
  PROVE  /\ Wrote("kheap_ptr", {HeapPointer})
         /\ data'[HeapPointer] = data[HeapPointer] + n
<1>1. HeapPointer \in Cells
  BY Extents, BlocksInside DEF Blocks
<1> QED BY <1>1 DEF HeapAlloc, Write, Wrote, Intact

LEMMA HeapStoreWrites ==
  ASSUME NEW o \in objects, HeapStore(o, Error)
  PROVE  Wrote("kheap", o.at..(o.at + o.size - 1))
BY DEF HeapStore, Write, Wrote, Intact

LEMMA NetAllowWrites ==
  ASSUME NEW p \in Ports, NetAllow(p)
  PROVE  Wrote("net_allow", {PortCell})
BY DEF NetAllow, Write, Wrote, Intact

LEMMA FillWrites ==
  ASSUME ServiceTypes, FillTable
  PROVE  /\ Wrote("systab", Block("systab"))
         /\ \A s \in Rows : data'[SlotCell(s)] = NoHandler
<1>1. \A s \in Rows : SlotCell(s) \in Block("systab") /\ SlotCell(s) \in Cells
  BY Extents, BlocksInside DEF Blocks
<1> QED BY <1>1 DEF FillTable, Write, Wrote, Intact

LEMMA RegisterWrites ==
  ASSUME ServiceTypes, NEW n \in Numbers, NEW h \in Handlers, SyscallRegister(n, h)
  PROVE  /\ Wrote("systab", {SlotCell(n % Slots)})
         /\ n % Slots \in Rows /\ data'[SlotCell(n % Slots)] = h
<1>1. n % Slots \in Rows
  BY Extents, ServiceAssumption DEF Rows
<1>2. SlotCell(n % Slots) \in Cells
  BY <1>1, Extents, BlocksInside DEF Blocks
<1> QED BY <1>1, <1>2 DEF SyscallRegister, Write, Wrote, Intact

LEMMA PutInside ==
  ASSUME ServiceTypes, NEW n \in FileNames, FreeEntry # Entries
  PROVE  NameCells(FreeEntry, n) \cup {AddressCell(FreeEntry), LengthCell(FreeEntry)}
           \subseteq Block("ramfs")
<1> DEFINE i == FreeEntry
<1>1. i \in Places
  BY SearchForFree, EntriesType DEF SearchStops, Places
<1>2. Len(n) \in Nat /\ EntryCells = NameBytes + 2 /\ Entry(i) \in Nat
  BY <1>1, FileAssumption, RowsInside DEF ServiceTypes
<1>3. ASSUME NEW c \in Entry(i)..(Entry(i) + NameBytes + 1) PROVE c \in Block("ramfs")
  <2>1. c - Entry(i) \in Fields /\ c = Entry(i) + (c - Entry(i))
    BY <1>2, EntriesType DEF Fields
  <2>2. Entry(i) + (c - Entry(i)) \in Block("ramfs")
    BY <1>1, <2>1, RowsInside DEF ServiceTypes
  <2> QED BY <2>1, <2>2
<1>4. NameCells(i, n) \subseteq Entry(i)..(Entry(i) + NameBytes + 1)
  BY <1>1, <1>2, EntriesType DEF NameCells
<1>5. {AddressCell(i), LengthCell(i)} \subseteq Entry(i)..(Entry(i) + NameBytes + 1)
  BY <1>2, EntriesType DEF AddressCell, LengthCell
<1> QED BY <1>3, <1>4, <1>5

-----------------------------------------------------------------------------
(* The statements of the main program, and the handlers' services.         *)

LEMMA FilesKeep ==
  ASSUME ServiceTypes, Untouched, NEW cells, Wrote("ramfs", cells), UNCHANGED ghosts
  PROVE  Untouched'
<1>1. SUFFICES ASSUME Intact' PROVE HeapInOrder' /\ HandlersAsRegistered'
  BY DEF Untouched
<1>2. objects' = objects /\ room' = room /\ registered' = registered
  BY DEF ghosts
<1> QED BY <1>1, <1>2, HeapKept, RowsKept DEF Blocks

LEMMA StatementKeeps ==
  ASSUME ServiceTypes, Untouched, FileStatement \/ TableStatement
  PROVE  /\ Untouched'
         /\ \E b \in Blocks : \E cells : Wrote(b, cells)
         /\ registered' \in [Rows -> Handlers \cup {NoHandler, 0}]
<1> USE DEF Blocks
<1>0. registered \in [Rows -> Handlers \cup {NoHandler, 0}]
  BY DEF ServiceTypes
<1>1. CASE RamfsInit /\ UNCHANGED ghosts
  BY <1>0, <1>1, InitWrites, FilesKeep DEF ghosts
<1>2. ASSUME NEW n \in FileNames, NEW a \in FileAddresses, RamfsPut(n, a, Len(n)),
             UNCHANGED ghosts
      PROVE  /\ Untouched' /\ \E b \in Blocks : \E cells : Wrote(b, cells)
             /\ registered' = registered
  BY <1>2, PutWrites, FilesKeep DEF ghosts
<1>3. CASE HeapInit
  <2>1. Wrote("kheap_ptr", {HeapPointer}) /\ data'[HeapPointer] = HeapStart
    BY <1>3, HeapInitWrites
  <2>2. objects' = {} /\ room' = HeapCells /\ registered' = registered
    BY <1>3 DEF HeapInit
  <2>3. Intact' => HeapInOrder'
    BY <2>1, <2>2, Extents DEF HeapInOrder, Wrote, HeapPointer, HeapStart
  <2>4. Intact' => HandlersAsRegistered'
    BY <2>1, <2>2, RowsKept
  <2> QED BY <1>0, <2>1, <2>2, <2>3, <2>4 DEF Untouched
<1>4. ASSUME NEW n \in Sizes, HeapAlloc(n)
      PROVE  /\ Untouched' /\ \E b \in Blocks : \E cells : Wrote(b, cells)
             /\ registered' = registered
  <2>1. Wrote("kheap_ptr", {HeapPointer}) /\ data'[HeapPointer] = data[HeapPointer] + n
    BY <1>4, HeapAllocWrites
  <2>2. /\ registered' = registered /\ room' = room - n
        /\ objects' = objects \cup {[at |-> data[HeapPointer], size |-> n]}
    BY <1>4 DEF HeapAlloc, Given
  <2>3. n \in Nat
    BY ServiceAssumption
  <2>4. HeapPointer' = HeapPointer /\ HeapStart' = HeapStart
    BY <2>1 DEF Wrote, HeapPointer, HeapStart
  <2> DEFINE new == [at |-> data[HeapPointer], size |-> n]
  <2>5. ASSUME Intact' PROVE HeapInOrder'
    <3>0. HeapInOrder
      BY <2>1, <2>5 DEF Wrote, Untouched
    <3>1. /\ data[HeapPointer] \in Int /\ data'[HeapPointer'] = data[HeapPointer] + n
          /\ HeapStart \in Int /\ HeapCells \in Nat /\ room \in Int /\ room' \in Int
      BY <2>1, <2>2, <2>3, <2>4, <3>0, Extents DEF HeapInOrder
    <3>2. /\ new.at \in Int /\ new.size \in Nat
          /\ new.at + new.size = data'[HeapPointer']
      BY <2>3, <3>1
    <3>3. room' >= 0 =>
            /\ room' <= HeapCells /\ data'[HeapPointer'] = HeapStart + HeapCells - room'
            /\ new.at >= HeapStart /\ \A o \in objects : o.at >= HeapStart
      <4> SUFFICES ASSUME room' >= 0
                   PROVE  /\ room' <= HeapCells /\ data'[HeapPointer'] = HeapStart + HeapCells - room'
                          /\ new.at >= HeapStart /\ \A o \in objects : o.at >= HeapStart
        OBVIOUS
      <4>1. room >= 0
        BY <2>2, <2>3, <3>1
      <4>2. /\ room <= HeapCells /\ data[HeapPointer] = HeapStart + HeapCells - room
            /\ \A o \in objects : o.at >= HeapStart
        BY <3>0, <4>1 DEF HeapInOrder
      <4>3. new.at >= HeapStart
        BY <3>1, <4>2
      <4> QED BY <2>2, <2>3, <3>1, <4>2, <4>3
    <3>4. ASSUME NEW o \in objects
          PROVE  /\ o.at \in Int /\ o.size \in Nat
                 /\ o.at + o.size <= new.at /\ o.at + o.size <= data'[HeapPointer']
                 /\ \A p \in objects : o # p => o.at + o.size <= p.at \/ p.at + p.size <= o.at
      BY <2>3, <3>0, <3>1 DEF HeapInOrder
    <3>5. objects' = objects \cup {new}
      BY <2>2
    <3> HIDE DEF new
    <3>6. data'[HeapPointer'] \in Int
      BY <2>3, <3>1
    <3> QED BY <2>4, <3>1, <3>2, <3>3, <3>4, <3>5, <3>6 DEF HeapInOrder
  <2>6. Intact' => HandlersAsRegistered'
    BY <2>1, <2>2, RowsKept
  <2> QED BY <2>1, <2>2, <2>5, <2>6 DEF Untouched
<1>5. ASSUME NEW o \in objects, HeapStore(o, Error)
      PROVE  /\ Untouched' /\ \E b \in Blocks : \E cells : Wrote(b, cells)
             /\ registered' = registered
  <2>1. Wrote("kheap", o.at..(o.at + o.size - 1)) /\ objects' = objects /\ room' = room
        /\ registered' = registered
    BY <1>5, HeapStoreWrites DEF HeapStore, ghosts
  <2>2. Intact' => HeapInOrder' /\ HandlersAsRegistered'
    BY <2>1, HeapKept, RowsKept
  <2> QED BY <2>1, <2>2 DEF Untouched
<1>6. ASSUME NEW p \in Ports, NetAllow(p)
      PROVE  /\ Untouched' /\ \E b \in Blocks : \E cells : Wrote(b, cells)
             /\ registered' = registered
  <2>1. Wrote("net_allow", {PortCell}) /\ objects' = objects /\ room' = room
        /\ registered' = registered
    BY <1>6, NetAllowWrites DEF NetAllow
  <2>2. Intact' => HeapInOrder' /\ HandlersAsRegistered'
    BY <2>1, HeapKept, RowsKept
  <2> QED BY <2>1, <2>2 DEF Untouched
<1>7. ASSUME NEW n \in Numbers, NEW h \in Handlers, SyscallRegister(n, h)
      PROVE  /\ Untouched' /\ \E b \in Blocks : \E cells : Wrote(b, cells)
             /\ registered' \in [Rows -> Handlers \cup {NoHandler, 0}]
  <2>1. /\ Wrote("systab", {SlotCell(n % Slots)})
        /\ n % Slots \in Rows /\ data'[SlotCell(n % Slots)] = h
    BY <1>7, RegisterWrites
  <2>2. registered' = [registered EXCEPT ![n % Slots] = h] /\ objects' = objects /\ room' = room
    BY <1>7 DEF SyscallRegister
  <2>3. Intact' => HeapInOrder'
    BY <2>1, <2>2, HeapKept
  <2>4. ASSUME Intact' PROVE HandlersAsRegistered'
    <3>1. HandlersAsRegistered
      BY <2>1, <2>4 DEF Untouched, Wrote
    <3>2. \A s \in Rows : SlotCell(s)' = SlotCell(s) /\ SlotCell(s) \in Cells
      BY <2>1, Extents, BlocksInside DEF Wrote, SlotCell
    <3>3. \A s \in Rows : s # n % Slots => SlotCell(s) # SlotCell(n % Slots)
      BY <2>1, Extents, LayoutAssumption, SMTT(30) DEF SlotCell, Rows, ServiceTypes
    <3>4. \A s \in Rows : data'[SlotCell(s)] = registered'[s]
      BY <2>1, <2>2, <3>1, <3>2, <3>3, <1>0 DEF Wrote, HandlersAsRegistered, Rows
    <3> QED BY <3>2, <3>4 DEF HandlersAsRegistered, Rows
  <2> QED BY <1>0, <2>1, <2>2, <2>3, <2>4 DEF Untouched
<1> QED
  BY <1>0, <1>1, <1>2, <1>3, <1>4, <1>5, <1>6, <1>7 DEF FileStatement, TableStatement

LEMMA FillKeeps ==
  ASSUME ServiceTypes, Untouched, FillTable
  PROVE  /\ Untouched'
         /\ Wrote("systab", Block("systab"))
         /\ registered' \in [Rows -> Handlers \cup {NoHandler, 0}]
<1>1. /\ Wrote("systab", Block("systab"))
      /\ \A s \in Rows : data'[SlotCell(s)] = NoHandler
  BY FillWrites
<1>2. registered' = [s \in Rows |-> NoHandler] /\ objects' = objects /\ room' = room
  BY DEF FillTable, Rows
<1>3. Intact' => HeapInOrder'
  BY <1>1, <1>2, HeapKept DEF Blocks
<1>4. HandlersAsRegistered'
  <2>1. \A s \in Rows : SlotCell(s)' = SlotCell(s)
    BY <1>1 DEF Wrote, SlotCell
  <2> QED BY <1>1, <1>2, <2>1 DEF HandlersAsRegistered, Rows
<1> QED BY <1>1, <1>2, <1>3, <1>4 DEF Untouched

-----------------------------------------------------------------------------
(* Calls.                                                                  *)

LEMMA Pops ==
  ASSUME NEW s \in Seq(Int), NEW a \in Int, NEW b \in Int
  PROVE  /\ s \o <<a, b>> \in Seq(Int) /\ Front(s \o <<a, b>>) = s \o <<a>>
         /\ s \o <<a>> \in Seq(Int) /\ Front(s \o <<a>>) = s /\ Last(s \o <<a>>) = a
BY DEF Front, Last

LEMMA KernelStep ==
  ASSUME IInv, SyscallInit \/ SyscallTableInit \/ MainStatement
  PROVE  IInv'
<1>1. cpu = "kernel" /\ cpu' = "kernel" /\ UNCHANGED <<nr, rbx, stack, before>>
  BY DEF SyscallInit, SyscallTableInit, MainStatement, Begin, path
<1>2. UnderWay' /\ CallsAnswered'
  BY <1>1 DEF IInv, UnderWay, CallsAnswered, Level
<1>3. CASE SyscallInit
  <2>1. UNCHANGED <<section, ghosts>>
    BY <1>3 DEF SyscallInit
  <2>2. ServiceTypes' /\ Untouched'
    BY <1>1, <1>3, <2>1 DEF IInv, ServiceTypes, Untouched, Intact, HeapInOrder, HandlersAsRegistered,
       HeapPointer, HeapStart, SlotCell, SyscallInit, section, ghosts
  <2> QED BY <1>2, <2>2 DEF IInv
<1>4. CASE SyscallTableInit
  <2>1. FillTable /\ lstar' = "dispatch" /\ UNCHANGED sce
    BY <1>4 DEF SyscallTableInit
  <2>2. Untouched' /\ Wrote("systab", Block("systab"))
        /\ registered' \in [Rows -> Handlers \cup {NoHandler, 0}]
    BY <2>1, FillKeeps DEF IInv
  <2>3. ServiceTypes'
    BY <1>1, <2>1, <2>2, TypesKept DEF IInv, ServiceTypes
  <2> QED BY <1>2, <2>2, <2>3 DEF IInv
<1>5. CASE MainStatement
  <2>1. (FileStatement \/ TableStatement) /\ UNCHANGED <<lstar, sce>>
    BY <1>5 DEF MainStatement, path
  <2>2. /\ Untouched' /\ \E b \in Blocks : \E cells : Wrote(b, cells)
        /\ registered' \in [Rows -> Handlers \cup {NoHandler, 0}]
    BY <2>1, StatementKeeps DEF IInv
  <2>3. ServiceTypes'
    BY <1>1, <2>1, <2>2, TypesKept DEF IInv, ServiceTypes
  <2> QED BY <1>2, <2>2, <2>3 DEF IInv
<1> QED BY <1>3, <1>4, <1>5

\* A service that a handler asks for.
LEMMA ServiceKeeps ==
  ASSUME ServiceTypes, Untouched, Handler
  PROVE  /\ Untouched' /\ registered' = registered
         /\ layout' \in Layouts /\ data' = [c \in Cells |-> data'[c]]
<1>1. ASSUME NEW n \in FileNames, NEW a \in FileAddresses, RamfsPut(n, a, Len(n)),
             UNCHANGED ghosts
      PROVE  /\ Untouched' /\ registered' = registered
             /\ layout' \in Layouts /\ data' = [c \in Cells |-> data'[c]]
  <2>1. Wrote("ramfs", NameCells(FreeEntry, n) \cup {AddressCell(FreeEntry), LengthCell(FreeEntry)})
    BY <1>1, PutWrites
  <2>2. registered' = registered /\ registered' \in [Rows -> Handlers \cup {NoHandler, 0}]
    BY <1>1 DEF ghosts, ServiceTypes
  <2> QED BY <1>1, <2>1, <2>2, FilesKeep, TypesKept
<1>2. CASE UNCHANGED <<section, ghosts>>
  BY <1>2 DEF ServiceTypes, Untouched, Intact, HeapInOrder, HandlersAsRegistered,
     HeapPointer, HeapStart, SlotCell, section, ghosts
<1> QED BY <1>1, <1>2 DEF Handler

\* Steps that leave the tables alone.
LEMMA TablesAlone ==
  ASSUME ServiceTypes, Untouched, UNCHANGED <<section, ghosts>>
  PROVE  /\ Untouched' /\ registered' = registered
         /\ layout' \in Layouts /\ data' = [c \in Cells |-> data'[c]]
BY DEF ServiceTypes, Untouched, Intact, HeapInOrder, HandlersAsRegistered,
     HeapPointer, HeapStart, SlotCell, section, ghosts

LEMMA DispatchStep == ASSUME IInv, Dispatch PROVE IInv'
<1>1. /\ UNCHANGED <<section, ghosts>> /\ UNCHANGED <<lstar, sce, nr, before>>
      /\ stack' = stack \o <<rbx, Back>> /\ rbx' = nr % Slots /\ cpu = "dispatch"
  BY DEF Dispatch
<1>2. nr % Slots \in Rows /\ Level
  <2>1. nr \in Nat /\ Slots \in Nat \ {0}
    BY Extents DEF IInv, ServiceTypes
  <2>2. Level
    BY <1>1 DEF IInv, UnderWay
  <2> QED BY <2>1, <2>2 DEF Rows
<1>3. stack' \in Seq(Int) /\ rbx' \in Int /\ Inside'
  <2>1. stack \in Seq(Int) /\ rbx \in Int /\ Back \in Int /\ stack = before.stack /\ rbx = before.rbx
    BY <1>2 DEF IInv, ServiceTypes, Level, Back
  <2>2. rbx' \in Int
    BY <1>1, <1>2, LayoutAssumption DEF Rows
  <2> QED BY <1>1, <2>1, <2>2, Pops DEF Inside
<1>4. ServiceTypes' /\ Untouched'
  BY <1>1, <1>3, TablesAlone DEF IInv, ServiceTypes
<1>5. cpu' \in {"nosys", "handler", "fault"}
  BY DEF Dispatch
<1>6. ASSUME cpu' = "fault" PROVE Gone'
  <2>1. data[SlotCell(nr % Slots)] \notin Handlers \cup {NoHandler}
    BY <1>6 DEF Dispatch
  <2>2. Intact => registered[nr % Slots] = 0
    BY <1>2, <2>1 DEF IInv, Untouched, HandlersAsRegistered, ServiceTypes, Rows
  <2> QED BY <1>1, <2>2 DEF Gone, Intact, section, ghosts
<1>7. CallsAnswered'
  BY <1>5, <1>6 DEF CallsAnswered, Gone
<1>8. UnderWay'
  BY <1>1, <1>3, <1>5 DEF UnderWay
<1> QED BY <1>4, <1>7, <1>8 DEF IInv

LEMMA CallStep ==
  ASSUME IInv, EnterUser \/ (\E n \in Numbers : UserCall(n)) \/ SystemCall
  PROVE  IInv'
<1> USE DEF IInv
<1>1. CASE EnterUser
  <2>1. ServiceTypes' /\ Untouched'
    BY <1>1, TablesAlone DEF EnterUser, ServiceTypes
  <2>2. UnderWay' /\ CallsAnswered'
    BY <1>1 DEF EnterUser, UnderWay, CallsAnswered, Level
  <2> QED BY <2>1, <2>2
<1>2. ASSUME NEW n \in Numbers, UserCall(n) PROVE IInv'
  <2>1. /\ UNCHANGED <<section, ghosts>> /\ UNCHANGED <<lstar, sce, rbx, stack>>
        /\ nr' = n /\ before' = [rbx |-> rbx, stack |-> stack] /\ n \in Nat
        /\ cpu' = IF sce /\ lstar # "none" THEN lstar ELSE "fault"
    BY <1>2, ServiceAssumption DEF UserCall
  <2>2. ServiceTypes' /\ Untouched'
    BY <2>1, TablesAlone DEF ServiceTypes
  <2>3. cpu' \in {"entry", "dispatch"} \/ (cpu' = "fault" /\ (~sce \/ lstar = "none"))
    BY <2>1 DEF ServiceTypes
  <2>4. UnderWay' /\ CallsAnswered'
    BY <2>1, <2>3 DEF UnderWay, CallsAnswered, Level
  <2> QED BY <2>2, <2>4
<1>3. CASE DefaultEntry
  <2>1. ServiceTypes' /\ Untouched'
    BY <1>3, TablesAlone DEF DefaultEntry, ServiceTypes
  <2>2. UnderWay' /\ CallsAnswered'
    BY <1>3 DEF DefaultEntry, UnderWay, CallsAnswered, Level
  <2> QED BY <2>1, <2>2
<1>4. CASE Dispatch
  BY <1>4, DispatchStep
<1>5. CASE NoSys
  <2>1. ServiceTypes' /\ Untouched'
    BY <1>5, TablesAlone DEF NoSys, ServiceTypes
  <2>2. UnderWay' /\ CallsAnswered'
    BY <1>5 DEF NoSys, UnderWay, CallsAnswered, Inside
  <2> QED BY <2>1, <2>2
<1>6. CASE Handler
  <2>1. /\ cpu = "handler" /\ cpu' = "leave" /\ stack' = Front(stack)
        /\ UNCHANGED <<lstar, sce, nr, rbx, before>>
    BY <1>6 DEF Handler, HandlerReturns
  <2>2. stack' = before.stack \o <<before.rbx>> /\ stack' \in Seq(Int)
    <3>1. /\ Inside /\ before.stack \in Seq(Int) /\ before.rbx \in Int /\ Back \in Int
      BY <2>1 DEF UnderWay, ServiceTypes, Back
    <3>2. /\ Front(before.stack \o <<before.rbx, Back>>) = before.stack \o <<before.rbx>>
          /\ before.stack \o <<before.rbx>> \in Seq(Int)
      BY <3>1, Pops
    <3> QED BY <2>1, <3>1, <3>2 DEF Inside
  <2>3. ServiceTypes' /\ Untouched'
    BY <1>6, <2>1, <2>2, ServiceKeeps DEF ServiceTypes
  <2>4. UnderWay' /\ CallsAnswered'
    BY <2>1, <2>2 DEF UnderWay, CallsAnswered
  <2> QED BY <2>3, <2>4
<1>7. CASE Leave
  <2>1. /\ UNCHANGED <<section, ghosts>> /\ UNCHANGED <<lstar, sce, nr, before>>
        /\ cpu = "leave" /\ cpu' = "user" /\ rbx' = Last(stack) /\ stack' = Front(stack)
    BY <1>7 DEF Leave
  <2>2. rbx' = before.rbx /\ stack' = before.stack
    <3>1. before.stack \in Seq(Int) /\ before.rbx \in Int
      BY DEF ServiceTypes
    <3>2. stack = before.stack \o <<before.rbx>>
      BY <2>1 DEF UnderWay
    <3>3. Front(before.stack \o <<before.rbx>>) = before.stack /\ Last(before.stack \o <<before.rbx>>) = before.rbx
      BY <3>1, Pops
    <3> QED BY <2>1, <3>2, <3>3
  <2>3. ServiceTypes' /\ Untouched'
    BY <2>1, <2>2, TablesAlone DEF ServiceTypes
  <2>4. UnderWay' /\ CallsAnswered'
    BY <2>1, <2>2 DEF UnderWay, CallsAnswered
  <2> QED BY <2>3, <2>4
<1> QED BY <1>1, <1>2, <1>3, <1>4, <1>5, <1>6, <1>7 DEF SystemCall

-----------------------------------------------------------------------------
(* The invariant.                                                          *)

LEMMA Initially == Init => IInv
<1> SUFFICES ASSUME Init PROVE IInv
  OBVIOUS
<1> USE DEF Init, SectionInit, TablesInit
<1>1. ServiceTypes
  <2>1. data = [c \in Cells |-> data[c]]
    OBVIOUS
  <2>2. registered \in [Rows -> Handlers \cup {NoHandler, 0}]
    BY DEF Rows
  <2>3. rbx \in Int /\ stack \in Seq(Int) /\ before.rbx \in Int /\ before.stack \in Seq(Int)
    BY DEF Mine
  <2> QED BY <2>1, <2>2, <2>3 DEF ServiceTypes
<1>2. HeapInOrder /\ HandlersAsRegistered
  BY <1>1, Extents, BlocksInside
     DEF HeapInOrder, HandlersAsRegistered, Rows, Blocks
<1>3. UnderWay /\ CallsAnswered
  BY DEF UnderWay, CallsAnswered, Level
<1> QED BY <1>1, <1>2, <1>3 DEF IInv, Untouched

LEMMA Inductive == IInv /\ [Next]_vars => IInv'
<1> SUFFICES ASSUME IInv, [Next]_vars PROVE IInv'
  OBVIOUS
<1>1. CASE UNCHANGED vars
  <2>1. UNCHANGED <<section, ghosts>> /\ UNCHANGED path
    BY <1>1 DEF vars
  <2>2. ServiceTypes' /\ Untouched'
    BY <2>1, TablesAlone DEF IInv, ServiceTypes, path
  <2>3. UnderWay' /\ CallsAnswered'
    BY <2>1 DEF IInv, UnderWay, CallsAnswered, Level, Inside, Intact, path, section, ghosts
  <2> QED BY <2>2, <2>3 DEF IInv
<1>2. CASE Next
  BY <1>2, KernelStep, CallStep DEF Next
<1> QED BY <1>1, <1>2

\* A system call comes back to the user with rbx and the stack as they were, or with
\* an error and two words on the stack if its number has no handler; it faults only if
\* it was made before the tables were in place or after they were written over
\* (the dispatcher and the two stubs of the system call path).
THEOREM CallsComeBack == Spec => []CallsAnswered
<1>1. IInv => CallsAnswered
  BY DEF IInv
<1> QED BY Initially, Inductive, <1>1, PTL DEF Spec

-----------------------------------------------------------------------------
(* What leaves its block.                                                  *)

MayStray(b) ==
  \/ b = "ramfs" /\ FreeEntry = Entries
  \/ b = "kheap" /\ (room < 0 \/ ~Intact)

OnlyMayStray == \A b \in strays' \ strays : MayStray(b)

LEMMA KeepsInside ==
  ASSUME NEW b, NEW cells, Wrote(b, cells), cells \subseteq Block(b) \/ MayStray(b)
  PROVE  OnlyMayStray
BY DEF Wrote, OnlyMayStray

LEMMA PutStays ==
  ASSUME ServiceTypes, NEW n \in FileNames, NEW a \in FileAddresses, RamfsPut(n, a, Len(n))
  PROVE  OnlyMayStray
BY PutWrites, PutInside, KeepsInside DEF MayStray

LEMMA StatementInside ==
  ASSUME ServiceTypes, Untouched, FileStatement \/ TableStatement
  PROVE  OnlyMayStray
<1>1. CASE RamfsInit
  BY <1>1, InitWrites, KeepsInside
<1>2. ASSUME NEW n \in FileNames, NEW a \in FileAddresses, RamfsPut(n, a, Len(n))
      PROVE  OnlyMayStray
  BY <1>2, PutStays
<1>3. CASE HeapInit
  BY <1>3, HeapInitWrites, Extents, KeepsInside
<1>4. ASSUME NEW n \in Sizes, HeapAlloc(n) PROVE OnlyMayStray
  BY <1>4, HeapAllocWrites, Extents, KeepsInside
<1>5. ASSUME NEW o \in objects, HeapStore(o, Error) PROVE OnlyMayStray
  <2> DEFINE cells == o.at..(o.at + o.size - 1)
  <2>1. Wrote("kheap", cells)
    BY <1>5, HeapStoreWrites
  <2>2. ASSUME room >= 0, Intact PROVE cells \subseteq Block("kheap")
    <3>1. HeapInOrder
      BY <2>2 DEF Untouched
    <3>2. /\ o.at \in Int /\ o.size \in Nat /\ room \in Int /\ o.at >= HeapStart
          /\ o.at + o.size <= HeapStart + HeapCells - room
      BY <2>2, <3>1 DEF HeapInOrder
    <3> QED BY <2>2, <3>2, Extents
  <2>3. Intact => room \in Int
    BY DEF Untouched, HeapInOrder
  <2>4. cells \subseteq Block("kheap") \/ MayStray("kheap")
    BY <2>2, <2>3 DEF MayStray
  <2> QED BY <2>1, <2>4, KeepsInside
<1>6. ASSUME NEW p \in Ports, NetAllow(p) PROVE OnlyMayStray
  BY <1>6, NetAllowWrites, Extents, KeepsInside
<1>7. ASSUME NEW n \in Numbers, NEW h \in Handlers, SyscallRegister(n, h) PROVE OnlyMayStray
  BY <1>7, RegisterWrites, Extents, KeepsInside
<1> QED
  BY <1>1, <1>2, <1>3, <1>4, <1>5, <1>6, <1>7 DEF FileStatement, TableStatement

\* No statement and no handler writes outside the block of its own table, but for a
\* put into a full file table, and a store to an object that the heap had no room for,
\* that was given out before the heap was made, or through a pointer that had been
\* written over (_kernel_ramfs_put, _kernel_heap_alloc in codegen.py).
THEOREM OwnBlocks == Spec => StaysInBlock
<1>1. IInv /\ [Next]_vars => [OnlyMayStray]_section
  <2> SUFFICES ASSUME IInv, [Next]_vars PROVE OnlyMayStray \/ UNCHANGED section
    OBVIOUS
  <2> USE DEF IInv
  <2>1. CASE UNCHANGED vars
    BY <2>1 DEF vars
  <2>2. CASE SyscallTableInit
    BY <2>2, FillWrites, KeepsInside DEF SyscallTableInit
  <2>3. CASE MainStatement
    BY <2>3, StatementInside DEF MainStatement
  <2>4. CASE Handler
    BY <2>4, PutStays DEF Handler
  <2>5. CASE SyscallInit \/ EnterUser \/ (\E n \in Numbers : UserCall(n))
               \/ DefaultEntry \/ Dispatch \/ NoSys \/ Leave
    BY <2>5 DEF SyscallInit, EnterUser, UserCall, DefaultEntry, Dispatch, NoSys, Leave
  <2> QED BY <2>1, <2>2, <2>3, <2>4, <2>5 DEF Next, SystemCall
<1>2. [OnlyMayStray]_section <=> [\A b \in strays' \ strays :
                                    \/ b = "ramfs" /\ FreeEntry = Entries
                                    \/ b = "kheap" /\ (room < 0 \/ ~Intact)]_section
  BY DEF OnlyMayStray, MayStray
<1> QED BY Initially, Inductive, <1>1, <1>2, PTL DEF Spec, StaysInBlock

-----------------------------------------------------------------------------
(* The list of ports: adding a power of two to a number sets the one bit.  *)

LEMMA Quotient ==
  ASSUME NEW v \in Nat, NEW d \in Nat \ {0}
  PROVE  v \div d \in Nat /\ v % d \in 0..(d - 1) /\ v = d * (v \div d) + (v % d)
<1>1. v \div d \in Int /\ v % d \in 0..(d - 1)
  BY SMT
<1>2. v = d * (v \div d) + (v % d)
  BY SMT
<1> QED BY <1>1, <1>2, SMT

LEMMA QuotientIs ==
  ASSUME NEW d \in Nat \ {0}, NEW q \in Nat, NEW r \in 0..(d - 1)
  PROVE  (d * q + r) \div d = q
OBVIOUS

LEMMA SameBit ==
  ASSUME NEW v \in Nat, NEW d \in Nat \ {0}
  PROVE  (v + d) \div d = (v \div d) + 1
<1> DEFINE q == v \div d
           r == v % d
<1>1. q \in Nat /\ r \in 0..(d - 1) /\ v = d * q + r
  BY Quotient
<1> HIDE DEF q, r
<1>2. v + d = d * (q + 1) + r
  BY <1>1
<1>3. (d * (q + 1) + r) \div d = q + 1
  BY <1>1, QuotientIs
<1> QED BY <1>2, <1>3 DEF q

LEMMA LowerBit ==
  ASSUME NEW v \in Nat, NEW d \in Nat \ {0}, NEW m \in Nat
  PROVE  (v + d * 2 * m) \div d = (v \div d) + 2 * m
<1> DEFINE q == v \div d
           r == v % d
<1>1. q \in Nat /\ r \in 0..(d - 1) /\ v = d * q + r
  BY Quotient
<1> HIDE DEF q, r
<1>2. v + d * 2 * m = d * (q + 2 * m) + r
  BY <1>1
<1>3. (d * (q + 2 * m) + r) \div d = q + 2 * m
  BY <1>1, QuotientIs
<1> QED BY <1>2, <1>3 DEF q

LEMMA HigherBit ==
  ASSUME NEW v \in Nat, NEW d \in Nat \ {0}, NEW m \in Nat \ {0}, (v \div d) % 2 = 0
  PROVE  (v + d) \div (d * 2 * m) = v \div (d * 2 * m)
<1> DEFINE w == v \div d
           r == v % d
           n == 2 * m
           q == w \div n
           s == w % n
<1>1. w \in Nat /\ r \in 0..(d - 1) /\ v = d * w + r /\ w % 2 = 0
  BY Quotient
<1>2. n \in Nat \ {0} /\ n = 2 * m
  OBVIOUS
<1> HIDE DEF w, r, n
<1>3. q \in Nat /\ s \in 0..(n - 1) /\ w = n * q + s
  BY <1>1, <1>2, Quotient
<1> HIDE DEF q, s
<1>4. s + 1 \in 0..(n - 1)
  <2>1. w = 2 * (m * q) + s /\ m * q \in Nat
    BY <1>2, <1>3
  <2>2. s % 2 = 0
    BY <1>1, <1>3, <2>1
  <2> QED BY <1>2, <1>3, <2>2
<1>5. ASSUME NEW t \in 0..(n - 1)
      PROVE  (d * (n * q + t) + r) \div (d * n) = q
  <2>1. d * n \in Nat \ {0}
    BY <1>2
  <2>2. d * t + r \in Nat /\ d * t <= d * (n - 1)
    BY <1>1, <1>2
  <2>3. d * (n - 1) = d * n - d
    BY <1>2
  <2>4. d * t + r \in 0..(d * n - 1)
    BY <1>1, <2>1, <2>2, <2>3
  <2>5. d * (n * q + t) + r = (d * n) * q + (d * t + r)
    BY <1>1, <1>2, <1>3
  <2> DEFINE dn == d * n
             z == d * t + r
  <2> HIDE DEF dn, z
  <2>6. (dn * q + z) \div dn = q
    BY <1>3, <2>1, <2>4, QuotientIs DEF dn, z
  <2> QED BY <2>5, <2>6 DEF dn, z
<1>6. v = d * (n * q + s) + r /\ v + d = d * (n * q + (s + 1)) + r /\ d * 2 * m = d * n
  BY <1>1, <1>2, <1>3
<1>7. v \div (d * n) = q /\ (v + d) \div (d * n) = q
  BY <1>3, <1>4, <1>5, <1>6
<1> QED BY <1>6, <1>7

BitNumbers == 0..(Bits - 1)
Bit(v, k) == (v \div 2 ^ k) % 2 = 1

LEMMA SetsBit ==
  ASSUME NEW v \in Nat, NEW k \in BitNumbers, ~Bit(v, k)
  PROVE  /\ v + 2 ^ k \in Nat
         /\ \A j \in BitNumbers : Bit(v + 2 ^ k, j) <=> Bit(v, j) \/ j = k
<1> DEFINE d == 2 ^ k
<1>1. d \in Nat \ {0} /\ v \div d \in Nat /\ (v \div d) % 2 = 0
  <2>1. d \in Nat \ {0}
    BY TableAssumption DEF BitNumbers
  <2>2. (v \div d) % 2 # 1
    BY DEF Bit
  <2> HIDE DEF d
  <2>3. v \div d \in Nat
    BY <2>1, Quotient
  <2> QED BY <2>1, <2>2, <2>3
<1> SUFFICES ASSUME NEW j \in BitNumbers PROVE Bit(v + d, j) <=> Bit(v, j) \/ j = k
  BY <1>1
<1> DEFINE e == 2 ^ j
<1>2. e \in Nat \ {0} /\ v \div e \in Nat
  BY TableAssumption, Quotient DEF BitNumbers
<1>3. CASE j = k
  <2>1. (v + d) \div d = (v \div d) + 1
    BY <1>1, SameBit
  <2> HIDE DEF d
  <2>2. ((v + d) \div d) % 2 = 1
    BY <1>1, <2>1
  <2> QED BY <1>3, <2>2 DEF Bit, d
<1>4. CASE j < k
  <2> DEFINE m == 2 ^ (k - j - 1)
  <2>1. m \in Nat /\ d = e * 2 * m
    <3>1. j \in 0..(k - 1) /\ k - j - 1 \in 0..(Bits - 1)
      BY <1>4, LayoutAssumption DEF BitNumbers
    <3> QED BY <3>1, TableAssumption DEF BitNumbers
  <2> HIDE DEF m, d, e
  <2>2. (v + d) \div e = (v \div e) + 2 * m
    BY <1>2, <2>1, LowerBit
  <2>3. ((v + d) \div e) % 2 = (v \div e) % 2
    BY <1>2, <2>1, <2>2
  <2> QED BY <1>4, <2>3 DEF Bit, e, BitNumbers
<1>5. CASE j > k
  <2> DEFINE m == 2 ^ (j - k - 1)
  <2>1. m \in Nat \ {0} /\ e = d * 2 * m
    <3>1. k \in 0..(j - 1) /\ j - k - 1 \in 0..(Bits - 1)
      BY <1>5, LayoutAssumption DEF BitNumbers
    <3> QED BY <3>1, TableAssumption DEF BitNumbers
  <2> HIDE DEF m, d, e
  <2>2. (v + d) \div e = v \div e
    BY <1>1, <2>1, HigherBit
  <2>3. j # k
    BY <1>5 DEF BitNumbers
  <2> QED BY <2>2, <2>3 DEF Bit, e
<1>6. j = k \/ j < k \/ j > k
  BY DEF BitNumbers
<1> HIDE DEF d, e
<1> QED BY <1>3, <1>4, <1>5, <1>6

PortBits ==
  Intact =>
    /\ data[PortCell] \in Nat
    /\ \A k \in BitNumbers : Bit(data[PortCell], k) <=> \E q \in allowed : q % Bits = k

LEMMA PortKept ==
  ASSUME ServiceTypes, PortBits, allowed' = allowed,
         NEW b \in Blocks, b # "net_allow", NEW cells, Wrote(b, cells)
  PROVE  PortBits'
<1> SUFFICES ASSUME Intact' PROVE PortBits'
  BY DEF PortBits
<1>1. Intact /\ data'[PortCell] = data[PortCell]
  BY Extents, OthersKept DEF Blocks
<1>2. PortCell' = PortCell
  BY DEF Wrote, PortCell
<1> QED BY <1>1, <1>2 DEF PortBits

LEMMA PortAllowed ==
  ASSUME ServiceTypes, PortBits, NEW p \in Ports, NetAllow(p)
  PROVE  PortBits'
<1> SUFFICES ASSUME Intact' PROVE PortBits'
  BY DEF PortBits
<1> DEFINE v == data[PortCell]
           k == p % Bits
<1>1. /\ Intact /\ PortCell' = PortCell /\ PortCell \in Cells /\ allowed' = allowed \cup {p}
      /\ data'[PortCell] = IF Bit(v, k) THEN v ELSE v + 2 ^ k
  <2>1. PortCell \in Cells
    BY Extents, BlocksInside DEF Blocks
  <2>2. Intact
    BY NetAllowWrites DEF Wrote
  <2> QED BY <2>1, <2>2 DEF NetAllow, Write, PortCell, HasBit, BitOf, Bit
<1>2. v \in Nat /\ \A j \in BitNumbers : Bit(v, j) <=> \E q \in allowed : q % Bits = j
  BY <1>1 DEF PortBits
<1>3. k \in BitNumbers
  BY TableAssumption, LayoutAssumption DEF BitNumbers
<1> HIDE DEF v, k
<1>4. /\ data'[PortCell] \in Nat
      /\ \A j \in BitNumbers : Bit(data'[PortCell], j) <=> Bit(v, j) \/ j = k
  BY <1>1, <1>2, <1>3, SetsBit
<1>5. \A j \in BitNumbers : (\E q \in allowed' : q % Bits = j) <=> (\E q \in allowed : q % Bits = j) \/ j = k
  BY <1>1 DEF k
<1> QED BY <1>1, <1>2, <1>4, <1>5 DEF PortBits

LEMMA PortsStart == Init => PortBits
<1> SUFFICES ASSUME Init PROVE PortBits
  OBVIOUS
<1>1. ServiceTypes
  BY Initially DEF IInv
<1>2. data[PortCell] = 0 /\ allowed = {}
  BY <1>1, Extents, BlocksInside DEF Init, SectionInit, TablesInit, Blocks
<1>3. ASSUME NEW k \in BitNumbers PROVE ~Bit(0, k)
  <2> DEFINE d == 2 ^ k
  <2>1. d \in Nat \ {0}
    BY TableAssumption DEF BitNumbers
  <2> HIDE DEF d
  <2>2. 0 \div d = 0
    BY <2>1
  <2> QED BY <2>2 DEF Bit, d
<1> QED BY <1>2, <1>3 DEF PortBits

LEMMA PortsStep ==
  ASSUME IInv, PortBits, [Next]_vars
  PROVE  PortBits'
<1>0. ServiceTypes
  BY DEF IInv
<1>1. CASE UNCHANGED <<section, allowed>>
  BY <1>1 DEF PortBits, PortCell, Intact, section
<1>2. CASE SyscallTableInit
  BY <1>0, <1>2, FillWrites, PortKept DEF SyscallTableInit, FillTable, Blocks
<1>3. ASSUME NEW n \in FileNames, NEW a \in FileAddresses, RamfsPut(n, a, Len(n)), UNCHANGED ghosts
      PROVE  PortBits'
  BY <1>0, <1>3, PutWrites, PortKept DEF ghosts, Blocks
<1>4. CASE MainStatement
  <2>1. CASE FileStatement
    BY <1>0, <1>3, <2>1, InitWrites, PortKept DEF FileStatement, ghosts, Blocks
  <2>2. CASE HeapInit
    BY <1>0, <2>2, HeapInitWrites, PortKept DEF HeapInit, Blocks
  <2>3. ASSUME NEW n \in Sizes, HeapAlloc(n) PROVE PortBits'
    BY <1>0, <2>3, HeapAllocWrites, PortKept DEF HeapAlloc, Given, Blocks
  <2>4. ASSUME NEW o \in objects, HeapStore(o, Error) PROVE PortBits'
    BY <1>0, <2>4, HeapStoreWrites, PortKept DEF HeapStore, ghosts, Blocks
  <2>5. ASSUME NEW n \in Numbers, NEW h \in Handlers, SyscallRegister(n, h) PROVE PortBits'
    BY <1>0, <2>5, RegisterWrites, PortKept DEF SyscallRegister, Blocks
  <2> QED BY <1>0, <1>4, <2>1, <2>2, <2>3, <2>4, <2>5, PortAllowed DEF MainStatement, TableStatement
<1>5. CASE SyscallInit \/ EnterUser \/ (\E n \in Numbers : UserCall(n))
             \/ DefaultEntry \/ Dispatch \/ NoSys \/ Leave \/ UNCHANGED vars
  BY <1>1, <1>5 DEF SyscallInit, EnterUser, UserCall, DefaultEntry, Dispatch, NoSys, Leave, ghosts, vars
<1>6. CASE Handler
  BY <1>1, <1>3, <1>6 DEF Handler, ghosts
<1> QED BY <1>2, <1>4, <1>5, <1>6 DEF Next, SystemCall

\* As long as nothing has been written over a neighbour, objects of the heap lie apart,
\* and inside it if no more was asked for than heap_init made; an allowed port passes,
\* and no other does unless it shares its low bits with an allowed one; every row of
\* the system call table has the handler it was given last (_kernel_heap_alloc,
\* _kernel_net_allow, _kernel_syscall_register in codegen.py).
THEOREM TablesStayRight == Spec => []TablesHold
<1>1. IInv /\ PortBits => TablesHold
  <2> SUFFICES ASSUME IInv, PortBits, Intact
               PROVE  /\ ObjectsApart /\ (room >= 0 => ObjectsInHeap)
                      /\ PortsAsAllowed /\ HandlersAsRegistered
    BY DEF TablesHold
  <2>1. HeapInOrder /\ HandlersAsRegistered
    BY DEF IInv, Untouched
  <2>2. ObjectsApart
    BY <2>1 DEF HeapInOrder, ObjectsApart
  <2>3. ASSUME room >= 0 PROVE ObjectsInHeap
    <3>1. HeapStart \in Nat /\ HeapCells \in Nat
      BY Extents DEF IInv
    <3> QED BY <2>1, <2>3, <3>1 DEF HeapInOrder, ObjectsInHeap
  <2>4. ASSUME NEW p \in Ports PROVE NetCheck(p) = 1 <=> \E q \in allowed : q % Bits = p % Bits
    <3>1. p % Bits \in BitNumbers
      BY TableAssumption, LayoutAssumption DEF BitNumbers
    <3> QED BY <3>1 DEF PortBits, NetCheck, HasBit, BitOf, Bit
  <2>5. PortsAsAllowed
    BY <2>4 DEF PortsAsAllowed, Mistaken
  <2> QED BY <2>1, <2>2, <2>3, <2>5
<1>2. IInv /\ PortBits /\ [Next]_vars => PortBits'
  BY PortsStep
<1> QED BY Initially, Inductive, PortsStart, <1>1, <1>2, PTL DEF Spec

-----------------------------------------------------------------------------
(* The file table among the others.                                        *)

OnlyFilesStray == strays \subseteq {"ramfs"}

FilesInv == IInv /\ (OnlyFilesStray => TableInOrder)

FileStep == OnlyFilesStray' => TableInOrder' /\ [Files!MapNext]_mapped

LEMMA NeighbourWrites ==
  ASSUME FilesInv, NEW b \in Blocks, NEW cells, Wrote(b, cells), b # "ramfs"
  PROVE  FileStep
<1> SUFFICES ASSUME OnlyFilesStray' PROVE TableInOrder' /\ UNCHANGED mapped
  BY DEF FileStep
<1>1. cells \subseteq Block(b) /\ OnlyFilesStray
  BY DEF OnlyFilesStray, Wrote
<1>2. TableInOrder /\ ServiceTypes
  BY <1>1 DEF FilesInv, IInv
<1>3. \A c \in Block("ramfs") : data'[c] = data[c]
  BY <1>1, <1>2, BlocksApart, BlocksInside DEF Wrote, Blocks
<1> QED BY <1>2, <1>3, TableSame, SameStutters DEF Wrote

LEMMA FileStatementMaps ==
  ASSUME FilesInv,
         RamfsInit \/ \E n \in FileNames, a \in FileAddresses : RamfsPut(n, a, Len(n))
  PROVE  FileStep
<1> SUFFICES ASSUME OnlyFilesStray' PROVE TableInOrder' /\ [Files!MapNext]_mapped
  BY DEF FileStep
<1>1. strays \subseteq strays'
  BY DEF RamfsInit, RamfsPut, Write
<1>2. TableInOrder
  BY <1>1 DEF OnlyFilesStray, FilesInv
<1>3. CASE RamfsInit
  BY <1>2, <1>3, InitFormats DEF Files!MapNext
<1>4. ASSUME NEW n \in FileNames, NEW a \in FileAddresses, RamfsPut(n, a, Len(n))
      PROVE  TableInOrder' /\ [Files!MapNext]_mapped
  BY <1>2, <1>4, PutPuts, FullPutStutters, SameStutters
<1> QED BY <1>3, <1>4

LEMMA TableStatementMaps ==
  ASSUME FilesInv, TableStatement
  PROVE  FileStep
<1>0. ServiceTypes
  BY DEF FilesInv, IInv
<1> USE DEF Blocks
<1>1. CASE HeapInit
  BY <1>0, <1>1, HeapInitWrites, NeighbourWrites
<1>2. ASSUME NEW n \in Sizes, HeapAlloc(n) PROVE FileStep
  BY <1>0, <1>2, HeapAllocWrites, NeighbourWrites
<1>3. ASSUME NEW o \in objects, HeapStore(o, Error) PROVE FileStep
  BY <1>3, HeapStoreWrites, NeighbourWrites
<1>4. ASSUME NEW p \in Ports, NetAllow(p) PROVE FileStep
  BY <1>4, NetAllowWrites, NeighbourWrites
<1>5. ASSUME NEW n \in Numbers, NEW h \in Handlers, SyscallRegister(n, h) PROVE FileStep
  BY <1>0, <1>5, RegisterWrites, NeighbourWrites
<1> QED BY <1>1, <1>2, <1>3, <1>4, <1>5 DEF TableStatement

\* As long as only puts have written outside their block, the file table is a map of
\* names with room for as many puts as it has entries, whatever the statements around
\* it do (_kernel_ramfs_init, _put and _get in codegen.py).
THEOREM FilesAreAMap == Spec => IsFileMap
<1>1. Init => FilesInv /\ Files!MapInit
  <2> SUFFICES ASSUME Init PROVE FilesInv /\ Files!MapInit
    OBVIOUS
  <2>1. IInv
    BY Initially
  <2>2. Zeroed
    BY <2>1, BlocksInside DEF IInv, Init, SectionInit, Zeroed, Blocks
  <2> QED BY <2>1, <2>2, ZeroedIsEmpty, MapStarts DEF Empty, FilesInv
<1>2. FilesInv /\ [Next]_vars => FilesInv' /\ FileStep
  <2> SUFFICES ASSUME FilesInv, [Next]_vars PROVE FileStep
    BY Inductive DEF FilesInv, FileStep
  <2>1. ASSUME UNCHANGED section PROVE FileStep
    <3> SUFFICES ASSUME OnlyFilesStray' PROVE TableInOrder' /\ UNCHANGED mapped
      BY DEF FileStep
    <3>1. TableInOrder
      BY <2>1 DEF FilesInv, OnlyFilesStray, section
    <3> QED BY <2>1, <3>1, TableSame, SameStutters DEF section
  <2>2. CASE UNCHANGED vars
    BY <2>1, <2>2 DEF vars
  <2>3. CASE SyscallTableInit
    BY <2>3, FillWrites, NeighbourWrites DEF SyscallTableInit, FilesInv, IInv, Blocks
  <2>4. CASE MainStatement
    BY <2>4, FileStatementMaps, TableStatementMaps DEF MainStatement, FileStatement
  <2>5. CASE Handler
    BY <2>1, <2>5, FileStatementMaps DEF Handler
  <2>6. CASE SyscallInit \/ EnterUser \/ (\E n \in Numbers : UserCall(n))
               \/ DefaultEntry \/ Dispatch \/ NoSys \/ Leave
    BY <2>1, <2>6 DEF SyscallInit, EnterUser, UserCall, DefaultEntry, Dispatch, NoSys, Leave
  <2> QED BY <2>2, <2>3, <2>4, <2>5, <2>6 DEF Next, SystemCall
<1>3. FileStep => [strays' \subseteq {"ramfs"} => Files!MapNext]_(Files!MapVars)
  BY DEF FileStep, OnlyFilesStray, Files!MapVars, mapped
<1> QED BY <1>1, <1>2, <1>3, PTL DEF Spec, IsFileMap
=============================================================================
