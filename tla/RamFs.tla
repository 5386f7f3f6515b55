-------------------------------- MODULE RamFs --------------------------------
(***************************************************************************)
(* The RAM file system of the kernel target: kernel:ramfs_init, ramfs_put  *)
(* and ramfs_get (ACLM/codegen.py, _kernel_ramfs_init, _put, _get).  Each  *)
(* is a straight run of instructions in a kernel with one processor, so    *)
(* here it is one step; its loops are what they find and write.            *)
(***************************************************************************)
EXTENDS DataSection

CONSTANTS FileNames,      \* names as sequences of characters, that is, of numbers above 0
          FileAddresses   \* addresses of files

\* A name that fills the field is cut off, and found under what is left of it.
Short(n) == Len(n) < NameBytes
KeyOf(n) == IF Short(n) THEN n ELSE SubSeq(n, 1, NameBytes - 1)

ASSUME FileAssumption ==
  /\ FileNames \subseteq Seq(Nat \ {0}) /\ <<>> \in FileNames
  /\ \A n \in FileNames : KeyOf(n) \in FileNames
  /\ FileAddresses \subseteq Nat \ {0}

\* The bytes of a name in memory, with the zero behind it.
Char(n, k) == IF k <= Len(n) THEN n[k] ELSE 0

Entry(i) == layout["ramfs"] + i * EntryCells
AddressCell(i) == Entry(i) + NameBytes
LengthCell(i) == AddressCell(i) + 1

\* Where the search of a put stops: the first entry with no name, or behind them all.
IsFree(i) == data[Entry(i)] = 0
FreeEntry ==
  IF \E i \in 0..(Entries - 1) : IsFree(i)
  THEN CHOOSE i \in 0..(Entries - 1) : IsFree(i) /\ \A j \in 0..(i - 1) : ~IsFree(j)
  ELSE Entries

\* The copy stops behind a zero, or writes one into the last byte.
NameCells(i, n) ==
  IF i = Entries THEN {}
  ELSE Entry(i)..(Entry(i) + (IF Len(n) < NameBytes THEN Len(n) ELSE NameBytes - 1))
NameByte(i, n, c) ==
  IF c = Entry(i) + NameBytes - 1 THEN 0 ELSE Char(n, c - Entry(i) + 1)

\* Fault variant: the end of the name is not compared.
MatchesPrefix(i, n) == \A k \in 1..NameBytes : Char(n, k) # 0 => data[Entry(i) + k - 1] = Char(n, k)

\* A get compares byte by byte until the bytes differ or were both zero, or to the
\* end of the field.
Matches(i, n) ==
  \A k \in 1..NameBytes :
    (\A j \in 1..(k - 1) : Char(n, j) # 0) => data[Entry(i) + k - 1] = Char(n, k)

Found(n) ==
  IF \E i \in 0..(Entries - 1) : Matches(i, n)
  THEN data[AddressCell(CHOOSE i \in 0..(Entries - 1) :
                          Matches(i, n) /\ \A j \in 0..(i - 1) : ~Matches(j, n))]
  ELSE 0

-----------------------------------------------------------------------------

RamfsInit == Write("ramfs", Block("ramfs"), LAMBDA c : 0)

\* Address and length are stored also when there was no entry.
RamfsPut(n, a, l) ==
  LET i == FreeEntry IN
  Write("ramfs", NameCells(i, n) \cup {AddressCell(i), LengthCell(i)},
        LAMBDA c : IF c = AddressCell(i) THEN a
                   ELSE IF c = LengthCell(i) THEN l
                   ELSE NameByte(i, n, c))

RamfsGet(n) == Found(n)

-----------------------------------------------------------------------------
(* The table as a map.                                                     *)

Keys == {n \in FileNames : Short(n)}

Files == INSTANCE FileMap WITH
  Names <- Keys, Addresses <- FileAddresses, Capacity <- Entries,
  Nameless <- <<>>,
  files <- [n \in Keys |-> Found(n)], used <- FreeEntry
=============================================================================
