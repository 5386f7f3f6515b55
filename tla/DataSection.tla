----------------------------- MODULE DataSection -----------------------------
(***************************************************************************)
(* The part of a kernel image's data section that its service statements   *)
(* share.  Each block is laid out where the first statement that needs it  *)
(* stands in the program (data_layout and data_bytes in ACLM/codegen.py),  *)
(* so any order of the blocks occurs; one follows the other without a gap. *)
(* A cell is a byte of a file name, or a word.                             *)
(***************************************************************************)
EXTENDS Integers, Sequences, FiniteSets

CONSTANTS
  Entries, NameBytes,  \* of the file table (8 and 16)
  Slots,               \* of the system call table (64)
  Bits,                \* of the list of allowed ports (64)
  HeapCells,           \* the size given to heap_init
  Base,                \* where the section begins in memory
  Layouts              \* for each order of first use, where each block begins

Blocks == {"ramfs", "systab", "net_allow", "kheap", "kheap_ptr"}
EntryCells == NameBytes + 2   \* the name, the address and the length of a file
Size(b) ==
  CASE b = "ramfs" -> Entries * EntryCells
    [] b = "systab" -> Slots
    [] b = "kheap" -> HeapCells
    [] b \in {"net_allow", "kheap_ptr"} -> 1
Total == Size("ramfs") + Size("systab") + Size("kheap") + 2
Cells == Base..(Base + Total + EntryCells)   \* with what follows the section in memory

Extent(l, b) == l[b]..(l[b] + Size(b) - 1)

ASSUME LayoutAssumption ==
  /\ {Entries, NameBytes, Slots, Bits, HeapCells, Base} \subseteq Nat \ {0}
  /\ NameBytes > 1
  /\ \A l \in Layouts :
       /\ l \in [Blocks -> Base..(Base + Total)]
       /\ \A b \in Blocks : l[b] + Size(b) <= Base + Total
       /\ \A b, c \in Blocks : b # c => Extent(l, b) \cap Extent(l, c) = {}

VARIABLES
  data,    \* the contents
  layout,  \* where the blocks are in this program
  strays   \* history: the blocks whose statements have written outside them

section == <<data, layout, strays>>

Intact == strays = {}

Block(b) == Extent(layout, b)

SectionInit ==
  /\ data = [c \in Cells |-> 0]
  /\ layout \in Layouts
  /\ strays = {}

\* A statement that owns block b writes to cells of memory, of which those outside the
\* section and what follows it are not kept.
Write(b, cells, Value(_)) ==
  /\ data' = [c \in Cells |-> IF c \in cells THEN Value(c) ELSE data[c]]
  /\ strays' = strays \cup (IF cells \subseteq Block(b) THEN {} ELSE {b})
  /\ UNCHANGED layout
=============================================================================
