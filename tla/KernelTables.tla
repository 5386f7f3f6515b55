----------------------------- MODULE KernelTables -----------------------------
(***************************************************************************)
(* The other tables of the kernel target that statements keep in the data  *)
(* section: the bump heap (kernel:heap_init, heap_alloc), the list of      *)
(* allowed ports (net_allow_port, net_check_port) and the system call      *)
(* table (syscall_table_init, syscall_register) of ACLM/codegen.py.        *)
(***************************************************************************)
EXTENDS DataSection

CONSTANTS Ports, Handlers, NoHandler

\* What is used of powers of two, which holds for every number of bits.
ASSUME TableAssumption ==
  /\ Ports \subseteq Nat
  /\ Handlers \cup {NoHandler} \subseteq Nat \ {0}   \* addresses of code
  /\ \A k \in 0..(Bits - 1) :
       2 ^ k \in Nat \ {0} /\ \A j \in 0..(k - 1) : 2 ^ k = 2 ^ j * 2 * 2 ^ (k - j - 1)

VARIABLES
  objects,     \* history: what heap_alloc has given out since heap_init
  room,        \* history: what heap_init made less what was asked for, below zero before it
  allowed,     \* history: the ports that were allowed
  registered   \* history: the handler each slot was given last

ghosts == <<objects, room, allowed, registered>>

TablesInit ==
  /\ objects = {} /\ room = -1
  /\ allowed = {}
  /\ registered = [s \in 0..(Slots - 1) |-> 0]

HeapStart == layout["kheap"]
HeapPointer == layout["kheap_ptr"]
PortCell == layout["net_allow"]
SlotCell(s) == layout["systab"] + s

-----------------------------------------------------------------------------
(* Heap.                                                                   *)

HeapInit ==
  /\ Write("kheap_ptr", {HeapPointer}, LAMBDA c : HeapStart)
  /\ objects' = {} /\ room' = HeapCells
  /\ UNCHANGED <<allowed, registered>>

\* What was given out: memory from where the pointer was.
Given(n) ==
  /\ objects' = objects \cup {[at |-> data[HeapPointer], size |-> n]}
  /\ room' = room - n
  /\ UNCHANGED <<allowed, registered>>

\* Fault variant: the pointer is moved by one cell, whatever the size.
HeapAllocOne(n) ==
  /\ Write("kheap_ptr", {HeapPointer}, LAMBDA c : data[HeapPointer] + 1)
  /\ Given(n)

\* It looks neither at what is left nor at whether the heap has been initialised.
HeapAlloc(n) ==
  /\ Write("kheap_ptr", {HeapPointer}, LAMBDA c : data[HeapPointer] + n)
  /\ Given(n)

\* The program writes to what it was given, wherever that is.
HeapStore(o, v) ==
  /\ Write("kheap", o.at..(o.at + o.size - 1), LAMBDA c : v)
  /\ UNCHANGED ghosts

-----------------------------------------------------------------------------
(* Ports: one bit for all that agree in their low bits.                    *)

BitOf(p) == 2 ^ (p % Bits)
HasBit(v, p) == (v \div BitOf(p)) % 2 = 1

NetAllow(p) ==
  /\ Write("net_allow", {PortCell},
           LAMBDA c : IF HasBit(data[c], p) THEN data[c] ELSE data[c] + BitOf(p))
  /\ allowed' = allowed \cup {p}
  /\ UNCHANGED <<objects, room, registered>>

NetCheck(p) == IF HasBit(data[PortCell], p) THEN 1 ELSE 0

-----------------------------------------------------------------------------
(* System call table.                                                      *)

FillTable ==
  /\ Write("systab", Block("systab"), LAMBDA c : NoHandler)
  /\ registered' = [s \in 0..(Slots - 1) |-> NoHandler]
  /\ UNCHANGED <<objects, room, allowed>>

\* Fault variant: the number is not reduced.
SyscallRegisterUnmasked(nr, h) ==
  /\ Write("systab", {SlotCell(nr)}, LAMBDA c : h)
  /\ registered' = [registered EXCEPT ![nr % Slots] = h]
  /\ UNCHANGED <<objects, room, allowed>>

SyscallRegister(nr, h) ==
  /\ Write("systab", {SlotCell(nr % Slots)}, LAMBDA c : h)
  /\ registered' = [registered EXCEPT ![nr % Slots] = h]
  /\ UNCHANGED <<objects, room, allowed>>

-----------------------------------------------------------------------------

\* As long as nothing has been written over a neighbour: objects of the heap are
\* apart, and inside it if no more was asked for than heap_init made; allowed ports
\* pass and no others do, but for those the code cannot tell from an allowed one; every
\* slot has the handler it was given last.
ObjectsApart ==
  \A o, p \in objects : o # p => o.at + o.size <= p.at \/ p.at + p.size <= o.at
ObjectsInHeap ==
  \A o \in objects : o.at >= HeapStart /\ o.at + o.size <= HeapStart + HeapCells

\* KERNEL_CONTRACT.md has these refused; the code lets them pass.
Mistaken(p) == p \notin allowed /\ \E q \in allowed : q % Bits = p % Bits
PortsAsAllowed ==
  \A p \in Ports : ~Mistaken(p) => (NetCheck(p) = 1 <=> p \in allowed)

HandlersAsRegistered ==
  \A s \in 0..(Slots - 1) : data[SlotCell(s)] = registered[s]

TablesHold ==
  Intact => /\ ObjectsApart /\ (room >= 0 => ObjectsInHeap)
            /\ PortsAsAllowed /\ HandlersAsRegistered
=============================================================================
