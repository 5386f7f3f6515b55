---------------------------- MODULE KernelServices ----------------------------
(***************************************************************************)
(* A kernel that uses the file table, the heap, the port list and the      *)
(* system call table, enters user mode, and serves system calls there:     *)
(* RamFs and KernelTables composed through the path of a system call       *)
(* (ACLM/codegen.py, _kernel_syscall_init, _kernel_syscall_table_init,     *)
(* _kernel_enter_user).                                                    *)
(*                                                                         *)
(* The main program is any sequence of the statements.  The handlers are   *)
(* routines of the program that make one service call and return, and keep *)
(* rcx and r11, in which the processor has put where to go back to.  The   *)
(* pages and the task segment that user mode needs are the program's own   *)
(* affair, since the image has none; interrupts are left to IrqKernel.     *)
(***************************************************************************)
EXTENDS RamFs, KernelTables, SequencesExt

CONSTANTS
  Sizes,      \* of heap objects
  Numbers,    \* of system calls, as registered and as called
  MaxStmts, MaxCalls  \* bounds

ASSUME ServiceAssumption == Numbers \subseteq Nat /\ Sizes \subseteq Nat

VARIABLES
  lstar,    \* where the processor goes on a system call
  sce,      \* EFER.SCE: the instruction is enabled
  cpu,      \* what is executing
  nr,       \* rax at the call
  rax, rbx, stack,   \* rax is the answer; the stack is the caller's throughout
  before,   \* history: rbx and the stack when the call was made
  stmts, calls

path == <<lstar, sce, cpu, nr, rax, rbx, stack, before>>
vars == <<section, ghosts, path, stmts, calls>>

Error == -1
Mine == 7       \* what the user keeps in rbx
Back == 100     \* the return address inside the dispatcher

Init ==
  /\ SectionInit /\ TablesInit
  /\ lstar = "none" /\ sce = FALSE /\ cpu = "kernel"
  /\ nr = 0 /\ rax = 0 /\ rbx = Mine /\ stack = <<>>
  /\ before = [rbx |-> Mine, stack |-> <<>>]
  /\ stmts = 0 /\ calls = 0

-----------------------------------------------------------------------------
(* The main program.                                                       *)

Begin ==
  /\ cpu = "kernel" /\ stmts < MaxStmts
  /\ stmts' = stmts + 1
  /\ UNCHANGED calls

\* It enables the instruction, and points it at the stub that only returns.
SyscallInit ==
  /\ Begin
  /\ sce' = TRUE /\ lstar' = "entry"
  /\ UNCHANGED <<section, ghosts, cpu, nr, rax, rbx, stack, before>>

\* It fills the table, and points the instruction at the dispatcher.
SyscallTableInit ==
  /\ Begin
  /\ FillTable
  /\ lstar' = "dispatch"
  /\ UNCHANGED <<sce, cpu, nr, rax, rbx, stack, before>>

FileStatement ==
  /\ \/ RamfsInit
     \/ \E n \in FileNames, a \in FileAddresses : RamfsPut(n, a, Len(n))
  /\ UNCHANGED ghosts

TableStatement ==
  \/ HeapInit
  \/ \E n \in Sizes : HeapAlloc(n)
  \/ \E o \in objects : HeapStore(o, Error)
  \/ \E p \in Ports : NetAllow(p)
  \/ \E n \in Numbers, h \in Handlers : SyscallRegister(n, h)

MainStatement == Begin /\ (FileStatement \/ TableStatement) /\ UNCHANGED path

EnterUser ==
  /\ cpu = "kernel" /\ cpu' = "user"
  /\ UNCHANGED <<section, ghosts, lstar, sce, nr, rax, rbx, stack, before, stmts, calls>>

-----------------------------------------------------------------------------
(* A system call.                                                          *)

UserCall(n) ==
  /\ cpu = "user" /\ calls < MaxCalls
  /\ calls' = calls + 1
  /\ nr' = n
  /\ before' = [rbx |-> rbx, stack |-> stack]
  /\ cpu' = IF sce /\ lstar # "none" THEN lstar ELSE "fault"
  /\ UNCHANGED <<section, ghosts, lstar, sce, rax, rbx, stack, stmts>>

\* __syscall_entry: sysret and nothing else.
DefaultEntry ==
  /\ cpu = "entry" /\ cpu' = "user"
  /\ rax' = nr
  /\ UNCHANGED <<section, ghosts, lstar, sce, nr, rbx, stack, before, stmts, calls>>

\* __syscall_dispatch up to the call.
Dispatch ==
  LET target == data[SlotCell(nr % Slots)] IN
  /\ cpu = "dispatch"
  /\ stack' = stack \o <<rbx, Back>>
  /\ rbx' = nr % Slots
  /\ cpu' = IF target = NoHandler THEN "nosys"
            ELSE IF target \in Handlers THEN "handler" ELSE "fault"
  /\ rax' = target
  /\ UNCHANGED <<section, ghosts, lstar, sce, nr, before, stmts, calls>>

\* __nosys answers the user itself, from inside the dispatcher's call.
NoSys ==
  /\ cpu = "nosys" /\ cpu' = "user"
  /\ rax' = Error
  /\ UNCHANGED <<section, ghosts, lstar, sce, nr, rbx, stack, before, stmts, calls>>

\* A handler's one service, and its ret.
HandlerReturns == cpu' = "leave" /\ stack' = Front(stack)

Handler ==
  /\ cpu = "handler"
  /\ \/ /\ \E n \in FileNames, a \in FileAddresses : RamfsPut(n, a, Len(n))
        /\ UNCHANGED <<ghosts, rax>>
     \/ /\ \E n \in FileNames : rax' = RamfsGet(n)
        /\ UNCHANGED <<section, ghosts>>
     \/ /\ \E p \in Ports : rax' = NetCheck(p)
        /\ UNCHANGED <<section, ghosts>>
  /\ HandlerReturns
  /\ UNCHANGED <<lstar, sce, nr, rbx, before, stmts, calls>>

\* Fault variant: rbx is not given back.
LeaveNoPop ==
  /\ cpu = "leave" /\ cpu' = "user"
  /\ UNCHANGED <<section, ghosts, lstar, sce, nr, rax, rbx, stack, before, stmts, calls>>

\* pop rbx; sysret
Leave ==
  /\ cpu = "leave" /\ cpu' = "user"
  /\ rbx' = Last(stack) /\ stack' = Front(stack)
  /\ UNCHANGED <<section, ghosts, lstar, sce, nr, rax, before, stmts, calls>>

SystemCall == DefaultEntry \/ Dispatch \/ NoSys \/ Handler \/ Leave

Next ==
  \/ SyscallInit \/ SyscallTableInit \/ MainStatement \/ EnterUser
  \/ \E n \in Numbers : UserCall(n)
  \/ SystemCall

Spec == Init /\ [][Next]_vars

-----------------------------------------------------------------------------
(* Properties.                                                             *)

\* The file table is a map with room for as many puts as it has entries, whoever
\* makes them, and whatever the statements around them do, for as long as only puts
\* have written outside their block.
IsFileMap ==
  Files!MapInit /\ [][strays' \subseteq {"ramfs"} => Files!MapNext]_(Files!MapVars)

\* What leaves its own block is a put into a full table, or a store to an object of
\* the heap: one that heap_alloc gave out when there was not that much left, or through
\* a heap that was never made, or after the pointer had been written over.
StaysInBlock ==
  [][\A b \in strays' \ strays :
       \/ b = "ramfs" /\ FreeEntry = Entries
       \/ b = "kheap" /\ (room < 0 \/ ~Intact)]_section

\* A call comes back to the user with rbx and the stack as they were, unless its
\* number has no handler: then two words stay on the stack, and rbx is the row of the
\* table.  It faults only if it was made before both initialisations, or through a
\* table that had not been filled or had been written over.
CallsAnswered ==
  /\ cpu = "user" =>
       \/ rbx = before.rbx /\ stack = before.stack
       \/ rax = Error /\ rbx = nr % Slots /\ stack = before.stack \o <<before.rbx, Back>>
  /\ cpu = "fault" => ~sce \/ lstar = "none" \/ ~Intact \/ registered[nr % Slots] = 0
=============================================================================
