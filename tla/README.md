# Verification of the ACLM compiler

ACLM is a compiler written in Python (`src/ACLM/`). It translates a language of
named machine operations to x86-64 machine code, for Linux processes or for a
freestanding multiboot kernel, and does the encoding, the linking and the image
files itself. Almost everything interesting about it happens in two places:

* in **what it emits**: `codegen.py` carries the thread runtime, the lock, the
  descriptor ring, the interrupt stubs, the system call path and the string and
  block loops of every compiled program as instruction sequences. Their
  interleavings are never written down as such, and the tests of the repository
  run each of them once, mostly on one thread;
* in **how it emits**: `codegen.py` moves operands that may be any registers
  through a few temporaries, and `x64enc.py` has some two hundred methods that
  each build their own prefix, ModRM and SIB bytes. The tests use a handful of
  registers.

The modules in this directory model both. Conventions: an action is named after
the function or the piece of emitted code it stands for; a definition marked
"Fault variant" is a way the code could plausibly have been wrong, is used by no
specification, and exists so that each property can be shown to notice it
(`PROJECT.json`, `mutants`). `PROJECT.json` also gives the source lines of every
definition.

## 1. Inventory

| Component | Source | State | Operations | What is hard, what makes it correct | Modules |
|---|---|---|---|---|---|
| Thread runtime | `codegen.py` 1470-1589 | `__thr_futex`: done, joined, spawn counts; futex sleepers | thread:spawn, join, join_all, exit | unlocked load-add-store counters, a futex whose expected value is read late, a clone that may fail, round budgets. join_all is a barrier; no wake is lost by the futex itself; no join uses a completion that an earlier one used | `ThreadRuntime` |
| Spin lock | `codegen.py` 1256-1275 | a lock word, store buffers | gate:spin, ram:write as release | the release is a plain store. Exclusion; what is written under the lock is seen under it | `SpinLock`, `Mutex`, `LockedRing` |
| DMA ring | `codegen.py` 2576-2670, `parser.py` | head, tail, mask, slots | dma_ring_init, push, pop | two contexts, no lock of its own, wrap-around by mask. First in, first out, whole descriptors | `DmaRing`, `BoundedQueue`, `LockedRing` |
| Interrupt path | `codegen.py` 1854-1951, 2007-2051, 2212-2244, 2385-2469, 2543-2575 | IDT, IF, interrupt controller, `__irq_gprs` | idt_install, tick_install, irq_full_save_on, pf_install, nmi_install, pic remap, sti, cli, the stubs | gates are patched by several stores on a live IDT; the static save block; end of interrupt. No interrupt astray but in the two windows of the stores, no register lost, the timer is served | `IrqKernel` |
| Statement lowering | `codegen.py` | registers, stack and memory of the running statement | 53 statements | operands in registers the lowering itself uses; push and pop order; loops that must end | `Lowering`, `Processor` |
| Functions and calls | `codegen.py` 296-330, 1662-1760 | stack, frame and argument registers | call, prologue, locals, push, pop, ret, epilogue | frames that nest, words pushed inside them, interruptions that use the same stack. A function gives back its caller's registers; a frame keeps what is in it | `CallFrames` |
| Instruction encoder | `x64enc.py` | the bytes so far | 205 instructions | special registers (rsp, rbp, r12, r13, byte registers), immediates of several widths, prefix tables | `Encoder`, `X86` |
| Assembler, linker, image layout | `x64enc.py`, `elfwriter.py`, `kernel_boot.py`, `codegen.py` 97-207 | code, labels, fixups, data layout | emit, label, link, four image writers | the linker computes where the writer will put the data | `Assembler` |
| System call table | `codegen.py` 2300-2341, 2470-2542 | 64 handlers, LSTAR | syscall_init, table_init, register, dispatch | order of the three statements; masking of the number; two ways back | `KernelServices`, `KernelTables`, `DataSection` |
| RAM file system | `codegen.py` 2060-2176 | eight entries of name, address, length | ramfs_init, put, get | full table, repeated and long names | `RamFs`, `FileMap`, `DataSection` |
| Heap, port allow list | `codegen.py` 1803-1827, 2245-2289 | bump pointer; 64-bit mask | heap_init, alloc; net_allow, net_check | no bound; modulo 64 | `KernelTables`, `DataSection` |
| Context switch | `codegen.py` 1828-1853, 1952-1957 | saved registers | ctx_save, ctx_load, coop_switch | stack pointer saved in the middle of a push | `Lowering` |
| Boot path, user mode | `kernel_boot.py`, `codegen.py` 2194-2211 | page tables, GDT | trampoline, enter_user | operands in the register the frame is built through | enter_user in `Lowering` and `KernelServices`; trampoline only as an offset in `Assembler` |
| Front end: includes, macros, local labels | `compiler.py` | text, macro table, set of files seen | passes over the text | repeated expansion and its limit, parameters that begin alike, include cycles, labels of several calls | `FrontEnd` |
| Vector and rarely used statements | `codegen.py` | registers | single instructions | their encodings | `Encoder` |
| Ports, serial, keyboard, printk, network card registers | `codegen.py` | device registers | polling loops, loads and stores | borrowed registers | `Lowering` |
| Lexer, parser, register map | `lexer.py`, `parser.py`, `regs.py` | position in the text | scan, recursive descent | what a left-over `$` does, the rounding of ring sizes, the reserved registers | `FrontEnd`, `DmaRing`, `Lowering` |
| Strict mode, listings, debug sections, driver | `strict.py`, `elfwriter.py`, `compiler.py` | none | warnings, I/O | no effect on the program | not modelled, see section 7 |

**How they interact.** The driver runs include, macro and local-label passes over
the text, then lexer and parser; `CodeGen.generate` lays out the data section,
walks the statements and calls methods of the `Assembler` object, which appends
bytes and records fixups; `link` fills the fixups in, with the distance to the
data that the ELF writer (or `build_long_mode_kernel`) is going to use. At run time the
threads of a program share only memory: `__thr_futex`, lock words, rings. In a
kernel the interrupt stubs share registers, `__tick`, `__irq_gprs` and the IDT
with the program they interrupt.

**Behaviours that are hard to test** are listed with their lines in
`PROJECT.json`, `hazards`, each with the properties that would notice it going
wrong, or why there is none yet.

## 2. Modules and the code they model

### ThreadRuntime (`codegen.py`, `_thread_spawn` .. `_thread_exit`)

`done_count`, `joined_count`, `spawn_count` are the three words of
`__thr_futex`; `pc` is the place in the emitted code, `rax`, `rdx`, `fuel` (r14)
the registers that carry a value from one access to the next. One action is one
access to the shared block or one system call; the test after a load is an
action of its own where it reads memory again (`JoinCompare`,
`JoinAllCompare`). The program is a constant: `Script[l]` is the list of thread
statements executed from label `l`; the run's main program spawns, joins, spawns
again, joins a second time and then joins all. `ThreadSpawn` is mmap and clone, with the
possible failure of either, after which the parent counts a worker that never
runs. `FutexWait` compares and sleeps in one step, as the kernel does;
`FutexInterrupted` is a signal. What is not a thread statement is left out: it
touches none of this state. Memory is sequentially consistent. On x86 a load may
overtake an earlier store of the same thread to another word; here that is only
the store of spawn_count or joined before the loads of a later join, which in a
fork-join program are read by the thread that stored them, and the store of done is
followed by a system call.

### SpinLock and Mutex (`_gate_spin`, `_mem_store`)

The lock is taken by `lock cmpxchg` and given back by an ordinary store, so
here memory has x86's store buffers: `WriteCount` and `Release` append to
`buf[t]`, `Drain` writes the oldest entry to memory, and `SpinAcquire` waits for
an empty buffer, as a locked instruction does. `Mutex` is the abstract lock: an
owner and a counter that only the owner changes. The owner of a `SpinLock` state
is the thread in its critical section *or with stores still buffered*.

### DmaRing and BoundedQueue (`_kernel_dma_ring_init`, `_push`, `_pop`)

Head, tail, mask and the slots of `__dmaring`; a producer and a consumer that
each keep what they have read. The initialisation is three stores, each eight
bytes wide over four-byte fields as in the code. `RoundSlots` is the parser's
rounding to a power of two. `BoundedQueue` is a queue of at most `Slots - 1`
descriptors; the refinement takes the slots from tail to head. Memory is
sequentially consistent, which for one producer and one consumer and no store
that a later load of the same side must not pass is what x86 gives.

### LockedRing (composition of `SpinLock` and `DmaRing`)

`dma_ring_push` takes no lock: two producers at once would read the same head and
write the same slot. `LockedRing` is the program that does it right, with threads
that push in turn while they hold the lock of `SpinLock` (`HolderPushes`, between the
load and the store of the counter the lock guards), and a consumer that pops
without it. The ring is initialised before the threads start. A push's own stores are
not buffered here: they stand in the holder's buffer before those of `SpinLock`, and the next
holder's exchange succeeds only after all of them. Every property of the lock and
of the ring is checked of the composition.

### IrqKernel (`_kernel_idt_install` .. `_kernel_irq_full_save_on`)

The main program is any straight line of at most `MaxStmts` of the statements,
chosen step by step, including those that re-enable interrupts in between.
A gate has the two 16-bit parts of an address and a present bit; installing is
three groups of stores, an interrupt may come between any two, and the
registers that hold the gate's address are the ones the stubs use. The handlers may lie anywhere, and idt_install may be
executed again on the IDT in use. `declared` is
the compile-time state: the later installers write a gate only if idt_install
stands before them in the source. `IrqSave`, `IrqCount`, `IrqEoi` and `IrqReturn` are the
two stubs. The interrupt controller, the devices, the non-maskable interrupt and
the processor's entry through a gate are the environment.

### Processor and Lowering (`codegen.py`)

`Processor` executes a small instruction set (moves, arithmetic, loads,
stores, push, pop, compare, branches, `rep`, `lock cmpxchg`, `syscall`, ports,
`iretq`) on fifteen registers, a stack and a ring of `MemSize` cells.
`Lowering` has for each of 53 statements the sequence that the code generator
emits, built from `Eval` (`_eval`), `Via`, `Gather`, `Save` and `Restore` as the
methods are, and what the statement says it does: `Effect` on the result,
`Memory`, the `Request` made of the system, and `Spoiled`, the registers the documents
let it leave changed. `Overwritten` are those the code changes all the same. The 53 are arithmetic and comparison, loads and stores, lea,
system calls and call arguments, the block and string loops (`blast:`, `wire:`), the
`cell:`, `net:`, `epoll` and `pulse:` calls, compare-and-swap, heap_alloc,
tick_read, preempt_arm, kbd_poll, serial_putc, printk, the network card's
registers, ctx_save, ctx_load and coop_switch, and enter_user. Every initial
state is one statement with operands; the run executes the sequence.
`Apart` says which operands a lowering can take: no operand is in a register the
lowering has overwritten before it reads it (`Written`). That is the contract
that the code keeps, found by model checking; section 6 says what lies outside it.

### CallFrames (`codegen.py`, `A.Call` in `_emit`, `_emit_fn`, `_fn_epilogue`)

A program is a set of functions with the sizes of their locals. One action is one
machine instruction of a call, a prologue or an epilogue; a body is any sequence
of statements (assign a register or a local, push, pop, call, ret), chosen step
by step. `frames` is a history of what each activation's caller relies on (stack
pointer, registers, where it returns) and of what the activation itself has put
into its locals and pushed. `Interruption` uses `IrqWords` words of the same
stack, `RedZone` words below rsp: a signal handler of a Linux process leaves 16
words alone, an interrupt gate of the kernel target none. Words are of eight
bytes; two of the six argument registers are there. As in the code, `ret` may
stand anywhere, also with words still pushed.

### DataSection, RamFs, FileMap, KernelTables, KernelServices

`DataSection` is the part of a kernel image that the service statements share: a
block per service, in the order in which the program first uses them, one behind
the other, from `Base` on, so that address 0 lies outside. `Write` is a statement that
owns one block and writes to some cells; `strays` remembers the blocks whose
statements have written outside them. `RamFs` has ramfs_init, put and
get on the bytes of the table, as the loops compare and copy them. A statement
is one step, because the kernel target has one processor and `KernelServices` has no
interrupts: its handlers and its main program never run at the same time.
`FileMap` is what a program may expect: a map from names to addresses with room
for as many puts as there are entries, in which the first put of a name counts, a
put into a full map is lost, and a file without a name lasts until the next put.
`RamFs` gives the refinement mapping; names are those that fit the field.

`KernelTables` adds the bump heap, the port list and the system call table.
`HeapAlloc` looks at nothing, as in the code: neither at what is left nor at whether there is
a heap; `room` is a history of what heap_init made less what was asked for.
`Mistaken` are the ports that pass because they share their low bits with an allowed one.
`KernelServices` composes both with the path of a system call: `SyscallInit` and
`SyscallTableInit` point the processor at one of the two entries, in any order and
number; after `EnterUser`, `UserCall` goes to the entry, `Dispatch` masks the
number, saves rbx and jumps through the table, a `Handler` makes one service call,
`NoSys` answers by itself from inside the dispatcher's call, `Leave` returns.
The handlers keep rcx and r11, in which the processor has put the way back: a
ramfs statement in a handler clobbers rcx in the emitted code, so a handler has to
save it, and the model has handlers that do.

### FrontEnd (`compiler.py`)

`resolve_includes`, `expand_macros` and `expand_local_labels`, line by line and
pass by pass, and the lexer's refusal of a text with a `$` left in it. The
recursion of `resolve_includes` is `stack`. Words are sequences of atoms, since
a parameter is replaced inside a word (`Replaced` is Python's `str.replace`) and
may begin with the name of another. `Meant` is what the text means: inclusions
and calls carried out at once, all parameters together, each label belonging to
the call it stands in. `Regular` names what the replacement one after the other
takes for granted. `FrontEnd` was also compared with the Python functions on
18,946 programs of the run's kind: there was no difference.

### X86, Encoder and Assembler (`x64enc.py`, `elfwriter.py`, `kernel_boot.py`)

`Encoder` has the bytes of every instruction method, by the same decisions
(displacement, SIB, REX, the four forms of a constant, the two- and three-byte
VEX prefixes) in the same order. `X86` is written from the processor's
instruction format and not from the compiler: it decodes bytes to an operation
with its operands. `Assembler` appends calls and labels to a program, records
fixups, lays out the data section, links, and places code and data as the four
image writers do. For all 10,574 calls that `MCAssembler` makes, the bytes of
`Encoder` were also compared with what the Python methods return: there was no difference.

### Proof modules

`ThreadRuntime_proofs`, `IrqKernel_proofs`, `CallFrames_proofs`, `KernelServices_proofs`,
`Lowering_proofs` and `Assembler_proofs` extend the module they are named after with its
theorems and lemmas. `LockAndRing_proofs` extends `LockedRing`, and so both `SpinLock`
and `DmaRing`; the specification of `DmaRing` is therefore `RingSpec`, with `RingInit`, `RingNext` and
`RingTypeOK`. `Straight_proofs` is the first part of what is proved about `Lowering`, and
`Lowering_proofs` extends it. See section 5.

## 3. The runs

A passing run finished without an error; a violation run is expected to be
violated and stands for a disagreement between the code and what is written
about it (`PROJECT.json`, `findings`).

| Run | Result | Distinct states | What it shows |
|---|---|---|---|
| `thread_join_all` | passes | 155,299 | Three workers, of which one may fail to start, and a main thread that joins after two spawns, joins again after a third and then joins all; every interleaving. Counters are right (`DoneBacked`, `SpawnsCounted`), the second join does not return on the completion the first one used (`JoinsBacked`), join_all is a barrier (`JoinAllBarrier`), no sleeper is left on an old value (`NoStaleSleeper`), the budgets are no timeouts (`BudgetBound`), and a join_all that begins a round after the last completion returns (`LateJoinAllReturns`) |
| `thread_lost_wake` | violated | | One worker and join_all: the worker ends between the comparison and the second read, and the joiner sleeps for ever |
| `locked_ring` | passes | 167,400 | Two threads that take the lock three times each and push once under it, and a consumer; a ring asked for with three slots has four. The lock: exclusion, publication, refinement of `Mutex`, progress. The ring: delivery in order of six descriptors from two producers, disjoint slots, refinement of `BoundedQueue`, everything pushed is popped |
| `irq_kernel` | passes | 403,840 | Any six statements, idt_install among them any number of times, with three interrupts at any place, and handlers in two 64 KiB blocks: an interrupt goes astray between the two stores of an address, through that gate, or while idt_install has a gate cleared, and nowhere else (`NoEntryAstray`); gates as installed, registers untouched, one interrupt at a time, the timer is served |
| `lowering` | passes | 657,707 | Every statement with every combination of sampled operands that is `Apart`: it does what it says, disturbs no register but those of `Overwritten`, and ends |
| `lowering_keeps` | violated | | gate:cas leaves r12 or r13 changed, and wire:len and wire:emit of a sum r12, which the documents say they keep |
| `assembler` | passes | 519,225 | Every sampled call decodes to what was asked for; every program of up to four calls and labels links so that branches and addresses arrive, in four layouts; code and data share no page under --wx |
| `assembler_pext` | violated | | pext and pdep are each other |
| `call_frames` | passes | 1,867,048 | Two functions with and without locals and arguments, nested to depth two, with an interruption at any instruction that spares a red zone: operands arrive, frames keep what is in them, registers and stack are given back |
| `fn_epilogue_irq` | violated | | The same without a red zone, as in a kernel: an interrupt between the two instructions that set rsp in the epilogue overwrites the saved registers |
| `kernel_services` | passes | 919,808 | Any six statements over the file table, the heap, the ports and the system call table, in two layouts, then two system calls from user code. The file table is a map for as long as only puts have strayed (`IsFileMap`); what strays is a put into a full table, or a store to an object that is more than heap_init made or was given out through a pointer that was never set or was written over (`StaysInBlock`); until then the tables hold what they were given (`TablesHold`); and each call comes back with its registers or for a stated reason does not (`CallsAnswered`) |
| `front_end` | passes | 268,105 | Three files that include each other in every way, and main files that call two macros with any bodies of sampled lines: the text that is parsed is the one meant, refusals are for the fault they name, and every text is parsed or refused |

### Bounds, and why they are enough

* `ThreadRuntime`: three workers are needed for two to collide on `done` while a
  third sleeps or is being counted. `JoinBudget` and `JoinAllBudget` (200000
  and 500000 in the code) are 9, which is more than the 2 * 3 + 1 rounds that
  `BudgetBound` says can be used up; so no join falls out of its loop in the
  passing run, and that it cannot is what is checked. One signal. `MayFail`
  holds one worker; with it `join_all` may wait for a completion that never comes,
  which the liveness properties allow since they start at done >= spawn.
* `LockedRing`: two threads and a second round are what brings a thread back to the
  lock while its release is still buffered and the other one waits; six pushes wrap
  around four slots, and three rounds let the ring fill up under a holder.
* `IrqKernel`: `LastVector` = 17 instead of 255, with timer and keyboard at 15 and
  16 instead of 32 and 33, so the fill loop stays a loop and crosses every vector that
  matters. The handlers lie in two 64 KiB blocks, the two stubs of the timer in the other one
  than the default handler, so that an address of two halves is none of a handler's.
  Six statements are enough for idt_install, remap,
  two installers, sti and a second idt_install.
* `Lowering`: registers hold numbers and not 64-bit words: no lowering depends on
  width except through the encodings, which `Encoder` covers. A memory ring of 40
  cells holds the strings, the blocks and two saved contexts. A sum of two registers
  stands for every compound operand. The direction flag is clear. For sendto and
  recvfrom only the first four arguments are promised: r8 and r9 are left as they are.
  `wire_copy` is run on strings that do not overlap, ctx_load on blocks that
  ctx_save has written, and the length of a block is a count, not negative. A cell may hold
  any number; what goes over the serial line is its last byte. The run takes about half a minute.
* `CallFrames`: `RedZone` = 4, the number of saved registers, is the least that is
  enough, which the proof shows; it is 16 in a Linux process. One interruption of
  five words reaches below everything the epilogue uncovers. Depth two is a call inside a
  call, also of a function by itself; three statements are enough to push, call and
  return with the word still pushed. `StackTop` = 40 words are never used up.
* `KernelServices`: two entries, so that a table fills up within four statements
  and an entry has a neighbour on either side; names of up to three characters in
  fields of three, so that one is cut off; two slots and two bits, so that numbers and
  ports wrap. Objects of two cells in a heap of three: the second one does not fit. In the
  first layout the put into a full table stores the file's address in the heap's pointer,
  in the second in the system call table, and the heap lies in front of the files; one
  file address is inside the section. Six statements are three puts and what uses
  the damage, or heap_init, two allocations, a store and a statement on what it reached.
* `FrontEnd`: three files with at most two lines each make every small cycle and
  diamond; two macros whose bodies are one or two of six and five sampled lines
  (labels, jumps, parameters, calls in both directions, a parameter where a macro's
  name is) make every small recursion. `MaxPasses` is 4 instead of 64, which the
  chains of calls of the sample reach. The run takes about a minute.
* `Assembler`: `Page` = 16 instead of 4096, so that short programs cross pages.
  Longer programs consist of seven calls and two labels; single calls of everything.
  The run keeps out of what the methods cannot do: see below.

### Where the encoder's own limits are

The run `assembler` calls each method with what it can encode. Outside that, and so
outside `Disassembles`:

* set on the condition `abe`, which is "below or equal" in its table and "above or
  equal" for jumps; cmov has condition names of its own;
* bases r8 to r15 for prefetch, clflush, ldmxcsr, stmxcsr, fxsave, fxrstor, invlpg and vmovups;
* bases rsp and r12 for xchg with memory, cmov from memory, cmpxchg8b and 16b,
  lidt, lgdt, and vmovups with a displacement;
* displacements of more than a byte for lea, lock cmpxchg, vmovups and the methods
  without SIB;
* immediates of more than 32 bits for imul and test, which are cut off and not
  refused; movbe between registers, which no processor has;
* --wx together with -g or for a bare-metal program: the linker allows for a padding
  which those two writers do not insert.

## 4. Fairness and deadlock

* `ThreadRuntime`: weak fairness of each thread's `Step`. The operating system runs
  every thread that can run; a sleeper's step is not enabled until it is woken.
  There is no fairness on signals.
* `LockedRing`: weak fairness of the initialisation, of each thread's statements
  (`ThreadStep`, `HolderPushes`), of the consumer, which polls, and of each `Drain`: store
  buffers empty by themselves. `SpinAcquire` is enabled only while the word is
  0, so a thread is not promised the lock, and `Progress` only says
  that *some* thread gets in.
* `IrqKernel`: weak fairness of the handler's steps and of taking an interrupt that
  the controller keeps offering; none on the devices, on the program, or on the
  non-maskable interrupt.
* `Lowering`: weak fairness of the processor's next instruction.
* `FrontEnd`: weak fairness of the next step of the compiler, which is sequential.
* `Assembler`, `CallFrames` and `KernelServices` have no liveness property: nothing in
  them waits.

`CHECK_DEADLOCK FALSE` stands in the configurations whose programs end: threads
that have exited, rounds that are used up, a processor that has been halted, a
statement at its end, a linked program, a text that is parsed, bounds that are reached. `LockedRing` is checked for deadlock:
its consumer polls, also on an empty ring, so something is always enabled,
and that what waits goes on is for `Progress` and `Delivered` to say.

## 5. What is proved

All theorems are for every value of the constants, under the assumptions named in
the component's module and those named in the theorem; none bounds the number of
threads, rounds, slots, pushes, frames, statements or calls. Every safety and action
property that the runs check of the thread runtime, the lock, the ring, the interrupt
path, the calls, the kernel's services and the lowerings is proved, and of the assembler
that links arrive and segments stay apart.

**ThreadRuntime_proofs.** `TypeCorrect` and `DoneIsBacked` hold for any script. A
fork-join program (`ForkJoin`: the main thread does all spawning and joining, and
only workers use thread:exit) has the inductive invariant `ForkJoinInv`: the
types, `DoneBacked`, that worker and main code are at disjoint locations, and
`SpawnsCounted`. `DoneBacked` speaks of the registers that still hold a copy of
`done` too, without which it would not be inductive; that done >= spawn means
"everybody has signalled" needs both an upper bound on done (`DoneBacked`: at most the threads that stored it)
and the exact number of clones behind spawn_count, since a set of signalled workers
as large as the set of cloned ones is the whole set. From it follow
`SpawnCountIsRight`, `JoinAllIsABarrier` and, with the value a sleeper waits for,
`NoSleeperIsStale`. That the barrier survives the lost updates of `done` is the
point: the race can only make join_all wait longer.

`RoundsArePaidFor` is about the budgets. A joiner's round ends because done was
stored between its two looks at it, because a thread that exits woke it, or because of a
signal, and `Rounds` says that no round is used without one of these: the
completions, exits and signals so far (`Paid`) are at least the rounds used and the one
about to be used (`Owed`). A thread stores done once and exits once, hence
`BudgetBound`. A join gives up, and then counts as a join, only when its rounds are
used up; so `JoinsAreBacked`, by which the joins that have returned are no more than the
completions, needs `EnoughRounds`, a budget above two rounds a
worker and one a signal. The code's 200000 is enough for programs of fewer than
100000 threads and few
signals; nothing less makes a join return early.

**LockAndRing_proofs: the lock.** `LockInv` says that at most one thread holds the lock, that the
lock word is 1 exactly while one does, and for that thread what its buffer and
register are at each location (`HolderStage`). `MutualExclusion` is not inductive
because it does not speak of the threads that have left their critical section but
not yet written memory. From it `TypeCorrect`, `SpinExcludes`, `ReleaseIsEnough`
and the refinement `SpinLockImplementsMutex`.

**LockAndRing_proofs: the ring.** `RingInv` ties the indices to the history: head is tail plus the
number waiting, wrapped; the waiting slots hold the next messages; and what
producer and consumer have read is either current or errs on the safe side. From it
`RingTypeCorrect`, `RingDelivers`, `SlotsExclusive`, and `RingImplementsQueue`, for which
the contents of the ring are shown to be the backlog of messages (`ContentsAre`)
and each step to append, take or stutter. `RingAssumption` states that the rounded
size is at least 2; that it is a power of two is what makes `And`, defined for
masks of that form, the emitted instruction.

**LockAndRing_proofs: both.** Each step of `LockedRing` is a step of the lock, or a stutter,
and one of the ring, or a stutter (`LockedSteps`): so the composition implements both
specifications, and `LockedIsLock` and `LockedIsRing` carry over the properties, the
refinements included. For any number of threads, producers that push under the lock are
one producer to the ring.

**IrqKernel_proofs.** `IInv` has the types, that handlers do not nest, where the low
half of each present gate may point (`LowParts`: only the timer's gate has those of the
stubs that return), and, while no handler has
stopped the machine, that the registers *as the main program will have them when the
handler returns* (`MainReg`) are what the statement under way expects (`Follows`).
The registers themselves would not do: in a handler they are the handler's.
At statement boundaries every gate is what the statements have asked for.
From it `GatesHold`, `RegistersKept`, `HandlersDoNotNest` and `OnlyHalfWrittenAstray`, which is
`NoEntryAstray`: with interrupts at any point and any number of idt_install, an entry that
is wild or finds no gate is in one of the windows it names. The assumption
`LowsDistinct` is that no two stubs have addresses with the same low 16 bits: then a gate whose
two halves are of different stubs is not the address of a third, and the stub that
runs is known from the low half. It holds in every image of less than
64 KiB, and in others unless two stubs lie exactly a multiple of 64 KiB apart.

**CallFrames_proofs.** The stack is shared by frames, pushed words, arguments under
way and interruptions, and the properties only speak of the frame that returns or
of what is in frames. `IInv` says who owns which words: a frame's return address
lies just below what its caller has pushed (`Adjacent`), frames descend
(`Descending`), saved base pointers are linked (`Links`), a waiting frame has its
caller's registers and its own contents in memory (`Waiting`), and the top frame has
as much as its place in prologue, body or epilogue says (`Place`). An
interruption writes at least `RedZone` words below rsp, so it disturbs the top frame only
where rsp is above words that are still needed, which is one instruction of the
epilogue, with as many words as there are saved registers. Hence the assumption
`RedZone >= Saves` of `RegistersGivenBack` and `FramesKept`; that it is needed is
what `fn_epilogue_irq` shows. The number, sizes and nesting of frames, the operands
and the interruptions are arbitrary. `OperandsArrive` adds, for the call under way, that
each operand is either on the stack, or still evaluates to what it did when the call
began, or is in its register (`Arriving`); the second is why operands have to be
`Apart`, and why none may be r11 (`NotR11`), through which each of them passes.

**KernelServices_proofs.** The searches of put and get in the file table are loops that end at the first
place that has what they look for; that there is a first place is the
least-number principle, from the library's well-founded order of the numbers. An entry that
has been written stays written, so the used entries come first (`TableInOrder`).
With that, a put changes the map the table stands for as `FileMap` says: it adds a
name that is new, and changes nothing for a name that is there already or when the
table is full. Entries, names and the size of the field are arbitrary.

`IInv` says what lies above the caller's words on the stack at
each stage of a call (`UnderWay`), from which `CallsComeBack`; and, while nothing
has strayed (`Untouched`), that slots hold the handlers they were given and that the objects
of the heap lie one after the other below the pointer, which, as long as `room` is not
negative, is what has been asked for above the heap's start (`HeapInOrder`). A statement that
writes to its own block leaves the others as they are, because blocks do not overlap, in
whatever order a program has them: hence `OwnBlocks`, which says what writes elsewhere, and, with
the bits of the port list, `TablesStayRight`. Neither assumes that an allocation fits.
The bits are quotients and remainders by powers of two; `TableAssumption` states the two facts
about powers of two, true for every number of bits, that the provers have no rules for, and that
handlers have addresses other than 0. `FilesAreAMap` is the refinement of `FileMap`, as long as
only puts have strayed: a put into a full table writes to the table's neighbours and not to
the table. A store of the heap outside its block may reach any table, this one too.

**Straight_proofs and Lowering_proofs.** `StatementsFaithful` and `StatementsKeep` hold for each of the 53
statements, for all registers, numbers and sums as operands that are `WellFormed` and
`Apart`, and for any contents of registers and memory; `StatementsKeep` says that a statement
disturbs no register but, in gate:cas, r12 and r13, and, in wire:len and wire:emit of a sum, r12. Neither property is inductive: both
speak only of the end of the code. The invariant is `Runs`: the statement is one the
initial predicate can choose, the code is its code, and what was executed so far is a run
of it from a state the statement may begin in. What is left to show of a statement is then
that each run of its code that has come to the end has done what it should (`Certified`).

An instruction that neither branches nor reads a device is a function of the processor's
state (`Do`), and a piece of code *leads* from one state to another (`Leads`) if there is
a run of states between them, each what the instruction makes of the one before. The code
of 42 statements (`PlainOps`) is one such piece, and is shown to lead where the statement
says, part by part: operands into temporaries (`Eval`, sums included), the memory access,
the system call, the registers given back. That is `Straight_proofs`; the rest of the
argument is in `Lowering_proofs`.

The code of the other eleven (`Looping`) is cut into blocks, each a label, such a piece and
one branch or read of a device; before each block stands the set of states in which the
program may get there. The code is `Sound` if each block leads from its set into the
sets of the blocks it goes on to, and the last set has what the statement promises; then
no run ever leaves these sets (`OnTheWay`). The sets at the head of a loop are the loop
invariants. For blast:fill and blast:copy one says that memory is as after the cells so far, and
`Filled` and `Copied` are unrolled one cell at a time; for rep_fill and rep_copy `rep` is
one instruction; wire:len, wire:emit, wire:cmp, wire:copy and printk count what they have
passed of a text, and that there is no zero in it. That is where `LoweringAssumption` needs a zero somewhere in
memory, and wire:copy that the copy does not reach its source. For the devices the invariant
is about what has been asked of them: kbd_poll reads the data port only after the status
port has said that there is a key, `andbit` being a quotient and a remainder by a power
of two; serial_putc and printk may ask the line any number of times before it is ready, and
the bytes sent (`SentBy`, a recursion over what was asked) are the same whatever that
number is. Loops are shown to do the right thing when they end. That they end
(`Ends`) needs fairness and is model-checked.

The constants are as `LoweringAssumption` has them: operands of the three kinds the parser
accepts where the lowerings read them, no destination outside the user's registers, memory
large enough for the cells that statements name by a label, and a zero at which texts end;
`ProcessorAssumption` says that memory has a cell and that what the system and the keyboard
leave in registers is a number. The proof found two errors in the model. `Apart` let
wire:emit without a length take a sum with r12 in it, which the code evaluates twice and
gets wrong the second time (section 6), and the run had no operands that
showed it; it has now. And `andbit` read as a remainder by twice the bit, which for the
values of the run's devices made no difference.

**Assembler_proofs.** The methods of the encoder are behind `AssemblerAssumption`: a call
that is not refused gives a sequence of bytes, and only calls with a label have a
reference; `MCAssembler` evaluates it for every call it makes. The invariant
`Assembled` says of the program under construction that the fixups are fields of four bytes,
in order, apart, and inside the code (`Emitted`), and of a linked one that each field
holds the four bytes of its distance, which fits (`Filled`). Patching is one write of
four bytes after another, in the order of the fixups, so that a field keeps what was
written to it is an induction over the number of fixups patched. It is done by
`SetInduction`, which says of one *set* of numbers what an induction rule says of every
property, and follows from the library's well-founded order of the numbers.
From the invariant: `AssemblerKeepsShape`; `LinkKeeps`, that link() changes no byte outside
the fields of fixups nor the length of the code; `FixupsReached`, that in a linked program each field, read as the processor
reads a displacement, leads from its end to the label or, in the image as loaded, to the
declaration it refers to; and `SegmentsStayApart`. The last two assume `Consistent`: --wx goes
neither with -g nor with a bare-metal target, whose writers do not insert the padding
the linker allows for (section 3). `FixupsReach` and
`LinkKeepsTheRest` are in no configuration: what they say of a run, `ReferencesReach`
says too, which reads the operands out of the decoded program.

**Only model-checked:**

* all liveness: it needs fairness and ENABLED. For the lowerings it includes that their
  loops end, so `StatementsFaithful` and `StatementsKeep` say what is so when the code
  has come to its end;
* `Disassembles` and `ReferencesReach`: that decoding undoes encoding is a statement
  about every method's bytes, thousands of cases with nothing in common, and `Walk`
  reads a program of any length through them;
* everything about `FrontEnd`, whose `Replaced` and `Meaning` are recursive operators, which
  the provers cannot reason about.

The installed provers have no induction rule for arbitrary properties (the library's take an
operator as parameter). Where a recursion or a fold is over numbers, and
what is shown is about one set of them, `SetInduction` and the least-number principle
do instead; so does `Recursion` (`Lowering_proofs`), which gives a recursive function of a
number its equations by putting together the functions that satisfy them up to each number.

## 6. Findings

Four runs are violated; `PROJECT.json` quotes the line each contradicts.

1. `thread_lost_wake`: join_all may sleep although done >= spawn
   (`src/docs/CONTRACT.md:56`).
2. `assembler_pext`: pext and pdep are exchanged (`src/ACLM/x64enc.py:1498`).
3. `fn_epilogue_irq`: in a kernel, an interrupt in the epilogue of a function
   overwrites the caller's registers (`src/docs/CONTRACT.md:30`).
4. `lowering_keeps`: gate:cas changes reg10 and reg11 (`src/docs/SUPPORTED_v0.1.md:77`), and
   wire:len and wire:emit of a sum reg10 (`:67`).

Two more are stated by passing properties, which say exactly what the code does where it
differs from the document:

5. `irq_kernel`, `GatesAsInstalled`: the gate of the timer is whatever was installed last, so
   tick_install after irq_full_save_on puts the stub back that saves two registers
   (`src/docs/KERNEL_CONTRACT.md:122`; `src/labs/kernel_tier6_min.aclm` has this order).
6. `kernel_services`, `TablesHold`: ports that share their low six bits with an allowed one
   pass (`Mistaken`), where "only allowed ports pass" (`src/docs/KERNEL_CONTRACT.md:111`).

Also met while modelling; each is under `hazards` or, for the encoder, in section 3:

* threads: `done` is not raised by xadd, as the comment at
  `src/ACLM/codegen.py:1471` has it, and completions are lost; two joining threads can
  use one completion, and one of two sleepers is never woken; a worker that spawns breaks the barrier;
* a second dma_ring_init with more slots stores a mask larger than the block;
* an interrupt between the two stores of a gate's address enters an address made of two
  handlers if these lie in different 64 KiB blocks, and a second idt_install clears each gate
  of the IDT in use for two stores: nothing in the code keeps interrupts out;
* syscall_table_init and then syscall_init, which the comment at `src/ACLM/codegen.py:2516` asks
  for and `src/labs/kernel_tier7_min.aclm` does, leaves the entry that only returns;
* blast:fill with its length in reg10, or with a sum as operand, fills another
  block (`src/docs/SUPPORTED_v0.1.md:51`); wire:emit without a length, of a sum with reg10
  in it, evaluates the sum twice (`src/ACLM/codegen.py:1090`) and the first time changes reg10;
* ctx_load reads rbp through the r15 it has just loaded, and ctx_save saves an rsp that
  is off by its own push; enter_user loses an entry in rax; kbd_poll loses a result
  in rdx;
* files and tables: a put into a full file table writes past it; heap_alloc gives out
  memory behind the heap, and from address 0 on without a heap_init; the default handler of the system call table leaves two words on
  the stack; ramfs statements clobber rcx, and stack:push r11, which in a system
  call handler are the way back to the user;
* macros: a local label handed over as an argument gets the suffix of the call; a call
  without any argument is expanded although its macro has parameters
  (`src/docs/CONTRACT.md:92`); a chain of exactly 64 calls is refused as endless; a macro that
  calls itself twice is refused only after text that doubles in each of 64 passes, which in
  practice does not end (`src/docs/CONTRACT.md:87`, "not a hang"): the model bounds the number of passes
  and not their length; a file that
  two others include is reported as a circle; strict mode looks at the text
  before macros are expanded, with a register table of its own.

## 7. What is done, and what is left

Done, in this order: ThreadRuntime; SpinLock and Mutex; DmaRing and BoundedQueue;
LockedRing; IrqKernel; Processor and Lowering; X86, Encoder and Assembler; CallFrames;
DataSection, RamFs, FileMap, KernelTables and KernelServices; FrontEnd; with the
theorems of section 5.

Left, should the code or the interest in it grow:

* for `Assembler`: that decoding undoes encoding, for any operand of a method and not
  the sampled ones, method by method.

**Not modelled**, and why:

* strict mode, listings, the debug sections, asserts, `--help` and exit codes: output for
  people and tools, without effect on the program compiled;
* reading and writing files, the search path of includes: I/O; a name stands for the
  file found;
* the lexer's scan and the parser's recursive descent: functions of the text without
  any state but the position; what the forms mean is in the modules of the statements;
* the vector, floating-point and bit statements beyond their encodings: one
  instruction each, whose meaning is the processor's; cpuid, whose answer is;
* sig:action: it fills a structure that only the operating system reads;
* the trampoline and the page tables of the boot image: constant bytes, run
  once before any statement; their effect is not observable in anything modelled here;
  user pages and the task segment, which enter_user needs and the image has not;
* serial_init and pit_init: fixed sequences of outs to devices that are not modelled;
  panic: it halts;
* two producers of one ring that do not take a lock, two threads that join, and a second
  dma_ring_init: no document promises that any of them works;
* --wx with -g or for a bare-metal program: the linker allows for a padding which those
  writers do not insert, so no reference would arrive;
* the standard library, the labs and the demos: programs in the language.
