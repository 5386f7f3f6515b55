---------------------------- MODULE ThreadRuntime ----------------------------
(***************************************************************************)
(* The thread runtime that thread:spawn, thread:join, thread:join_all and  *)
(* thread:exit compile to (ACLM/codegen.py, _thread_spawn ... _thread_exit).*)
(* All threads of a program share one block of three 64-bit counters, the  *)
(* data label __thr_futex: done at +0, joined at +8, spawn_count at +16.   *)
(* The emitted code updates them with a load, an add and a store, and      *)
(* waits with futex(2) on the done word.  One action is one shared-memory  *)
(* access (or one system call) of one thread, with the register work that  *)
(* surrounds it; memory is sequentially consistent.                        *)
(***************************************************************************)
EXTENDS Integers, Sequences, FiniteSets

CONSTANTS
  Main,          \* the initial thread
  Workers,       \* the threads that clone(2) can create
  Labels,        \* the code labels threads start at
  MainLabel,     \* where Main starts
  Script,        \* Script[l]: the thread statements executed from label l
  MayFail,       \* the workers whose mmap or clone may fail
  JoinBudget,    \* 200000 in the code: rounds thread:join waits
  JoinAllBudget, \* 500000 in the code: rounds thread:join_all waits
  MaxSignals     \* bound: how many times a signal interrupts a futex wait

Threads == Workers \cup {Main}

\* A thread statement; only a spawn has a label to start the child at.
Op == [op : {"spawn", "join", "join_all", "exit"}, label : Labels \ {MainLabel}]

ASSUME ThreadAssumption ==
  /\ Main \notin Workers
  /\ IsFiniteSet(Workers)
  /\ MainLabel \in Labels
  /\ Script \in [Labels -> Seq(Op)]
  /\ MayFail \subseteq Workers
  /\ JoinBudget \in Nat \ {0}
  /\ JoinAllBudget \in Nat \ {0}
  /\ MaxSignals \in Nat

VARIABLES
  done_count, joined_count, spawn_count,  \* __thr_futex
  pc,        \* where each thread is in the emitted code
  entry,     \* the label each thread was started at
  ip,        \* the statement of its script each thread is at
  rax, rdx,  \* the registers that carry a counter across an access
  fuel,      \* r14 of a joiner: rounds left
  sleeping,  \* the threads asleep in futex(FUTEX_WAIT)
  signals    \* how many waits a signal has interrupted

counters == <<done_count, joined_count, spawn_count>>
vars == <<counters, pc, entry, ip, rax, rdx, fuel, sleeping, signals>>

Locations == {"unborn", "stillborn", "run", "sp_load", "sp_store",
              "j_done", "j_cmp", "j_expect", "j_wait", "j_sleep", "j_back",
              "j_load", "j_store", "d_load", "d_store", "d_wake", "gone", "exited"}

AtStmt(t, o) == /\ pc[t] = "run"
                /\ ip[t] <= Len(Script[entry[t]])
                /\ Script[entry[t]][ip[t]].op = o
Stmt(t) == Script[entry[t]][ip[t]]

Goto(t, l) == pc' = [pc EXCEPT ![t] = l]
NextStmt(t) == Goto(t, "run") /\ ip' = [ip EXCEPT ![t] = @ + 1]

Counted == {t \in Threads : pc[t] \in {"d_wake", "gone"}}  \* done was stored
Cloned  == {w \in Workers : pc[w] # "unborn"}

Init ==
  /\ done_count = 0 /\ joined_count = 0 /\ spawn_count = 0
  /\ pc = [t \in Threads |-> IF t = Main THEN "run" ELSE "unborn"]
  /\ entry = [t \in Threads |-> MainLabel]
  /\ ip = [t \in Threads |-> 1]
  /\ rax = [t \in Threads |-> 0]
  /\ rdx = [t \in Threads |-> 0]
  /\ fuel = [t \in Threads |-> 0]
  /\ sleeping = {}
  /\ signals = 0

-----------------------------------------------------------------------------
(* thread:spawn *)

\* mmap of a stack and clone.  Neither result is tested for an error: the
\* only test is rax = 0 (the child).  So when clone fails, or when mmap fails
\* and the child faults on its first push, the parent still goes on to
\* count a worker that never runs.
ThreadSpawn(t) ==
  /\ AtStmt(t, "spawn")
  /\ \E w \in Workers :
       /\ pc[w] = "unborn"
       /\ \E birth \in {"run"} \cup (IF w \in MayFail THEN {"stillborn"} ELSE {}) :
            pc' = [pc EXCEPT ![t] = "sp_load", ![w] = birth]
       /\ entry' = [entry EXCEPT ![w] = Stmt(t).label]
  /\ UNCHANGED <<counters, ip, rax, rdx, fuel, sleeping, signals>>

\* The parent's spawn_count++, after the child is already running.
SpawnLoad(t) ==
  /\ pc[t] = "sp_load"
  /\ rax' = [rax EXCEPT ![t] = spawn_count]
  /\ Goto(t, "sp_store")
  /\ UNCHANGED <<counters, entry, ip, rdx, fuel, sleeping, signals>>

\* Fault variant: the parent forgets to count the worker.
SpawnStoreNoCount(t) ==
  /\ pc[t] = "sp_store"
  /\ NextStmt(t)
  /\ UNCHANGED <<counters, entry, rax, rdx, fuel, sleeping, signals>>

SpawnStore(t) ==
  /\ pc[t] = "sp_store"
  /\ spawn_count' = rax[t] + 1
  /\ NextStmt(t)
  /\ UNCHANGED <<done_count, joined_count, entry, rax, rdx, fuel, sleeping, signals>>

-----------------------------------------------------------------------------
(* The end of a thread: a worker's label returns to the code after the    *)
(* clone, or the thread executes thread:exit; both count it as done.  Main *)
(* ends with the exit system call and counts nothing.                      *)

AtEnd(t) == pc[t] = "run" /\ ip[t] > Len(Script[entry[t]])

ReturnFromLabel(t) ==
  /\ t \in Workers /\ AtEnd(t)
  /\ Goto(t, "d_load")
  /\ UNCHANGED <<counters, entry, ip, rax, rdx, fuel, sleeping, signals>>

ThreadExit(t) ==
  /\ AtStmt(t, "exit")
  /\ Goto(t, "d_load")
  /\ UNCHANGED <<counters, entry, ip, rax, rdx, fuel, sleeping, signals>>

MainExits(t) ==
  /\ t = Main /\ AtEnd(t)
  /\ Goto(t, "exited")
  /\ UNCHANGED <<counters, entry, ip, rax, rdx, fuel, sleeping, signals>>

DoneLoad(t) ==
  /\ pc[t] = "d_load"
  /\ rax' = [rax EXCEPT ![t] = done_count]
  /\ Goto(t, "d_store")
  /\ UNCHANGED <<counters, entry, ip, rdx, fuel, sleeping, signals>>

DoneStore(t) ==
  /\ pc[t] = "d_store"
  /\ done_count' = rax[t] + 1
  /\ Goto(t, "d_wake")
  /\ UNCHANGED <<joined_count, spawn_count, entry, ip, rax, rdx, fuel, sleeping, signals>>

\* Fault variant: the worker exits without the wake.
ExitWithoutWake(t) ==
  /\ pc[t] = "d_wake"
  /\ Goto(t, "gone")
  /\ UNCHANGED <<counters, entry, ip, rax, rdx, fuel, sleeping, signals>>

\* Fault variant: the exit system call after the wake is missing, so a
\* thread:exit falls through to its label's return.
WakeAndFallThrough(t) ==
  /\ pc[t] = "d_wake"
  /\ NextStmt(t)
  /\ UNCHANGED <<counters, entry, rax, rdx, fuel, sleeping, signals>>

\* futex(FUTEX_WAKE, 1) releases one sleeper, then the thread exits.
WakeAndExit(t) ==
  /\ pc[t] = "d_wake"
  /\ IF sleeping = {}
     THEN Goto(t, "gone") /\ UNCHANGED sleeping
     ELSE \E s \in sleeping :
            /\ pc' = [pc EXCEPT ![t] = "gone", ![s] = "j_back"]
            /\ sleeping' = sleeping \ {s}
  /\ UNCHANGED <<counters, entry, ip, rax, rdx, fuel, signals>>

-----------------------------------------------------------------------------
(* thread:join and thread:join_all share the wait loop and differ in the   *)
(* condition, in the budget, and in that join counts itself afterwards.    *)
(* Neither looks at the thread id it is given.                             *)

\* Fault variant: r14 is not loaded with the budget.
BeginJoinNoBudget(t) ==
  /\ AtStmt(t, "join")
  /\ Goto(t, "j_done")
  /\ UNCHANGED <<counters, entry, ip, rax, rdx, fuel, sleeping, signals>>

BeginJoin(t) ==
  /\ AtStmt(t, "join")
  /\ fuel' = [fuel EXCEPT ![t] = JoinBudget]
  /\ Goto(t, "j_done")
  /\ UNCHANGED <<counters, entry, ip, rax, rdx, sleeping, signals>>

BeginJoinAll(t) ==
  /\ AtStmt(t, "join_all")
  /\ fuel' = [fuel EXCEPT ![t] = JoinAllBudget]
  /\ Goto(t, "j_done")
  /\ UNCHANGED <<counters, entry, ip, rax, rdx, sleeping, signals>>

JoinReadDone(t) ==
  /\ pc[t] = "j_done"
  /\ rax' = [rax EXCEPT ![t] = done_count]
  /\ Goto(t, "j_cmp")
  /\ UNCHANGED <<counters, entry, ip, rdx, fuel, sleeping, signals>>

\* done > joined: leave the loop.
JoinCompare(t) ==
  /\ pc[t] = "j_cmp" /\ Stmt(t).op = "join"
  /\ Goto(t, IF rax[t] > joined_count THEN "j_load" ELSE "j_expect")
  /\ UNCHANGED <<counters, entry, ip, rax, rdx, fuel, sleeping, signals>>

\* Fault variant: the comparison of the "below or equal" reading of abe.
JoinAllCompareBelowEq(t) ==
  /\ pc[t] = "j_cmp" /\ Stmt(t).op = "join_all"
  /\ IF rax[t] <= spawn_count THEN NextStmt(t) ELSE Goto(t, "j_expect") /\ UNCHANGED ip
  /\ UNCHANGED <<counters, entry, rax, rdx, fuel, sleeping, signals>>

\* Fault variant: done has to exceed spawn_count.
JoinAllCompareAbove(t) ==
  /\ pc[t] = "j_cmp" /\ Stmt(t).op = "join_all"
  /\ IF rax[t] > spawn_count THEN NextStmt(t) ELSE Goto(t, "j_expect") /\ UNCHANGED ip
  /\ UNCHANGED <<counters, entry, rax, rdx, fuel, sleeping, signals>>

\* done >= spawn: fall through to the next statement.
JoinAllCompare(t) ==
  /\ pc[t] = "j_cmp" /\ Stmt(t).op = "join_all"
  /\ IF rax[t] >= spawn_count THEN NextStmt(t) ELSE Goto(t, "j_expect") /\ UNCHANGED ip
  /\ UNCHANGED <<counters, entry, rax, rdx, fuel, sleeping, signals>>

\* The value futex is to find is read again, after the comparison.
JoinReadExpected(t) ==
  /\ pc[t] = "j_expect"
  /\ rdx' = [rdx EXCEPT ![t] = done_count]
  /\ Goto(t, "j_wait")
  /\ UNCHANGED <<counters, entry, ip, rax, fuel, sleeping, signals>>

\* Fault variant: the wait is given a zero timeout and so polls.
FutexPoll(t) ==
  /\ pc[t] = "j_wait"
  /\ Goto(t, "j_back")
  /\ UNCHANGED <<counters, entry, ip, rax, rdx, fuel, sleeping, signals>>

\* futex(FUTEX_WAIT) without a timeout: sleeps if done still is rdx, and
\* returns at once (EAGAIN) if it is not.
FutexWait(t) ==
  /\ pc[t] = "j_wait"
  /\ IF done_count = rdx[t]
     THEN Goto(t, "j_sleep") /\ sleeping' = sleeping \cup {t}
     ELSE Goto(t, "j_back") /\ UNCHANGED sleeping
  /\ UNCHANGED <<counters, entry, ip, rax, rdx, fuel, signals>>

FutexInterrupted(t) ==
  /\ t \in sleeping /\ signals < MaxSignals
  /\ signals' = signals + 1
  /\ sleeping' = sleeping \ {t}
  /\ Goto(t, "j_back")
  /\ UNCHANGED <<counters, entry, ip, rax, rdx, fuel>>

\* dec r14: with the budget used up both loops fall out without the
\* condition; join then still counts itself.
JoinBack(t) ==
  /\ pc[t] = "j_back"
  /\ fuel' = [fuel EXCEPT ![t] = @ - 1]
  /\ IF fuel'[t] > 0 THEN Goto(t, "j_done") /\ UNCHANGED ip
     ELSE IF Stmt(t).op = "join" THEN Goto(t, "j_load") /\ UNCHANGED ip
     ELSE NextStmt(t)
  /\ UNCHANGED <<counters, entry, rax, rdx, sleeping, signals>>

JoinedLoad(t) ==
  /\ pc[t] = "j_load"
  /\ rax' = [rax EXCEPT ![t] = joined_count]
  /\ Goto(t, "j_store")
  /\ UNCHANGED <<counters, entry, ip, rdx, fuel, sleeping, signals>>

\* Fault variant: the join returns without having raised joined.
JoinedStoreForgotten(t) ==
  /\ pc[t] = "j_store"
  /\ NextStmt(t)
  /\ UNCHANGED <<counters, entry, rax, rdx, fuel, sleeping, signals>>

JoinedStore(t) ==
  /\ pc[t] = "j_store"
  /\ joined_count' = rax[t] + 1
  /\ NextStmt(t)
  /\ UNCHANGED <<done_count, spawn_count, entry, rax, rdx, fuel, sleeping, signals>>

-----------------------------------------------------------------------------
Step(t) ==
  \/ ThreadSpawn(t) \/ SpawnLoad(t) \/ SpawnStore(t)
  \/ ReturnFromLabel(t) \/ ThreadExit(t) \/ MainExits(t)
  \/ DoneLoad(t) \/ DoneStore(t) \/ WakeAndExit(t)
  \/ BeginJoin(t) \/ BeginJoinAll(t) \/ JoinReadDone(t)
  \/ JoinCompare(t) \/ JoinAllCompare(t)
  \/ JoinReadExpected(t) \/ FutexWait(t) \/ JoinBack(t)
  \/ JoinedLoad(t) \/ JoinedStore(t)

Next == \E t \in Threads : Step(t) \/ FutexInterrupted(t)

Spec == Init /\ [][Next]_vars

\* The operating system runs every thread that is not asleep; nothing says
\* that a signal ever comes.
FairSpec == Spec /\ \A t \in Threads : WF_vars(Step(t))

-----------------------------------------------------------------------------
Waiting == {"j_done", "j_cmp", "j_expect", "j_wait", "j_sleep", "j_back"}

(* Types: every counter is a count, every thread is at a known location,   *)
(* a thread inside a wait loop has rounds left, and a sleeper sleeps.      *)
TypeOK ==
  /\ done_count \in Nat /\ joined_count \in Nat /\ spawn_count \in Nat
  /\ pc \in [Threads -> Locations]
  /\ entry \in [Threads -> Labels]
  /\ ip \in [Threads -> Nat \ {0}]
  /\ rax \in [Threads -> Nat] /\ rdx \in [Threads -> Nat]
  /\ fuel \in [Threads -> Nat]
  /\ \A t \in Threads : pc[t] \in Waiting => fuel[t] > 0
  /\ sleeping \subseteq Threads
  /\ \A t \in sleeping : pc[t] = "j_sleep"
  /\ signals \in 0..MaxSignals

(* The unlocked load-add-store on done may lose completions but never      *)
(* invents one: done, and every copy of it that a register still holds,    *)
(* is at most the number of threads that have stored it.                   *)
DoneBacked ==
  /\ done_count <= Cardinality(Counted)
  /\ \A t \in Threads :
       pc[t] \in {"d_store", "j_cmp"} => rax[t] <= Cardinality(Counted)

(* The programs the runtime is written for: only the main thread spawns and *)
(* joins, and it does not end with thread:exit.                             *)
ForkJoin ==
  \A l \in Labels : \A i \in DOMAIN Script[l] : Script[l][i].op = "exit" <=> l # MainLabel

(* Of such a program every worker that clone created is in spawn_count, but *)
(* for the one whose spawn statement has still to do its store.             *)
SpawnsCounted ==
  /\ Cardinality(Cloned) = spawn_count + (IF pc[Main] \in {"sp_load", "sp_store"} THEN 1 ELSE 0)
  /\ pc[Main] = "sp_store" => rax[Main] = spawn_count

\* The thread:join statements that have returned, as thread and statement.
JoinsReturned ==
  UNION {{<<t, i>> : i \in {j \in DOMAIN Script[entry[t]] :
                             j < ip[t] /\ Script[entry[t]][j].op = "join"}} : t \in Threads}

(* While no join runs out of rounds, each thread:join of a program with one *)
(* joining thread returns on a completion of its own ("multi join"): a join *)
(* that has returned never outnumbers the workers that have stored done, so *)
(* the second join of a program does not use up what the first one took.    *)
JoinsBacked == Cardinality(JoinsReturned) <= Cardinality(Counted)

(* A joiner asleep on a value that done no longer has is about to be woken *)
(* by the thread that changed it: the futex protocol itself loses no wake. *)
NoStaleSleeper ==
  \A s \in sleeping : done_count # rdx[s] => \E w \in Threads : pc[w] = "d_wake"

(* The round budgets are not timeouts: a round is only used up when a      *)
(* worker finishes (its store, or its wake, ends the wait) or a signal     *)
(* interrupts it.                                                          *)
BudgetBound ==
  \A t \in Threads :
    pc[t] \in Waiting \ {"j_back"} =>
      (IF Stmt(t).op = "join" THEN JoinBudget ELSE JoinAllBudget) - fuel[t]
        <= 2 * Cardinality(Counted) + signals

(* thread:join_all gets past its comparison only when every worker that was *)
(* spawned has signalled completion (ast_nodes.py: "wait until all spawned  *)
(* workers signal done").                                                   *)
PassesJoinAll(t) ==
  /\ pc[t] = "j_cmp" /\ Stmt(t).op = "join_all"
  /\ pc'[t] = "run"

JoinAllBarrier ==
  [][\A t \in Threads : PassesJoinAll(t) =>
       \A w \in Workers : pc[w] \in {"unborn", "d_wake", "gone"}]_vars

(* A thread:join_all that reads done when it already is spawn_count         *)
(* returns: a wake-up can only be missed between the comparison and the     *)
(* futex call.                                                              *)
JoinAllReturned(t) ==
  pc[t] \in {"gone", "exited"} \/ (pc[t] = "run" /\ ip[t] > 1 /\
    Script[entry[t]][ip[t] - 1].op = "join_all")

LateJoinAllReturns ==
  \A t \in Threads :
    pc[t] = "j_done" /\ Stmt(t).op = "join_all" /\ done_count >= spawn_count
      ~> JoinAllReturned(t)

(* docs/CONTRACT.md: thread:join_all waits "until done >= spawn": once that *)
(* holds for good, it returns.                                              *)
JoinAllReturns ==
  \A t \in Threads :
    pc[t] \in Waiting
    /\ Stmt(t).op = "join_all" /\ done_count >= spawn_count
      ~> JoinAllReturned(t)

=============================================================================
