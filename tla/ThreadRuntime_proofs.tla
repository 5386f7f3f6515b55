------------------------ MODULE ThreadRuntime_proofs ------------------------
(***************************************************************************)
(* What holds of the thread runtime for every program, every number of     *)
(* workers and every budget.                                               *)
(***************************************************************************)
EXTENDS ThreadRuntime, FiniteSetTheorems, TLAPS

(* A finite set grows by at most one element at a time.                    *)
LEMMA CardMonotone ==
  ASSUME NEW S, NEW T, IsFiniteSet(T), S \subseteq T
  PROVE  /\ IsFiniteSet(S)
         /\ Cardinality(S) \in Nat /\ Cardinality(T) \in Nat
         /\ Cardinality(S) <= Cardinality(T)
BY FS_Subset, FS_CardinalityType

LEMMA ThreadsFinite == IsFiniteSet(Threads) /\ Main \in Threads /\ Workers \subseteq Threads
BY ThreadAssumption, FS_AddElement DEF Threads

LEMMA StmtType ==
  ASSUME TypeOK, NEW t \in Threads, ip[t] <= Len(Script[entry[t]])
  PROVE  /\ Script[entry[t]] \in Seq(Op)
         /\ ip[t] \in DOMAIN Script[entry[t]]
         /\ Stmt(t) \in Op
BY ThreadAssumption DEF TypeOK, Stmt

-----------------------------------------------------------------------------
LEMMA TypeInit == Init => TypeOK
BY ThreadAssumption DEF Init, TypeOK, Threads, Locations, Waiting

LEMMA TypeStep ==
  ASSUME TypeOK, [Next]_vars
  PROVE  TypeOK'
<1> USE DEF TypeOK, Locations, Waiting, counters
<1>1. ASSUME NEW t \in Threads, ThreadSpawn(t) PROVE TypeOK'
  <2>1. Stmt(t).label \in Labels
    BY <1>1, StmtType DEF ThreadSpawn, AtStmt, Op
  <2>2. PICK w \in Workers, birth \in {"run", "stillborn"} :
               /\ pc[w] = "unborn" /\ pc[t] = "run"
               /\ pc' = [pc EXCEPT ![t] = "sp_load", ![w] = birth]
               /\ entry' = [entry EXCEPT ![w] = Stmt(t).label]
    BY <1>1 DEF ThreadSpawn, AtStmt
  <2>3. pc' \in [Threads -> Locations] /\ entry' \in [Threads -> Labels]
    BY <2>1, <2>2, ThreadsFinite
  <2>4. UNCHANGED <<counters, ip, rax, rdx, fuel, sleeping, signals>>
    BY <1>1 DEF ThreadSpawn
  <2>5. \A u \in Threads : /\ pc'[u] \in Waiting => pc'[u] = pc[u]
                           /\ pc[u] = "j_sleep" => pc'[u] = pc[u]
    BY <2>2, ThreadsFinite
  <2> QED BY <2>3, <2>4, <2>5
<1>2. ASSUME NEW t \in Threads,
             SpawnLoad(t) \/ SpawnStore(t) \/ DoneLoad(t) \/ DoneStore(t)
             \/ JoinedLoad(t) \/ JoinedStore(t) \/ JoinReadDone(t) \/ JoinReadExpected(t)
      PROVE TypeOK'
  BY <1>2 DEF SpawnLoad, SpawnStore, DoneLoad, DoneStore, JoinedLoad, JoinedStore,
              JoinReadDone, JoinReadExpected, Goto, NextStmt
<1>3. ASSUME NEW t \in Threads, ReturnFromLabel(t) \/ ThreadExit(t) \/ MainExits(t)
      PROVE TypeOK'
  BY <1>3 DEF ReturnFromLabel, ThreadExit, MainExits, Goto, AtStmt, AtEnd
<1>4. ASSUME NEW t \in Threads, WakeAndExit(t) \/ FutexWait(t) PROVE TypeOK'
  BY <1>4 DEF WakeAndExit, FutexWait, Goto
<1>5. ASSUME NEW t \in Threads, FutexInterrupted(t) PROVE TypeOK'
  BY <1>5, ThreadAssumption DEF FutexInterrupted, Goto
<1>6. ASSUME NEW t \in Threads, JoinBack(t) PROVE TypeOK'
  <2>1. fuel' \in [Threads -> Nat]
    BY <1>6 DEF JoinBack
  <2>2. CASE fuel'[t] > 0
    BY <1>6, <2>1, <2>2 DEF JoinBack, Goto
  <2>3. CASE ~ fuel'[t] > 0
    BY <1>6, <2>1, <2>3 DEF JoinBack, Goto, NextStmt
  <2> QED BY <2>2, <2>3
<1>10. ASSUME NEW t \in Threads, JoinCompare(t) PROVE TypeOK'
  BY <1>10 DEF JoinCompare, Goto
<1>11. ASSUME NEW t \in Threads, JoinAllCompare(t) PROVE TypeOK'
  <2>1. CASE rax[t] >= spawn_count
    BY <1>11, <2>1 DEF JoinAllCompare, Goto, NextStmt
  <2>2. CASE ~ rax[t] >= spawn_count
    BY <1>11, <2>2 DEF JoinAllCompare, Goto
  <2> QED BY <2>1, <2>2
<1>9. ASSUME NEW t \in Threads, BeginJoin(t) \/ BeginJoinAll(t) PROVE TypeOK'
  <2>1. JoinBudget \in Nat \ {0} /\ JoinAllBudget \in Nat \ {0}
    BY ThreadAssumption
  <2>2. CASE BeginJoin(t)
    BY <2>1, <2>2 DEF BeginJoin, Goto, AtStmt
  <2>3. CASE BeginJoinAll(t)
    BY <2>1, <2>3 DEF BeginJoinAll, Goto, AtStmt
  <2> QED BY <1>9, <2>2, <2>3
<1>7. CASE UNCHANGED vars
  BY <1>7 DEF vars
<1>8. QED
  BY <1>1, <1>2, <1>3, <1>4, <1>5, <1>6, <1>7, <1>9, <1>10, <1>11 DEF Next, Step

(* Every state the thread runtime reaches is well typed.                   *)
THEOREM TypeCorrect == Spec => []TypeOK
BY TypeInit, TypeStep, PTL DEF Spec
-----------------------------------------------------------------------------
(* A thread that has stored done never takes that back.                    *)
LEMMA CountedGrows ==
  ASSUME TypeOK, [Next]_vars
  PROVE  Counted \subseteq Counted'
<1> USE DEF TypeOK, Counted, Goto, NextStmt
<1>1. ASSUME NEW t \in Threads, ThreadSpawn(t) PROVE Counted \subseteq Counted'
  BY <1>1 DEF ThreadSpawn, AtStmt
<1>2. ASSUME NEW t \in Threads, WakeAndExit(t) PROVE Counted \subseteq Counted'
  BY <1>2 DEF WakeAndExit
<1>3. ASSUME NEW t \in Threads, FutexInterrupted(t) PROVE Counted \subseteq Counted'
  BY <1>3 DEF FutexInterrupted
<1>4. ASSUME NEW t \in Threads, Step(t), ~ ThreadSpawn(t), ~ WakeAndExit(t)
      PROVE Counted \subseteq Counted'
  <2>1. pc[t] \notin {"d_wake", "gone"} /\ \E l \in Locations : pc' = [pc EXCEPT ![t] = l]
    BY <1>4 DEF Step, SpawnLoad, SpawnStore, ReturnFromLabel, ThreadExit, MainExits, DoneLoad,
         DoneStore, BeginJoin, BeginJoinAll, JoinReadDone, JoinCompare, JoinAllCompare,
         JoinReadExpected, FutexWait, JoinBack, JoinedLoad, JoinedStore, AtStmt, AtEnd, Locations
  <2> QED BY <2>1
<1>5. CASE UNCHANGED vars
  BY <1>5 DEF vars
<1> QED BY <1>1, <1>2, <1>3, <1>4, <1>5 DEF Next

LEMMA CountedFinite ==
  /\ IsFiniteSet(Counted) /\ IsFiniteSet(Counted')
  /\ Cardinality(Counted) \in Nat /\ Cardinality(Counted') \in Nat
<1>1. Counted \subseteq Threads /\ Counted' \subseteq Threads
  BY DEF Counted
<1> QED BY <1>1, ThreadsFinite, CardMonotone

LEMMA DoneBackedStep ==
  ASSUME TypeOK, DoneBacked, [Next]_vars
  PROVE  DoneBacked'
<1>1. Cardinality(Counted) <= Cardinality(Counted')
  BY CountedGrows, CountedFinite, CardMonotone
<1>2. Cardinality(Counted) \in Nat /\ Cardinality(Counted') \in Nat
  BY CountedFinite
<1> DEFINE n == Cardinality(Counted)
           m == Cardinality(Counted')
<1> HIDE DEF n, m
<1>3. n \in Nat /\ m \in Nat /\ n <= m
  BY <1>1, <1>2 DEF n, m
<1>4. done_count <= n /\ \A t \in Threads : pc[t] \in {"d_store", "j_cmp"} => rax[t] <= n
  BY DEF DoneBacked, n
<1>5. SUFFICES /\ done_count' <= m
               /\ \A t \in Threads : pc'[t] \in {"d_store", "j_cmp"} => rax'[t] <= m
  BY DEF DoneBacked, m
<1>6. ASSUME NEW t \in Threads, DoneStore(t)
      PROVE  /\ done_count' <= m
             /\ \A u \in Threads : pc'[u] \in {"d_store", "j_cmp"} => rax'[u] <= m
  <2>1. Counted' = Counted \cup {t} /\ t \notin Counted
    BY <1>6 DEF DoneStore, Goto, Counted, TypeOK
  <2>2. m = n + 1
    BY <2>1, CountedFinite, FS_AddElement DEF m, n
  <2>3. done_count' <= m
    BY <1>3, <1>4, <1>6, <2>2 DEF DoneStore, TypeOK
  <2>4. ASSUME NEW u \in Threads, pc'[u] \in {"d_store", "j_cmp"} PROVE rax'[u] <= m
    BY <1>3, <1>4, <1>6, <2>4 DEF DoneStore, Goto, TypeOK
  <2> QED BY <2>3, <2>4
<1>7. ASSUME NEW t \in Threads, DoneLoad(t) \/ JoinReadDone(t)
      PROVE  /\ done_count' <= m
             /\ \A u \in Threads : pc'[u] \in {"d_store", "j_cmp"} => rax'[u] <= m
  BY <1>3, <1>4, <1>7 DEF DoneLoad, JoinReadDone, Goto, TypeOK, counters
<1>8. ASSUME /\ done_count' = done_count
             /\ \A u \in Threads : pc'[u] \in {"d_store", "j_cmp"} =>
                   pc[u] \in {"d_store", "j_cmp"} /\ rax'[u] = rax[u]
      PROVE  /\ done_count' <= m
             /\ \A u \in Threads : pc'[u] \in {"d_store", "j_cmp"} => rax'[u] <= m
  BY <1>3, <1>4, <1>8 DEF TypeOK
<1>9. ASSUME NEW t \in Threads, ThreadSpawn(t) \/ WakeAndExit(t) \/ FutexInterrupted(t)
      PROVE  /\ done_count' = done_count
             /\ \A u \in Threads : pc'[u] \in {"d_store", "j_cmp"} =>
                   pc[u] \in {"d_store", "j_cmp"} /\ rax'[u] = rax[u]
  BY <1>9 DEF ThreadSpawn, WakeAndExit, FutexInterrupted, Goto, counters, TypeOK
<1>10. ASSUME NEW t \in Threads, Step(t), ~ DoneStore(t), ~ DoneLoad(t), ~ JoinReadDone(t),
              ~ ThreadSpawn(t), ~ WakeAndExit(t)
       PROVE  /\ done_count' = done_count
              /\ \A u \in Threads : pc'[u] \in {"d_store", "j_cmp"} =>
                    pc[u] \in {"d_store", "j_cmp"} /\ rax'[u] = rax[u]
  <2>1. \E l \in Locations \ {"d_store", "j_cmp"} : pc' = [pc EXCEPT ![t] = l]
    BY <1>10 DEF Step, SpawnLoad, SpawnStore, ReturnFromLabel, ThreadExit, MainExits,
         BeginJoin, BeginJoinAll, JoinCompare, JoinAllCompare, JoinReadExpected, FutexWait,
         JoinBack, JoinedLoad, JoinedStore, Goto, NextStmt, Locations
  <2>2. done_count' = done_count /\ \A u \in Threads \ {t} : rax'[u] = rax[u]
    BY <1>10 DEF Step, SpawnLoad, SpawnStore, ReturnFromLabel, ThreadExit, MainExits,
         BeginJoin, BeginJoinAll, JoinCompare, JoinAllCompare, JoinReadExpected, FutexWait,
         JoinBack, JoinedLoad, JoinedStore, counters, TypeOK
  <2> QED BY <2>1, <2>2 DEF TypeOK
<1>11. CASE UNCHANGED vars
  BY <1>8, <1>11 DEF vars, counters
<1> QED BY <1>6, <1>7, <1>8, <1>9, <1>10, <1>11 DEF Next, Step

(* No completion is ever invented: done is backed by threads that stored it.*)
THEOREM DoneIsBacked == Spec => []DoneBacked
<1>1. Init => DoneBacked
  <2> SUFFICES ASSUME Init PROVE DoneBacked
    OBVIOUS
  <2>1. Cardinality(Counted) \in Nat
    BY CountedFinite
  <2> QED BY <2>1 DEF Init, DoneBacked
<1>2. TypeOK /\ DoneBacked /\ [Next]_vars => DoneBacked'
  BY DoneBackedStep
<1> QED BY <1>1, <1>2, TypeCorrect, PTL DEF Spec
-----------------------------------------------------------------------------
(* The roles in a fork-join program: the main thread is never in the code  *)
(* that ends a thread, the workers are nowhere else.                       *)
WorkerLocations == {"unborn", "stillborn", "run", "d_load", "d_store", "d_wake", "gone"}

RolesSeparate ==
  /\ entry[Main] = MainLabel
  /\ pc[Main] \in Locations \ (WorkerLocations \ {"run"})
  /\ \A w \in Workers : pc[w] \in WorkerLocations
                       /\ (pc[w] # "unborn" => entry[w] # MainLabel)

LEMMA RolesInit == Init => RolesSeparate
BY ThreadAssumption DEF Init, RolesSeparate, WorkerLocations, Locations, Threads

(* Which statement a thread of a fork-join program can be at.              *)
LEMMA ForkJoinStmt ==
  ASSUME ForkJoin, TypeOK, RolesSeparate, NEW t \in Threads, NEW o, AtStmt(t, o)
  PROVE  o = "exit" <=> t # Main
<1>1. ip[t] \in DOMAIN Script[entry[t]] /\ entry[t] \in Labels
  BY StmtType DEF AtStmt, TypeOK
<1>2. o = "exit" <=> entry[t] # MainLabel
  BY <1>1 DEF ForkJoin, AtStmt
<1>3. t = Main \/ t \in Workers
  BY DEF Threads
<1> QED BY <1>2, <1>3, ThreadAssumption DEF RolesSeparate, AtStmt

LEMMA RolesStep ==
  ASSUME ForkJoin, TypeOK, RolesSeparate, [Next]_vars
  PROVE  RolesSeparate'
<1> USE DEF WorkerLocations, Locations, TypeOK, Goto, NextStmt
<1>0. /\ Main \in Threads /\ Workers \subseteq Threads /\ Main \notin Workers
      /\ \A t \in Threads : t = Main \/ t \in Workers
  BY ThreadAssumption DEF Threads
<1>1. ASSUME NEW t \in Threads, ThreadSpawn(t) PROVE RolesSeparate'
  <2>1. t = Main
    BY <1>1, ForkJoinStmt DEF ThreadSpawn
  <2>2. Stmt(t).label # MainLabel
    BY <1>1, StmtType DEF ThreadSpawn, AtStmt, Op
  <2> QED BY <1>0, <1>1, <2>1, <2>2 DEF ThreadSpawn, RolesSeparate
<1>2. ASSUME NEW t \in Threads, WakeAndExit(t) PROVE RolesSeparate'
  BY <1>0, <1>2 DEF WakeAndExit, RolesSeparate
<1>3. ASSUME NEW t \in Threads, FutexInterrupted(t) PROVE RolesSeparate'
  BY <1>0, <1>3 DEF FutexInterrupted, RolesSeparate
<1>4. ASSUME NEW t \in Threads, Step(t), ~ ThreadSpawn(t), ~ WakeAndExit(t)
      PROVE RolesSeparate'
  <2>1. CASE t = Main
    <3>1. \E l \in Locations \ (WorkerLocations \ {"run"}) : pc' = [pc EXCEPT ![t] = l]
      BY <1>0, <1>4, <2>1, ForkJoinStmt DEF Step, SpawnLoad, SpawnStore, ReturnFromLabel,
         ThreadExit, MainExits, DoneLoad, DoneStore, BeginJoin, BeginJoinAll, JoinReadDone,
         JoinCompare, JoinAllCompare, JoinReadExpected, FutexWait, JoinBack, JoinedLoad,
         JoinedStore, RolesSeparate
    <3>2. entry' = entry
      BY <1>4 DEF Step, SpawnLoad, SpawnStore, ReturnFromLabel,
         ThreadExit, MainExits, DoneLoad, DoneStore, BeginJoin, BeginJoinAll, JoinReadDone,
         JoinCompare, JoinAllCompare, JoinReadExpected, FutexWait, JoinBack, JoinedLoad,
         JoinedStore
    <3> QED BY <1>0, <2>1, <3>1, <3>2 DEF RolesSeparate
  <2>2. CASE t \in Workers
    <3>1. ReturnFromLabel(t) \/ ThreadExit(t) \/ DoneLoad(t) \/ DoneStore(t)
      BY <1>0, <1>4, <2>2, ForkJoinStmt DEF Step, SpawnLoad, SpawnStore,
         MainExits, BeginJoin, BeginJoinAll, JoinReadDone,
         JoinCompare, JoinAllCompare, JoinReadExpected, FutexWait, JoinBack, JoinedLoad,
         JoinedStore, RolesSeparate
    <3>2. pc[t] # "unborn" /\ entry' = entry
          /\ \E l \in WorkerLocations : pc' = [pc EXCEPT ![t] = l]
      BY <3>1 DEF ReturnFromLabel, ThreadExit, DoneLoad, DoneStore, AtEnd, AtStmt
    <3> QED BY <1>0, <2>2, <3>2 DEF RolesSeparate
  <2> QED BY <1>0, <2>1, <2>2
<1>5. CASE UNCHANGED vars
  BY <1>5 DEF vars, RolesSeparate
<1> QED BY <1>1, <1>2, <1>3, <1>4, <1>5 DEF Next
-----------------------------------------------------------------------------
LEMMA ClonedFinite ==
  IsFiniteSet(Cloned) /\ Cardinality(Cloned) \in Nat
BY ThreadAssumption, FS_Subset, FS_CardinalityType DEF Cloned

LEMMA SpawnsInit == Init => SpawnsCounted
<1> SUFFICES ASSUME Init PROVE SpawnsCounted
  OBVIOUS
<1>1. Cloned = {}
  BY ThreadAssumption DEF Init, Cloned, Threads
<1>2. pc[Main] = "run" /\ spawn_count = 0
  BY DEF Init, Threads
<1> QED BY <1>1, <1>2, FS_EmptySet DEF SpawnsCounted

LEMMA SpawnsStep ==
  ASSUME ForkJoin, TypeOK, RolesSeparate, SpawnsCounted, [Next]_vars
  PROVE  SpawnsCounted'
<1> USE DEF TypeOK
<1>0. /\ Main \in Threads /\ Workers \subseteq Threads /\ Main \notin Workers
      /\ \A t \in Threads : t = Main \/ t \in Workers
  BY ThreadAssumption DEF Threads
<1>1. ASSUME NEW t \in Threads, ThreadSpawn(t) PROVE SpawnsCounted'
  <2>1. t = Main /\ pc[Main] = "run"
    BY <1>1, ForkJoinStmt DEF ThreadSpawn, AtStmt
  <2>2. pc'[Main] = "sp_load" /\ spawn_count' = spawn_count
    BY <1>0, <1>1, <2>1 DEF ThreadSpawn, counters
  <2>3. \E w \in Workers : w \notin Cloned /\ Cloned' = Cloned \cup {w}
    <3>1. PICK w \in Workers, birth \in {"run", "stillborn"} :
            pc[w] = "unborn" /\ pc' = [pc EXCEPT ![t] = "sp_load", ![w] = birth]
      BY <1>1 DEF ThreadSpawn
    <3> QED BY <1>0, <2>1, <3>1 DEF Cloned
  <2>4. Cardinality(Cloned') = Cardinality(Cloned) + 1
    BY <2>3, ClonedFinite, FS_AddElement
  <2> QED BY <2>1, <2>2, <2>4, ClonedFinite DEF SpawnsCounted
<1>2. ASSUME NEW t \in Threads, SpawnLoad(t) \/ SpawnStore(t) PROVE SpawnsCounted'
  <2>1. t = Main
    BY <1>0, <1>2 DEF SpawnLoad, SpawnStore, RolesSeparate, WorkerLocations
  <2>2. Cloned' = Cloned
    BY <1>0, <1>2, <2>1 DEF SpawnLoad, SpawnStore, Goto, NextStmt, Cloned
  <2>3. CASE SpawnLoad(t)
    BY <1>0, <2>1, <2>2, <2>3 DEF SpawnLoad, Goto, SpawnsCounted, counters
  <2>4. CASE SpawnStore(t)
    BY <1>0, <2>1, <2>2, <2>4, ClonedFinite DEF SpawnStore, Goto, NextStmt, SpawnsCounted
  <2> QED BY <1>2, <2>3, <2>4
<1>3. ASSUME Cloned' = Cloned, spawn_count' = spawn_count,
             pc[Main] \notin {"sp_load", "sp_store"} \/ UNCHANGED <<pc[Main], rax[Main]>>,
             pc'[Main] \in {"sp_load", "sp_store"} => pc'[Main] = pc[Main]
      PROVE  SpawnsCounted'
  BY <1>3 DEF SpawnsCounted
<1>4. ASSUME NEW t \in Threads, WakeAndExit(t) \/ FutexInterrupted(t) PROVE SpawnsCounted'
  <2>1. \A w \in Workers : pc'[w] # "unborn" <=> pc[w] # "unborn"
    BY <1>0, <1>4 DEF WakeAndExit, FutexInterrupted, Goto
  <2>2. Cloned' = Cloned
    BY <2>1 DEF Cloned
  <2> QED BY <1>0, <1>3, <1>4, <2>2 DEF WakeAndExit, FutexInterrupted, Goto, counters
<1>5. ASSUME NEW t \in Threads, Step(t), ~ ThreadSpawn(t), ~ SpawnLoad(t), ~ SpawnStore(t),
             ~ WakeAndExit(t)
      PROVE  SpawnsCounted'
  <2>1. pc[t] \notin {"unborn", "sp_load", "sp_store"} /\ spawn_count' = spawn_count
        /\ \E l \in Locations \ {"unborn", "sp_load", "sp_store"} : pc' = [pc EXCEPT ![t] = l]
    BY <1>5 DEF Step, ReturnFromLabel, ThreadExit, MainExits, DoneLoad, DoneStore, BeginJoin,
         BeginJoinAll, JoinReadDone, JoinCompare, JoinAllCompare, JoinReadExpected, FutexWait,
         JoinBack, JoinedLoad, JoinedStore, Goto, NextStmt, AtStmt, AtEnd, Locations, counters
  <2>2. \A u \in Threads \ {t} : rax'[u] = rax[u]
    BY <1>5 DEF Step, ReturnFromLabel, ThreadExit, MainExits, DoneLoad, DoneStore, BeginJoin,
         BeginJoinAll, JoinReadDone, JoinCompare, JoinAllCompare, JoinReadExpected, FutexWait,
         JoinBack, JoinedLoad, JoinedStore
  <2>3. Cloned' = Cloned
    BY <2>1 DEF Cloned
  <2> QED BY <1>0, <1>3, <2>1, <2>2, <2>3
<1>6. CASE UNCHANGED vars
  BY <1>3, <1>6 DEF vars, counters, Cloned
<1> QED BY <1>1, <1>2, <1>4, <1>5, <1>6 DEF Next

-----------------------------------------------------------------------------
(* The inductive invariant of a fork-join program.                         *)
ForkJoinInv == TypeOK /\ DoneBacked /\ RolesSeparate /\ SpawnsCounted

LEMMA ForkJoinInvariant ==
  ASSUME ForkJoin
  PROVE  Spec => []ForkJoinInv
<1>1. Init => RolesSeparate /\ SpawnsCounted
  BY RolesInit, SpawnsInit
<1>2. TypeOK /\ RolesSeparate /\ SpawnsCounted /\ [Next]_vars
        => RolesSeparate' /\ SpawnsCounted'
  BY RolesStep, SpawnsStep
<1> QED BY <1>1, <1>2, TypeCorrect, DoneIsBacked, PTL DEF Spec, ForkJoinInv

(* In a fork-join program spawn_count is right.                            *)
THEOREM SpawnCountIsRight ==
  ASSUME ForkJoin
  PROVE  Spec => []SpawnsCounted
BY ForkJoinInvariant, PTL DEF ForkJoinInv

(* Passing the comparison of join_all means that every worker is counted:  *)
(* done <= |Counted| <= |Cloned| = spawn_count <= done.                    *)
LEMMA BarrierStep ==
  ASSUME ForkJoinInv, [Next]_vars, NEW t \in Threads, PassesJoinAll(t)
  PROVE  \A w \in Workers : pc[w] \in {"unborn", "d_wake", "gone"}
<1> USE DEF ForkJoinInv
<1>0. /\ Main \in Threads /\ Workers \subseteq Threads /\ Main \notin Workers
      /\ \A u \in Threads : u = Main \/ u \in Workers
  BY ThreadAssumption DEF Threads
<1>1. t = Main
  BY <1>0 DEF PassesJoinAll, RolesSeparate, WorkerLocations
<1>2. rax[Main] >= spawn_count
  <2>1. ASSUME NEW u \in Threads, Step(u) PROVE u = t => JoinAllCompare(t)
    BY <2>1 DEF Step, PassesJoinAll, ThreadSpawn, WakeAndExit, SpawnLoad, SpawnStore,
         ReturnFromLabel, ThreadExit, MainExits, DoneLoad, DoneStore, BeginJoin, BeginJoinAll,
         JoinReadDone, JoinCompare, JoinReadExpected, FutexWait, JoinBack, JoinedLoad,
         JoinedStore, AtStmt, AtEnd
  <2>2. ASSUME NEW u \in Threads, Step(u), u # t, ~ ThreadSpawn(u), ~ WakeAndExit(u)
        PROVE pc'[t] = pc[t]
    BY <2>2 DEF Step, SpawnLoad, SpawnStore, TypeOK, Goto, NextStmt,
         ReturnFromLabel, ThreadExit, MainExits, DoneLoad, DoneStore, BeginJoin, BeginJoinAll,
         JoinReadDone, JoinCompare, JoinAllCompare, JoinReadExpected, FutexWait, JoinBack,
         JoinedLoad, JoinedStore
  <2>3. ASSUME NEW u \in Threads, u # t,
               ThreadSpawn(u) \/ WakeAndExit(u) \/ FutexInterrupted(u)
        PROVE pc'[t] # "run"
    BY <2>3 DEF ThreadSpawn, WakeAndExit, FutexInterrupted, TypeOK, Goto, PassesJoinAll
  <2>4. ASSUME FutexInterrupted(t) PROVE pc'[t] # "run"
    BY <2>4 DEF FutexInterrupted, TypeOK, Goto
  <2>5. JoinAllCompare(t)
    BY <2>1, <2>2, <2>3, <2>4 DEF Next, PassesJoinAll, vars
  <2> QED BY <1>1, <2>5 DEF JoinAllCompare, Goto, TypeOK, PassesJoinAll
<1>3. rax[Main] <= Cardinality(Counted)
  BY <1>0, <1>1 DEF PassesJoinAll, DoneBacked
<1>4. Cardinality(Cloned) = spawn_count
  BY <1>1, ClonedFinite DEF PassesJoinAll, SpawnsCounted, TypeOK
<1>5. Counted \subseteq Cloned
  BY <1>0 DEF Counted, Cloned, RolesSeparate, WorkerLocations
<1>6. Cardinality(Cloned) <= Cardinality(Counted)
  BY <1>0, <1>2, <1>3, <1>4, CountedFinite DEF TypeOK
<1>7. Counted = Cloned
  BY <1>5, <1>6, ClonedFinite, CountedFinite, FS_Subset
<1> QED BY <1>0, <1>7 DEF Cloned, Counted

(* thread:join_all is a barrier in every fork-join program, whatever clone *)
(* and mmap do and however many completions are lost.                      *)
THEOREM JoinAllIsABarrier ==
  ASSUME ForkJoin
  PROVE  Spec => JoinAllBarrier
<1>1. ForkJoinInv /\ [Next]_vars =>
        [\A t \in Threads : PassesJoinAll(t) =>
           \A w \in Workers : pc[w] \in {"unborn", "d_wake", "gone"}]_vars
  BY BarrierStep
<1> QED BY <1>1, ForkJoinInvariant, PTL DEF Spec, JoinAllBarrier
-----------------------------------------------------------------------------
LEMMA SleeperInit == Init => NoStaleSleeper
BY DEF Init, NoStaleSleeper

LEMMA SleeperStep ==
  ASSUME ForkJoinInv, ForkJoinInv', NoStaleSleeper, [Next]_vars
  PROVE  NoStaleSleeper'
<1> USE DEF ForkJoinInv, TypeOK
<1>0. Main \in Threads /\ \A t \in Threads : t = Main \/ t \in Workers
  BY ThreadAssumption DEF Threads
<1>1. /\ sleeping \subseteq {Main} /\ sleeping' \subseteq {Main}
      /\ Main \in sleeping => pc[Main] = "j_sleep"
  BY <1>0 DEF RolesSeparate, WorkerLocations
<1>2. ASSUME NEW t \in Threads, WakeAndExit(t) PROVE NoStaleSleeper'
  <2>1. sleeping' = {}
    BY <1>1, <1>2 DEF WakeAndExit
  <2> QED BY <2>1 DEF NoStaleSleeper
<1>3. ASSUME NEW t \in Threads, DoneStore(t) PROVE NoStaleSleeper'
  BY <1>3 DEF DoneStore, Goto, NoStaleSleeper
<1>4. ASSUME NEW t \in Threads, FutexWait(t) PROVE NoStaleSleeper'
  <2>1. t = Main
    BY <1>0, <1>4 DEF FutexWait, RolesSeparate, WorkerLocations
  <2>2. CASE done_count = rdx[t]
    BY <1>1, <1>4, <2>1, <2>2 DEF FutexWait, NoStaleSleeper, counters
  <2>3. CASE done_count # rdx[t]
    <3>1. sleeping' = sleeping /\ pc[Main] = "j_wait"
      BY <1>4, <2>1, <2>3 DEF FutexWait
    <3> QED BY <1>1, <3>1 DEF NoStaleSleeper
  <2> QED BY <2>2, <2>3
<1>5. ASSUME done_count' = done_count, sleeping' \subseteq sleeping,
             Main \in sleeping => rdx'[Main] = rdx[Main],
             \A w \in Threads : pc[w] = "d_wake" => pc'[w] = "d_wake"
      PROVE  NoStaleSleeper'
  BY <1>1, <1>5 DEF NoStaleSleeper
<1>6. ASSUME NEW t \in Threads, ThreadSpawn(t) \/ FutexInterrupted(t) PROVE NoStaleSleeper'
  BY <1>5, <1>6 DEF ThreadSpawn, FutexInterrupted, Goto, AtStmt, counters
<1>7. ASSUME NEW t \in Threads, Step(t), ~ ThreadSpawn(t), ~ DoneStore(t), ~ FutexWait(t),
             ~ WakeAndExit(t)
      PROVE  NoStaleSleeper'
  <2>1. /\ done_count' = done_count /\ sleeping' = sleeping
        /\ pc[t] \notin {"d_wake", "j_sleep"} /\ \E l \in Locations : pc' = [pc EXCEPT ![t] = l]
    BY <1>7 DEF Step, SpawnLoad, SpawnStore, ReturnFromLabel, ThreadExit, MainExits, DoneLoad,
         BeginJoin, BeginJoinAll, JoinReadDone, JoinCompare, JoinAllCompare, JoinReadExpected,
         JoinBack, JoinedLoad, JoinedStore, Goto, NextStmt, AtStmt, AtEnd, Locations, counters
  <2>2. \A u \in Threads \ {t} : rdx'[u] = rdx[u]
    BY <1>7 DEF Step, SpawnLoad, SpawnStore, ReturnFromLabel, ThreadExit, MainExits, DoneLoad,
         BeginJoin, BeginJoinAll, JoinReadDone, JoinCompare, JoinAllCompare, JoinReadExpected,
         JoinBack, JoinedLoad, JoinedStore
  <2> QED BY <1>0, <1>1, <1>5, <2>1, <2>2
<1>8. CASE UNCHANGED vars
  BY <1>5, <1>8 DEF vars, counters
<1> QED BY <1>2, <1>3, <1>4, <1>6, <1>7, <1>8 DEF Next, Step

(* In a fork-join program a joiner never sleeps on a value of done that has *)
(* been replaced without a wake-up on its way: the only wake-up that can be *)
(* missed is one sent before the expected value is read.                    *)
THEOREM NoSleeperIsStale ==
  ASSUME ForkJoin
  PROVE  Spec => []NoStaleSleeper
BY SleeperInit, SleeperStep, ForkJoinInvariant, PTL DEF Spec
-----------------------------------------------------------------------------
(* The rounds of a wait loop.  A round is paid for by a store of done      *)
(* between the joiner's two looks at it, by the wake of a thread that      *)
(* exits, or by a signal.  Owed is the round that is about to be used up.  *)
Gone == {t \in Threads : pc[t] = "gone"}
Budget == IF Stmt(Main).op = "join" THEN JoinBudget ELSE JoinAllBudget
Owed == IF pc[Main] = "j_back" \/ (pc[Main] = "j_wait" /\ done_count # rdx[Main]) THEN 1 ELSE 0

Paid == Cardinality(Counted) + Cardinality(Gone) + signals
Rounds == pc[Main] \in Waiting => Budget - fuel[Main] + Owed <= Paid

LEMMA GoneFinite ==
  /\ IsFiniteSet(Gone) /\ Cardinality(Gone) \in Nat /\ Cardinality(Gone') \in Nat
  /\ Cardinality(Gone) <= Cardinality(Counted)
  /\ Gone \subseteq Gone' => Cardinality(Gone) <= Cardinality(Gone')
<1>1. Gone \subseteq Counted /\ Gone \subseteq Threads /\ Gone' \subseteq Threads
  BY DEF Gone, Counted
<1>2. IsFiniteSet(Gone')
  BY <1>1, ThreadsFinite, CardMonotone
<1> QED BY <1>1, <1>2, ThreadsFinite, CountedFinite, CardMonotone

LEMMA SumGrows ==
  ASSUME NEW a \in Nat, NEW b \in Nat, NEW c \in Nat, NEW d \in Nat, NEW s \in Nat, NEW z \in Nat,
         a <= b, c <= d, s <= z
  PROVE  /\ a + c + s \in Nat /\ b + d + z \in Nat /\ a + c + s <= b + d + z
         /\ b = a + 1 \/ d = c + 1 \/ z = s + 1 => a + c + s + 1 <= b + d + z
OBVIOUS

LEMMA PaidGrows ==
  ASSUME TypeOK, [Next]_vars, Gone \subseteq Gone', signals' >= signals
  PROVE  /\ Paid \in Nat /\ Paid' \in Nat /\ Paid <= Paid'
         /\ (\E t : t \notin Counted /\ Counted' = Counted \cup {t}) => Paid + 1 <= Paid'
         /\ (\E t : t \notin Gone /\ Gone' = Gone \cup {t}) => Paid + 1 <= Paid'
         /\ signals' = signals + 1 => Paid + 1 <= Paid'
<1> DEFINE a == Cardinality(Counted)
           b == Cardinality(Counted')
           c == Cardinality(Gone)
           d == Cardinality(Gone')
<1>1. a \in Nat /\ b \in Nat /\ c \in Nat /\ d \in Nat /\ a <= b /\ c <= d
  BY CountedGrows, CountedFinite, GoneFinite, CardMonotone
<1>2. (\E t : t \notin Counted /\ Counted' = Counted \cup {t}) => b = a + 1
  BY CountedFinite, FS_AddElement
<1>3. (\E t : t \notin Gone /\ Gone' = Gone \cup {t}) => d = c + 1
  BY GoneFinite, FS_AddElement
<1>4. signals \in Nat /\ signals' \in Nat
  <2>1. TypeOK'
    BY TypeStep
  <2> QED BY <2>1, ThreadAssumption DEF TypeOK
<1>5. Paid = a + c + signals /\ Paid' = b + d + signals'
  BY DEF Paid
<1>6. /\ Paid \in Nat /\ Paid' \in Nat /\ Paid <= Paid'
      /\ b = a + 1 \/ d = c + 1 \/ signals' = signals + 1 => Paid + 1 <= Paid'
  BY <1>1, <1>4, <1>5, SumGrows
<1> QED BY <1>2, <1>3, <1>6, Zenon

LEMMA RoundsInit == Init => Rounds
BY ThreadsFinite DEF Init, Rounds, Waiting

LEMMA RoundsStep ==
  ASSUME ForkJoin, ForkJoinInv, ForkJoinInv', Rounds, [Next]_vars
  PROVE  Rounds'
<1> USE DEF ForkJoinInv
<1>0. /\ Main \in Threads /\ Workers \subseteq Threads /\ Main \notin Workers
      /\ \A t \in Threads : t = Main \/ t \in Workers
      /\ JoinBudget \in Nat /\ JoinAllBudget \in Nat
  BY ThreadAssumption DEF Threads
<1>1. /\ pc \in [Threads -> Locations] /\ fuel \in [Threads -> Nat] /\ fuel[Main] \in Nat
      /\ fuel'[Main] \in Nat /\ Budget \in Nat /\ sleeping \subseteq {Main}
      /\ Main \in sleeping => pc[Main] = "j_sleep"
  BY <1>0 DEF TypeOK, Budget, RolesSeparate, WorkerLocations
<1>2. ASSUME NEW t \in Threads, t # Main, Step(t)
      PROVE  /\ UNCHANGED <<fuel, rdx, ip, signals>> /\ entry'[Main] = entry[Main]
             /\ ReturnFromLabel(t) \/ ThreadExit(t) \/ DoneLoad(t) \/ DoneStore(t) \/ WakeAndExit(t)
  <2>1. ReturnFromLabel(t) \/ ThreadExit(t) \/ DoneLoad(t) \/ DoneStore(t) \/ WakeAndExit(t)
    BY <1>0, <1>2, ForkJoinStmt DEF Step, ThreadSpawn, SpawnLoad, SpawnStore, MainExits,
       BeginJoin, BeginJoinAll, JoinReadDone, JoinCompare, JoinAllCompare, JoinReadExpected,
       FutexWait, JoinBack, JoinedLoad, JoinedStore, RolesSeparate, WorkerLocations
  <2> QED BY <2>1 DEF ReturnFromLabel, ThreadExit, DoneLoad, DoneStore, WakeAndExit
<1>3. ASSUME UNCHANGED <<ip, entry>> PROVE Budget' = Budget
  BY <1>3 DEF Budget, Stmt
<1>4. ASSUME NEW t \in Threads, t # Main, Step(t) PROVE Rounds'
  <2>1. CASE DoneStore(t)
    <3>1. t \notin Counted /\ Counted' = Counted \cup {t} /\ Gone' = Gone
      BY <1>1, <2>1 DEF DoneStore, Goto, Counted, Gone
    <3>2. Paid \in Nat /\ Paid' \in Nat /\ Paid + 1 <= Paid'
      BY <1>2, <1>4, <3>1, PaidGrows DEF TypeOK
    <3>3. pc'[Main] = pc[Main] /\ UNCHANGED <<fuel, ip, entry>> /\ Budget' = Budget
      BY <1>0, <1>1, <1>3, <1>4, <2>1 DEF DoneStore, Goto
    <3>4. Owed' <= Owed + 1 /\ Owed \in Nat /\ Owed' \in Nat
      BY DEF Owed
    <3> QED BY <1>1, <3>2, <3>3, <3>4 DEF Rounds
  <2>2. CASE WakeAndExit(t)
    <3>1. /\ UNCHANGED <<counters, rdx, fuel, ip, entry, signals>> /\ Budget' = Budget /\ pc[t] = "d_wake"
          /\ pc' = [pc EXCEPT ![t] = "gone"] \/
             (pc' = [pc EXCEPT ![t] = "gone", ![Main] = "j_back"] /\ pc[Main] = "j_sleep")
      BY <1>1, <1>3, <2>2 DEF WakeAndExit, Goto
    <3>2. t \notin Gone /\ Gone' = Gone \cup {t}
      BY <1>0, <1>1, <1>4, <3>1 DEF Gone
    <3>3. Paid \in Nat /\ Paid' \in Nat /\ Paid + 1 <= Paid'
      BY <3>1, <3>2, PaidGrows DEF TypeOK
    <3>4. /\ Owed \in Nat /\ Owed' \in Nat /\ Owed' <= Owed + 1
          /\ pc'[Main] \in Waiting => pc[Main] \in Waiting
      BY <1>0, <1>1, <1>4, <3>1 DEF Owed, Waiting
    <3> QED BY <1>1, <3>1, <3>3, <3>4 DEF Rounds
  <2>3. CASE ReturnFromLabel(t) \/ ThreadExit(t) \/ DoneLoad(t)
    <3>1. pc'[Main] = pc[Main] /\ UNCHANGED <<counters, rdx, fuel, ip, entry, signals>>
      BY <1>0, <1>1, <1>4, <2>3 DEF ReturnFromLabel, ThreadExit, DoneLoad, Goto
    <3>2. Gone \subseteq Gone'
      BY <1>1, <2>3 DEF ReturnFromLabel, ThreadExit, DoneLoad, Goto, Gone, AtEnd, AtStmt
    <3>3. Paid \in Nat /\ Paid' \in Nat /\ Paid <= Paid' /\ Owed' = Owed /\ Owed \in Nat /\ Budget' = Budget
      BY <1>3, <3>1, <3>2, PaidGrows DEF TypeOK, Owed, counters
    <3> QED BY <1>1, <3>1, <3>3 DEF Rounds
  <2> QED BY <1>2, <1>4, <2>1, <2>2, <2>3
<1>5. ASSUME NEW t \in Threads, FutexInterrupted(t) PROVE Rounds'
  <2>1. /\ t = Main /\ pc[Main] = "j_sleep" /\ pc'[Main] = "j_back" /\ signals' = signals + 1
        /\ UNCHANGED <<fuel, ip, entry>> /\ Budget' = Budget
    BY <1>0, <1>1, <1>3, <1>5 DEF FutexInterrupted, Goto
  <2>2. Gone \subseteq Gone' /\ signals \in Nat
    BY <1>1, <1>5, <2>1 DEF Gone, FutexInterrupted, Goto, TypeOK
  <2>3. Paid \in Nat /\ Paid' \in Nat /\ Paid + 1 <= Paid'
    BY <2>1, <2>2, PaidGrows
  <2> QED BY <1>1, <2>1, <2>3 DEF Rounds, Owed, Waiting
<1>6. ASSUME Step(Main) PROVE Rounds'
  <2> SUFFICES ASSUME pc'[Main] \in Waiting PROVE Budget' - fuel'[Main] + Owed' <= Paid'
    BY DEF Rounds
  <2>1. /\ BeginJoin(Main) \/ BeginJoinAll(Main) \/ JoinReadDone(Main) \/ JoinCompare(Main)
           \/ JoinAllCompare(Main) \/ JoinReadExpected(Main) \/ FutexWait(Main) \/ JoinBack(Main)
    <3>1. ~WakeAndExit(Main) /\ ~DoneLoad(Main) /\ ~DoneStore(Main)
      BY <1>0 DEF WakeAndExit, DoneLoad, DoneStore, RolesSeparate, WorkerLocations
    <3>2. ThreadSpawn(Main) => pc'[Main] = "sp_load"
      BY <1>0, <1>1 DEF ThreadSpawn
    <3>3. SpawnLoad(Main) \/ SpawnStore(Main) \/ ReturnFromLabel(Main) \/ ThreadExit(Main)
          \/ MainExits(Main) \/ JoinedLoad(Main) \/ JoinedStore(Main)
            => pc'[Main] \in {"sp_store", "run", "d_load", "exited", "j_store"}
      BY <1>0, <1>1 DEF SpawnLoad, SpawnStore, ReturnFromLabel, ThreadExit, MainExits, JoinedLoad,
         JoinedStore, Goto, NextStmt
    <3> QED BY <1>6, <3>1, <3>2, <3>3 DEF Step, Waiting
  <2>2. /\ pc[Main] # "gone" /\ Gone \subseteq Gone' /\ UNCHANGED signals
    <3>1. pc[Main] # "gone" /\ (\E l \in Locations : pc' = [pc EXCEPT ![Main] = l]) /\ UNCHANGED signals
      BY <1>0, <2>1 DEF BeginJoin, BeginJoinAll, JoinReadDone, JoinCompare, JoinAllCompare,
         JoinReadExpected, FutexWait, JoinBack, Goto, NextStmt, Locations, AtStmt
    <3> QED BY <1>1, <3>1 DEF Gone
  <2>3. Paid \in Nat /\ Paid' \in Nat /\ Paid <= Paid'
    BY <2>2, PaidGrows DEF TypeOK
  <2>4. CASE BeginJoin(Main) \/ BeginJoinAll(Main)
    <3>1. fuel'[Main] = Budget /\ UNCHANGED <<ip, entry>> /\ pc'[Main] = "j_done"
      BY <1>0, <1>1, <2>4 DEF BeginJoin, BeginJoinAll, AtStmt, Goto, Budget, Stmt
    <3> QED BY <1>1, <1>3, <2>3, <3>1 DEF Owed
  <2>5. CASE JoinReadDone(Main) \/ JoinCompare(Main) \/ JoinAllCompare(Main) \/ JoinReadExpected(Main)
    <3>1. /\ pc[Main] \in {"j_done", "j_cmp", "j_expect"} /\ UNCHANGED <<fuel, ip, entry>>
          /\ pc'[Main] \in {"j_cmp", "j_expect"} \/
             (pc'[Main] = "j_wait" /\ done_count' = rdx'[Main])
      BY <1>0, <1>1, <2>5 DEF JoinReadDone, JoinCompare, JoinAllCompare, JoinReadExpected, Goto,
         NextStmt, Waiting, TypeOK, counters
    <3> QED BY <1>1, <1>3, <2>3, <3>1 DEF Rounds, Owed, Waiting
  <2>6. CASE FutexWait(Main)
    <3>1. /\ pc[Main] = "j_wait" /\ UNCHANGED <<fuel, ip, entry>>
          /\ pc'[Main] = IF done_count = rdx[Main] THEN "j_sleep" ELSE "j_back"
      BY <1>0, <1>1, <2>6 DEF FutexWait, Goto
    <3> QED BY <1>1, <1>3, <2>3, <3>1 DEF Rounds, Owed, Waiting
  <2>7. CASE JoinBack(Main)
    <3>1. /\ pc[Main] = "j_back" /\ fuel'[Main] = fuel[Main] - 1 /\ pc'[Main] = "j_done"
          /\ UNCHANGED <<ip, entry>>
      BY <1>0, <1>1, <2>7 DEF JoinBack, Goto, NextStmt, Waiting
    <3> QED BY <1>1, <1>3, <2>3, <3>1 DEF Rounds, Owed, Waiting
  <2> QED BY <2>1, <2>4, <2>5, <2>6, <2>7
<1>7. CASE UNCHANGED vars
  <2>1. UNCHANGED <<pc, fuel, done_count, rdx, ip, entry, signals>>
    BY <1>7 DEF vars, counters
  <2> QED BY <1>3, <2>1 DEF Rounds, Paid, Owed, Counted, Gone
<1> QED BY <1>0, <1>4, <1>5, <1>6, <1>7 DEF Next

LEMMA RoundsInvariant ==
  ASSUME ForkJoin
  PROVE  Spec => []Rounds
<1>1. ForkJoinInv /\ ForkJoinInv' /\ Rounds /\ [Next]_vars => Rounds'
  BY RoundsStep
<1> QED BY <1>1, RoundsInit, ForkJoinInvariant, PTL DEF Spec

(* In a fork-join program a round is used up only when a worker finishes or *)
(* a signal comes, two at most for each worker: no join ends by its budget  *)
(* while workers are fewer than half of it.                                 *)
THEOREM RoundsArePaidFor ==
  ASSUME ForkJoin
  PROVE  Spec => []BudgetBound
<1>1. ForkJoinInv /\ Rounds => BudgetBound
  <2> SUFFICES ASSUME ForkJoinInv, Rounds, NEW t \in Threads, pc[t] \in Waiting \ {"j_back"}
               PROVE  (IF Stmt(t).op = "join" THEN JoinBudget ELSE JoinAllBudget) - fuel[t]
                        <= 2 * Cardinality(Counted) + signals
    BY DEF BudgetBound
  <2>1. t = Main
    <3>1. t = Main \/ t \in Workers
      BY DEF Threads
    <3> QED BY <3>1 DEF ForkJoinInv, RolesSeparate, WorkerLocations, Waiting
  <2>2. Budget - fuel[Main] + Owed <= Paid /\ Owed \in Nat /\ Budget \in Nat /\ fuel[Main] \in Nat
    BY <2>1, ThreadAssumption DEF Rounds, Owed, Budget, ForkJoinInv, TypeOK
  <2>3. Paid <= 2 * Cardinality(Counted) + signals /\ Paid \in Nat /\ signals \in Nat
        /\ Cardinality(Counted) \in Nat
    BY CountedFinite, GoneFinite DEF Paid, ForkJoinInv, TypeOK
  <2>4. Budget - fuel[Main] <= 2 * Cardinality(Counted) + signals
    BY <2>2, <2>3
  <2> QED BY <2>1, <2>4 DEF Budget
<1> QED BY <1>1, RoundsInvariant, ForkJoinInvariant, PTL

-----------------------------------------------------------------------------
(* Joins and completions.  Of a fork-join program with a budget that its   *)
(* workers cannot use up.                                                  *)
EnoughRounds == JoinBudget > 2 * Cardinality(Workers) + MaxSignals

Joining ==
  /\ joined_count + (IF pc[Main] \in {"j_load", "j_store"} THEN 1 ELSE 0) <= Cardinality(Counted)
  /\ pc[Main] = "j_store" => rax[Main] = joined_count

LEMMA CountedAreWorkers ==
  ASSUME ForkJoinInv PROVE Cardinality(Counted) <= Cardinality(Workers) /\ Cardinality(Workers) \in Nat
<1>1. Counted \subseteq Workers
  BY DEF Counted, Threads, ForkJoinInv, RolesSeparate, WorkerLocations
<1> QED BY <1>1, ThreadAssumption, CardMonotone

LEMMA JoiningStep ==
  ASSUME ForkJoin, EnoughRounds, ForkJoinInv, Rounds, Joining, [Next]_vars
  PROVE  Joining'
<1> USE DEF ForkJoinInv
<1>0. /\ Main \in Threads /\ Main \notin Workers /\ \A t \in Threads : t = Main \/ t \in Workers
      /\ pc \in [Threads -> Locations] /\ rax \in [Threads -> Nat] /\ joined_count \in Nat
  BY ThreadAssumption DEF Threads, TypeOK
<1> DEFINE n == Cardinality(Counted)
           m == Cardinality(Counted')
<1>1. n \in Nat /\ m \in Nat /\ n <= m
  BY CountedGrows, CountedFinite, CardMonotone
<1>2. joined_count + (IF pc[Main] \in {"j_load", "j_store"} THEN 1 ELSE 0) <= n
  BY DEF Joining
<1> SUFFICES /\ joined_count' + (IF pc'[Main] \in {"j_load", "j_store"} THEN 1 ELSE 0) <= m
             /\ pc'[Main] = "j_store" => rax'[Main] = joined_count'
  BY DEF Joining
<1>3. pc[Main] = "j_cmp" => rax[Main] <= n
  BY <1>0 DEF DoneBacked
<1>4. JoinBack(Main) => pc'[Main] # "j_load"
  <2> SUFFICES ASSUME JoinBack(Main), pc'[Main] = "j_load" PROVE FALSE
    OBVIOUS
  <2>1. pc[Main] = "j_back" /\ fuel[Main] - 1 <= 0 /\ Stmt(Main).op = "join" /\ fuel[Main] \in Nat
    BY <1>0 DEF JoinBack, Goto, NextStmt, TypeOK
  <2>2. JoinBudget - fuel[Main] + 1 <= Paid
    BY <2>1 DEF Rounds, Budget, Owed, Waiting
  <2>3. Cardinality(Gone) \in Nat /\ Cardinality(Gone) <= n /\ n <= Cardinality(Workers)
        /\ Cardinality(Workers) \in Nat /\ signals \in Nat /\ signals <= MaxSignals /\ MaxSignals \in Nat
    BY GoneFinite, CountedAreWorkers, ThreadAssumption DEF TypeOK
  <2>4. Paid = n + Cardinality(Gone) + signals
    BY DEF Paid
  <2>5. JoinBudget \in Nat /\ JoinBudget > 2 * Cardinality(Workers) + MaxSignals
    BY ThreadAssumption DEF EnoughRounds
  <2> HIDE DEF n
  <2> QED BY <1>1, <2>1, <2>2, <2>3, <2>4, <2>5
<1> HIDE DEF n, m
<1>5. ASSUME NEW t \in Threads, t # Main, Step(t) \/ FutexInterrupted(t)
      PROVE  /\ joined_count' = joined_count /\ rax'[Main] = rax[Main]
             /\ pc'[Main] = pc[Main] \/ pc'[Main] = "j_back"
  <2>1. ReturnFromLabel(t) \/ ThreadExit(t) \/ DoneLoad(t) \/ DoneStore(t) \/ WakeAndExit(t)
        \/ FutexInterrupted(t)
    BY <1>0, <1>5, ForkJoinStmt DEF Step, ThreadSpawn, SpawnLoad, SpawnStore, MainExits,
       BeginJoin, BeginJoinAll, JoinReadDone, JoinCompare, JoinAllCompare, JoinReadExpected,
       FutexWait, JoinBack, JoinedLoad, JoinedStore, RolesSeparate, WorkerLocations
  <2> QED BY <1>0, <1>5, <2>1 DEF ReturnFromLabel, ThreadExit, DoneLoad, DoneStore, WakeAndExit,
       FutexInterrupted, Goto, counters
<1>6. ASSUME Step(Main) \/ FutexInterrupted(Main)
      PROVE  \/ pc'[Main] \notin {"j_load", "j_store"} /\ joined_count' = joined_count
             \/ JoinCompare(Main) /\ pc'[Main] = "j_load"
             \/ JoinedLoad(Main) \/ JoinedStore(Main)
  <2>1. ~WakeAndExit(Main) /\ ~DoneLoad(Main) /\ ~DoneStore(Main)
    BY <1>0 DEF WakeAndExit, DoneLoad, DoneStore, RolesSeparate, WorkerLocations
  <2>2. ThreadSpawn(Main) \/ FutexInterrupted(Main)
          => pc'[Main] \in {"sp_load", "j_back"} /\ joined_count' = joined_count
    BY <1>0 DEF ThreadSpawn, FutexInterrupted, Goto, counters
  <2>3. SpawnLoad(Main) \/ SpawnStore(Main) \/ ReturnFromLabel(Main) \/ ThreadExit(Main)
        \/ MainExits(Main) \/ BeginJoin(Main) \/ BeginJoinAll(Main) \/ JoinReadDone(Main)
        \/ JoinAllCompare(Main) \/ JoinReadExpected(Main) \/ FutexWait(Main)
          => pc'[Main] \notin {"j_load", "j_store"} /\ joined_count' = joined_count
    BY <1>0 DEF SpawnLoad, SpawnStore, ReturnFromLabel, ThreadExit, MainExits, BeginJoin,
       BeginJoinAll, JoinReadDone, JoinAllCompare, JoinReadExpected, FutexWait, Goto, NextStmt, counters
  <2>4. JoinCompare(Main) => pc'[Main] \in {"j_load", "j_expect"} /\ joined_count' = joined_count
    BY <1>0 DEF JoinCompare, Goto, counters
  <2>5. JoinBack(Main) => pc'[Main] \in {"j_done", "run", "j_load"} /\ joined_count' = joined_count
    BY <1>0 DEF JoinBack, Goto, NextStmt, counters
  <2> QED BY <1>4, <1>6, <2>1, <2>2, <2>3, <2>4, <2>5 DEF Step
<1>7. CASE \E t \in Threads : t # Main /\ (Step(t) \/ FutexInterrupted(t))
  BY <1>0, <1>1, <1>2, <1>5, <1>7 DEF Joining
<1>8. CASE pc'[Main] \notin {"j_load", "j_store"} /\ joined_count' = joined_count
  BY <1>0, <1>1, <1>2, <1>8
<1>9. CASE JoinCompare(Main) /\ pc'[Main] = "j_load"
  BY <1>0, <1>1, <1>3, <1>9 DEF JoinCompare, Goto, counters
<1>10. CASE JoinedLoad(Main)
  BY <1>0, <1>1, <1>2, <1>10 DEF JoinedLoad, Goto, counters
<1>11. CASE JoinedStore(Main)
  BY <1>0, <1>1, <1>2, <1>11 DEF JoinedStore, Goto, NextStmt, Joining
<1>12. CASE UNCHANGED vars
  BY <1>0, <1>1, <1>2, <1>12 DEF vars, counters, Joining
<1> QED BY <1>6, <1>7, <1>8, <1>9, <1>10, <1>11, <1>12 DEF Next
-----------------------------------------------------------------------------
(* Joins that have returned.  In a fork-join program they are the main     *)
(* thread's, and joined_count is their number.                             *)
MainReturned(n) ==
  {<<Main, i>> : i \in {j \in DOMAIN Script[MainLabel] : j < n /\ Script[MainLabel][j].op = "join"}}

Returns ==
  /\ \A w \in Workers : ip[w] = 1
  /\ IsFiniteSet(MainReturned(ip[Main])) /\ Cardinality(MainReturned(ip[Main])) = joined_count
  /\ pc[Main] \in Waiting \cup {"j_load", "j_store"} => ip[Main] \in DOMAIN Script[MainLabel]
  /\ pc[Main] \in {"j_load", "j_store"} => Stmt(Main).op = "join"
  /\ pc[Main] \in {"sp_load", "sp_store"} => Stmt(Main).op = "spawn"

LEMMA ReturnedAreMains ==
  ASSUME TypeOK, RolesSeparate, Returns
  PROVE  JoinsReturned = MainReturned(ip[Main])
<1> DEFINE Own(t) == {j \in DOMAIN Script[entry[t]] : j < ip[t] /\ Script[entry[t]][j].op = "join"}
           Pairs(t) == {<<t, i>> : i \in Own(t)}
<1>1. JoinsReturned = UNION {Pairs(t) : t \in Threads}
  BY DEF JoinsReturned
<1>2. ASSUME NEW w \in Workers PROVE Pairs(w) = {}
  <2>1. ip[w] = 1 /\ entry[w] \in Labels
    BY ThreadsFinite DEF Returns, TypeOK
  <2>2. DOMAIN Script[entry[w]] \subseteq Nat \ {0}
    BY <2>1, ThreadAssumption
  <2> QED BY <2>1, <2>2
<1>3. Pairs(Main) = MainReturned(ip[Main])
  BY DEF RolesSeparate, MainReturned
<1>4. \A t \in Threads : t = Main \/ t \in Workers
  BY DEF Threads
<1> HIDE DEF Pairs
<1>5. UNION {Pairs(t) : t \in Threads} = Pairs(Main)
  BY <1>2, <1>4, ThreadsFinite
<1> QED BY <1>1, <1>3, <1>5

(* What one more statement behind the main thread adds to its joins.       *)
LEMMA OneMore ==
  ASSUME NEW n \in Nat \ {0}
  PROVE  /\ n \in DOMAIN Script[MainLabel] /\ Script[MainLabel][n].op = "join"
             => MainReturned(n + 1) = MainReturned(n) \cup {<<Main, n>>}
         /\ <<Main, n>> \notin MainReturned(n)
         /\ Script[MainLabel][n].op # "join" => MainReturned(n + 1) = MainReturned(n)
<1>1. DOMAIN Script[MainLabel] \subseteq Nat \ {0}
  BY ThreadAssumption
<1>2. \A j \in DOMAIN Script[MainLabel] : j < n + 1 <=> j < n \/ j = n
  BY <1>1
<1>3. \A j \in DOMAIN Script[MainLabel] : j < n => j # n
  BY <1>1
<1> QED BY <1>2, <1>3 DEF MainReturned

LEMMA ReturnsStep ==
  ASSUME ForkJoin, ForkJoinInv, Joining, Returns, [Next]_vars
  PROVE  Returns'
<1> USE DEF ForkJoinInv
<1>0. /\ Main \in Threads /\ Main \notin Workers /\ Workers \subseteq Threads
      /\ \A t \in Threads : t = Main \/ t \in Workers
      /\ pc \in [Threads -> Locations] /\ ip \in [Threads -> Nat \ {0}]
      /\ ip[Main] \in Nat \ {0} /\ joined_count \in Nat /\ entry[Main] = MainLabel
  BY ThreadAssumption DEF Threads, TypeOK, RolesSeparate
<1>1. Stmt(Main) = Script[MainLabel][ip[Main]]
  BY <1>0 DEF Stmt
<1>2. ASSUME UNCHANGED <<ip, joined_count>>, entry'[Main] = entry[Main],
             pc'[Main] \in Waiting => pc[Main] \in Waiting \/ ip[Main] \in DOMAIN Script[MainLabel],
             pc'[Main] \in {"j_load", "j_store"} =>
               pc[Main] \in Waiting \cup {"j_load", "j_store"} /\ Stmt(Main).op = "join",
             pc'[Main] \in {"sp_load", "sp_store"} => Stmt(Main).op = "spawn"
      PROVE  Returns'
  <2>1. Stmt(Main)' = Stmt(Main) /\ MainReturned(ip[Main])' = MainReturned(ip[Main])
    BY <1>2 DEF Stmt, MainReturned
  <2> QED BY <1>2, <2>1 DEF Returns
<1>3. ASSUME ip' = [ip EXCEPT ![Main] = @ + 1], pc'[Main] = "run", entry' = entry,
             Stmt(Main).op # "join", joined_count' = joined_count
      PROVE  Returns'
  <2>1. ip'[Main] = ip[Main] + 1 /\ \A w \in Workers : ip'[w] = ip[w]
    BY <1>0, <1>3
  <2>2. MainReturned(ip'[Main]) = MainReturned(ip[Main])
    BY <1>0, <1>1, <1>3, <2>1, OneMore
  <2> QED BY <1>3, <2>1, <2>2 DEF Returns, Waiting
<1>4. ASSUME NEW t \in Threads, t # Main, Step(t) \/ FutexInterrupted(t) PROVE Returns'
  <2>1. ReturnFromLabel(t) \/ ThreadExit(t) \/ DoneLoad(t) \/ DoneStore(t) \/ WakeAndExit(t)
        \/ FutexInterrupted(t)
    BY <1>0, <1>4, ForkJoinStmt DEF Step, ThreadSpawn, SpawnLoad, SpawnStore, MainExits,
       BeginJoin, BeginJoinAll, JoinReadDone, JoinCompare, JoinAllCompare, JoinReadExpected,
       FutexWait, JoinBack, JoinedLoad, JoinedStore, RolesSeparate, WorkerLocations
  <2>2. /\ UNCHANGED <<ip, joined_count, entry>>
        /\ pc'[Main] = pc[Main] \/ (pc'[Main] = "j_back" /\ pc[Main] \in Waiting)
    BY <1>0, <1>4, <2>1 DEF ReturnFromLabel, ThreadExit, DoneLoad, DoneStore, WakeAndExit,
       FutexInterrupted, Goto, counters, TypeOK, Waiting
  <2> QED BY <1>2, <2>2 DEF Returns, Waiting
<1>5. ASSUME ThreadSpawn(Main) PROVE Returns'
  <2>1. /\ UNCHANGED <<ip, joined_count>> /\ entry'[Main] = entry[Main]
        /\ pc'[Main] = "sp_load" /\ Stmt(Main).op = "spawn"
    BY <1>0, <1>5 DEF ThreadSpawn, AtStmt, Stmt, counters, TypeOK
  <2> QED BY <1>2, <2>1 DEF Waiting
<1>6. ASSUME FutexInterrupted(Main) \/ SpawnLoad(Main) \/ ReturnFromLabel(Main) \/ ThreadExit(Main)
             \/ MainExits(Main) \/ JoinReadDone(Main) \/ JoinCompare(Main)
             \/ JoinReadExpected(Main) \/ FutexWait(Main) \/ JoinedLoad(Main)
      PROVE Returns'
  <2>1. UNCHANGED <<ip, joined_count, entry>>
    BY <1>6 DEF FutexInterrupted, SpawnLoad, ReturnFromLabel, ThreadExit, MainExits, JoinReadDone,
       JoinCompare, JoinReadExpected, FutexWait, JoinedLoad, counters
  <2>2. \/ pc'[Main] \in {"d_load", "exited"}
        \/ pc[Main] = "sp_load" /\ pc'[Main] = "sp_store"
        \/ pc[Main] \in Waiting /\ pc'[Main] \in Waiting
        \/ pc[Main] \in Waiting /\ pc'[Main] = "j_load" /\ Stmt(Main).op = "join"
        \/ pc[Main] = "j_load" /\ pc'[Main] = "j_store"
    BY <1>0, <1>6 DEF FutexInterrupted, SpawnLoad, ReturnFromLabel, ThreadExit, MainExits,
       JoinReadDone, JoinCompare, JoinReadExpected, FutexWait, JoinedLoad, Goto, TypeOK, Waiting
  <2> QED BY <1>2, <2>1, <2>2 DEF Returns, Waiting
<1>7. ASSUME BeginJoin(Main) \/ BeginJoinAll(Main) PROVE Returns'
  <2>1. UNCHANGED <<ip, joined_count, entry>> /\ pc'[Main] = "j_done"
    BY <1>0, <1>7 DEF BeginJoin, BeginJoinAll, Goto, counters
  <2>2. ip[Main] \in DOMAIN Script[MainLabel]
    BY <1>0, <1>7, StmtType DEF BeginJoin, BeginJoinAll, AtStmt
  <2> QED BY <1>2, <2>1, <2>2 DEF Waiting
<1>8. CASE SpawnStore(Main)
  BY <1>0, <1>3, <1>8 DEF SpawnStore, NextStmt, Goto, Returns
<1>9. CASE JoinAllCompare(Main)
  <2>1. CASE rax[Main] >= spawn_count
    BY <1>0, <1>3, <1>9, <2>1 DEF JoinAllCompare, NextStmt, Goto, counters
  <2>2. CASE ~(rax[Main] >= spawn_count)
    BY <1>0, <1>2, <1>9, <2>2 DEF JoinAllCompare, Goto, Waiting, counters
  <2> QED BY <2>1, <2>2
<1>10. CASE JoinBack(Main)
  <2>1. pc[Main] \in Waiting /\ UNCHANGED <<joined_count, entry>>
    BY <1>10 DEF JoinBack, Waiting, counters
  <2>2. CASE ip' = ip
    <3>1. pc'[Main] = "j_done" \/ (pc'[Main] = "j_load" /\ Stmt(Main).op = "join")
      BY <1>0, <1>10, <2>2 DEF JoinBack, Goto, NextStmt
    <3> QED BY <1>2, <2>1, <2>2, <3>1 DEF Waiting
  <2>3. CASE ip' # ip
    <3>1. pc'[Main] = "run" /\ ip' = [ip EXCEPT ![Main] = @ + 1] /\ Stmt(Main).op # "join"
      BY <1>0, <1>10, <2>3 DEF JoinBack, Goto, NextStmt
    <3> QED BY <1>3, <2>1, <3>1
  <2> QED BY <2>2, <2>3
<1>11. CASE JoinedStore(Main)
  <2>1. /\ ip'[Main] = ip[Main] + 1 /\ \A w \in Workers : ip'[w] = ip[w]
        /\ joined_count' = joined_count + 1 /\ pc'[Main] = "run" /\ pc[Main] = "j_store"
    BY <1>0, <1>11 DEF JoinedStore, NextStmt, Goto, Joining
  <2>2. ip[Main] \in DOMAIN Script[MainLabel] /\ Stmt(Main).op = "join"
    BY <2>1 DEF Returns
  <2>3. /\ MainReturned(ip'[Main]) = MainReturned(ip[Main]) \cup {<<Main, ip[Main]>>}
        /\ <<Main, ip[Main]>> \notin MainReturned(ip[Main])
    BY <1>0, <1>1, <2>1, <2>2, OneMore
  <2>4. IsFiniteSet(MainReturned(ip'[Main]))
        /\ Cardinality(MainReturned(ip'[Main])) = joined_count + 1
    BY <2>3, FS_AddElement DEF Returns
  <2> QED BY <2>1, <2>4 DEF Returns, Waiting
<1>12. CASE UNCHANGED vars
  BY <1>2, <1>12 DEF vars, counters, Returns, Waiting
<1>13. ~WakeAndExit(Main) /\ ~DoneLoad(Main) /\ ~DoneStore(Main)
  BY <1>0 DEF WakeAndExit, DoneLoad, DoneStore, RolesSeparate, WorkerLocations
<1> QED
  BY <1>4, <1>5, <1>6, <1>7, <1>8, <1>9, <1>10, <1>11, <1>12, <1>13 DEF Next, Step

(* In a fork-join program whose workers are fewer than half the rounds of a *)
(* join, each join that has returned had a completion of its own.           *)
THEOREM JoinsAreBacked ==
  ASSUME ForkJoin, EnoughRounds
  PROVE  Spec => []JoinsBacked
<1>1. Init => Joining /\ Returns
  <2> SUFFICES ASSUME Init PROVE Joining /\ Returns
    OBVIOUS
  <2>1. Joining
    BY ThreadsFinite, CountedFinite DEF Init, Joining
  <2>2. MainReturned(ip[Main]) = {}
    <3>1. ip[Main] = 1 /\ DOMAIN Script[MainLabel] \subseteq Nat \ {0}
      BY ThreadAssumption, ThreadsFinite DEF Init
    <3> QED BY <3>1 DEF MainReturned
  <2> QED BY <2>1, <2>2, ThreadsFinite, FS_EmptySet DEF Init, Returns, Waiting
<1>2. ForkJoinInv /\ Rounds /\ Joining /\ Returns /\ [Next]_vars => Joining' /\ Returns'
  BY JoiningStep, ReturnsStep
<1>3. ForkJoinInv /\ Joining /\ Returns => JoinsBacked
  <2> SUFFICES ASSUME ForkJoinInv, Joining, Returns PROVE JoinsBacked
    OBVIOUS
  <2>1. Cardinality(JoinsReturned) = joined_count
    BY ReturnedAreMains DEF Returns, ForkJoinInv
  <2> QED BY <2>1, CountedFinite DEF Joining, JoinsBacked, ForkJoinInv, TypeOK
<1> QED BY <1>1, <1>2, <1>3, RoundsInvariant, ForkJoinInvariant, PTL DEF Spec
=============================================================================
