--------------------------- MODULE ThreadsProofs ----------------------------
(***************************************************************************)
(* Theorems about Threads, for every number N of additions.                *)
(***************************************************************************)
EXTENDS Threads, TLAPS

\* Which program points belong to which programs, and which threads exist.
Shape ==
  /\ \A t \in Workers :
       /\ pc[t] \in {"free", "fork", "exec", "waitpid"} => program \in {"fork", "exec"}
       /\ pc[t] \in {"fork", "waitpid"} => program = "fork"
       /\ pc[t] \in {"loop", "lock", "load", "store", "unlock"} => program \in Counting
       /\ pc[t] \in {"lock", "unlock"} => program \in Locked
  /\ pc[Main] = "create1" => pc[1] = "none" /\ pc[2] = "none"
  /\ pc[Main] = "create2" => pc[2] = "none"

\* The counter at every point of the loop: what a thread has loaded is still
\* the counter when it stores, and no thread adds more than N times.
Sums ==
  program \in Locked =>
    /\ chunk = 1
    /\ counter = done[1] + done[2]
    /\ \A t \in Workers :
         /\ pc[t] = "store" => local[t] = counter
         /\ done[t] <= N
         /\ pc[t] \in {"lock", "load", "store"} => done[t] < N
         /\ pc[t] = "end" => done[t] = N

\* Who has freed an id while the process runs.  The workers of 2-4.c never
\* end without the process, so main does not get past its first join.
Frees ==
  /\ process = "run" => \A t \in Workers :
       /\ freed[t] <= 1
       /\ pc[t] \in {"none", "free"} => freed[t] = 0
  /\ program \in Counting => \A t \in Workers : freed[t] = 0
  /\ program = "exec" /\ process = "run" =>
       /\ pc[1] # "end" /\ pc[2] # "end"
       /\ pc[Main] \notin {"join2", "return"}

\* No id is freed twice but in 2-3.c.
FreedOnce == program # "fork" => \A t \in Workers : freed[t] <= 1

IInv == TypeOK /\ Shape /\ MutualExclusion /\ Sums /\ Frees /\ FreedOnce

---------------------------------------------------------------------------

\* The initial states satisfy the invariant.
LEMMA InitIInv == Init => IInv
  BY NAssumption DEF Init, IInv, TypeOK, Shape, MutualExclusion, Sums, Frees, FreedOnce, Section,
     Workers, Main, Counting, Locked, MainPcs, WorkerPcs

\* Taking and leaving the locks, and the test of the loop.
LEMMA LockSteps ==
  ASSUME IInv, NEW t \in Workers, Loop(t) \/ SemWait(t) \/ SpinlockLock(t) \/ Unlock(t)
  PROVE  IInv'
  <1> USE NAssumption DEF IInv, TypeOK, Shape, MutualExclusion, Sums, Frees, FreedOnce, Section,
       Workers, Main, Counting, Locked, MainPcs, WorkerPcs, Goto, counting
  <1>1. CASE Loop(t)
    BY <1>1 DEF Loop, LoopsAgain, LoopHead
  <1>2. CASE SemWait(t)
    BY <1>2 DEF SemWait
  <1>3. CASE SpinlockLock(t)
    BY <1>3 DEF SpinlockLock, FoundFree
  <1>4. CASE Unlock(t)
    BY <1>4 DEF Unlock, FlagReleased
  <1> QED BY <1>1, <1>2, <1>3, <1>4

\* The two halves of an addition.
LEMMA AddSteps ==
  ASSUME IInv, NEW t \in Workers, Load(t) \/ Store(t)
  PROVE  IInv'
  <1> USE NAssumption DEF IInv, TypeOK, Shape, MutualExclusion, Sums, Frees, FreedOnce, Section,
       Workers, Main, Counting, Locked, MainPcs, WorkerPcs, Goto, counting
  <1>1. CASE Load(t)
    BY <1>1 DEF Load
  <1>2. CASE Store(t)
    BY <1>2 DEF Store, AfterStore
  <1> QED BY <1>1, <1>2

\* The workers that fork or exec, and their children.
LEMMA ProcessSteps ==
  ASSUME IInv, NEW t \in Workers,
         FreeArg(t) \/ ForkChild(t) \/ WaitPid(t) \/ ExecThread(t) \/ ChildEnds(t)
  PROVE  IInv'
  <1> USE NAssumption DEF IInv, TypeOK, Shape, MutualExclusion, Sums, Frees, FreedOnce, Section,
       Workers, Main, Counting, Locked, MainPcs, WorkerPcs, Goto, counting
  <1>1. CASE FreeArg(t)
    BY <1>1 DEF FreeArg
  <1>2. CASE ForkChild(t)
    BY <1>2 DEF ForkChild
  <1>3. CASE WaitPid(t)
    BY <1>3 DEF WaitPid, Reap
  <1>4. CASE ExecThread(t)
    BY <1>4 DEF ExecThread
  <1>5. CASE ChildEnds(t)
    BY <1>5 DEF ChildEnds
  <1> QED BY <1>1, <1>2, <1>3, <1>4, <1>5

\* The steps of main.
LEMMA MainSteps ==
  ASSUME IInv, MainStep
  PROVE  IInv'
  <1> USE NAssumption DEF IInv, TypeOK, Shape, MutualExclusion, Sums, Frees, FreedOnce, Section,
       Workers, Main, Counting, Locked, MainPcs, WorkerPcs, Goto, counting
  <1>1. CASE MallocFails
    BY <1>1 DEF MallocFails
  <1>2. CASE Create("create1", 1, "create2")
    BY <1>2 DEF Create
  <1>3. CASE Create("create2", 2, "join1")
    BY <1>3 DEF Create
  <1>4. CASE CreateFails
    BY <1>4 DEF CreateFails, FreeIds
  <1>5. CASE Join("join1", 1, "join2")
    BY <1>5 DEF Join
  <1>6. CASE Join("join2", 2, "return")
    BY <1>6 DEF Join
  <1>7. CASE Return
    BY <1>7 DEF Return, FreeIds
  <1> QED BY <1>1, <1>2, <1>3, <1>4, <1>5, <1>6, <1>7 DEF MainStep

\* Every step preserves the invariant.
LEMMA NextIInv == IInv /\ [Next]_vars => IInv'
  <1> SUFFICES ASSUME IInv, [Next]_vars PROVE IInv'
    OBVIOUS
  <1>1. CASE MainStep
    BY <1>1, MainSteps
  <1>2. ASSUME NEW t \in Workers, Worker(t) \/ ChildEnds(t) PROVE IInv'
    BY <1>2, LockSteps, AddSteps, ProcessSteps DEF Worker
  <1>3. CASE UNCHANGED vars
    BY <1>3 DEF IInv, TypeOK, Shape, MutualExclusion, Sums, Frees, FreedOnce, vars, counting
  <1> QED BY <1>1, <1>2, <1>3 DEF Next, Over

\* The inductive invariant of all five programs.
THEOREM Invariant == Spec => []IInv
  BY InitIInv, NextIInv, PTL DEF Spec

\* Every variable keeps its type; the semaphore is binary.
THEOREM TypeCorrect == Spec => []TypeOK
  <1>1. IInv => TypeOK
    BY DEF IInv
  <1> QED BY <1>1, Invariant, PTL

\* sem_wait and sem_post of 2-2.c, and the spin lock of 3-1.c, keep the
\* threads apart and are held exactly while one adds.
THEOREM LocksExclude == Spec => []MutualExclusion
  <1>1. IInv => MutualExclusion
    BY DEF IInv
  <1> QED BY <1>1, Invariant, PTL

\* 2-2.c and 3-1.c lose no addition and end with 2 * N, for every N.
THEOREM CountIsExact == Spec => []ExactCount
  <1>1. IInv => ExactCount
    BY NAssumption DEF IInv, Sums, ExactCount, TypeOK, Workers
  <1> QED BY <1>1, Invariant, PTL

---------------------------------------------------------------------------
(* The children of 2-3.c, and the race of 2-1.c.                           *)

\* A child that is not reaped has its thread in waitpid, and main joins the
\* threads before it returns.
Kids ==
  /\ \A t \in Workers : child[t] \in {"running", "zombie"} => pc[t] = "waitpid"
  /\ pc[Main] \in {"join2", "return"} => pc[1] = "end"
  /\ pc[Main] = "return" => pc[2] = "end"
  /\ process \in {"ended", "aborted"} => \A t \in Workers : child[t] \in {"none", "reaped"}

\* The counter never runs ahead of the additions made.  It never falls back
\* below one addition once there was one, so a thread that adds a second time
\* has loaded at least 1; when both have added twice, the last store left 2.
Race ==
  program = "race" =>
    /\ counter <= done[1] + done[2]
    /\ (\E t \in Workers : done[t] > 0) => counter >= chunk
    /\ done[1] >= 2 /\ done[2] >= 2 => counter >= 2
    /\ \A t \in Workers :
         /\ done[t] <= N /\ (chunk = N => done[t] \in {0, N})
         /\ pc[t] \in {"load", "store"} => done[t] < N
         /\ pc[t] = "end" => done[t] = N
         /\ pc[t] = "store" => local[t] <= done[1] + done[2]
         /\ pc[t] = "store" /\ done[t] >= 1 => local[t] >= 1

\* Threads end after their child, and main after the threads.
LEMMA KidsStep == IInv /\ Kids /\ [Next]_vars => Kids'
  <1> SUFFICES ASSUME IInv, Kids, [Next]_vars PROVE Kids'
    OBVIOUS
  <1> USE DEF Kids, IInv, TypeOK, Shape, Workers, Main, Counting, Locked, MainPcs, WorkerPcs, Goto,
              counting
  <1>1. CASE MallocFails \/ CreateFails \/ Return
    BY <1>1 DEF MallocFails, CreateFails, Return, FreeIds
  <1>2. CASE Create("create1", 1, "create2") \/ Create("create2", 2, "join1")
    BY <1>2 DEF Create
  <1>3. CASE Join("join1", 1, "join2") \/ Join("join2", 2, "return")
    BY <1>3 DEF Join
  <1>4. ASSUME NEW t \in Workers, Loop(t) \/ SemWait(t) \/ SpinlockLock(t) \/ Unlock(t)
        PROVE  Kids'
    BY <1>4 DEF Loop, LoopHead, SemWait, SpinlockLock, Unlock
  <1>5. ASSUME NEW t \in Workers, Load(t) \/ Store(t) PROVE Kids'
    BY <1>5 DEF Load, Store, AfterStore
  <1>6. ASSUME NEW t \in Workers, FreeArg(t) \/ ForkChild(t) \/ ExecThread(t) PROVE Kids'
    BY <1>6 DEF FreeArg, ForkChild, ExecThread
  <1>7. ASSUME NEW t \in Workers, WaitPid(t) \/ ChildEnds(t) PROVE Kids'
    BY <1>7 DEF WaitPid, Reap, ChildEnds
  <1>8. CASE UNCHANGED vars
    BY <1>8 DEF vars
  <1> QED
    BY <1>1, <1>2, <1>3, <1>4, <1>5, <1>6, <1>7, <1>8 DEF Next, MainStep, Worker, Over

\* The race through every step; only the load, the store and the test of the
\* loop matter.
LEMMA RaceStep == IInv /\ Race /\ [Next]_vars => Race'
  <1> SUFFICES ASSUME IInv, Race, [Next]_vars PROVE Race'
    OBVIOUS
  <1>0. /\ N \in Nat /\ N >= 1 /\ chunk \in {1, N}
        /\ counter \in Nat /\ local \in [Workers -> Nat] /\ done \in [Workers -> Nat]
        /\ pc \in [Workers \cup {Main} -> MainPcs \cup WorkerPcs]
    BY NAssumption DEF IInv, TypeOK
  <1> USE <1>0 DEF Race, Workers, Main, Goto, counting
  <1>1. CASE MallocFails \/ CreateFails \/ Return
    BY <1>1 DEF MallocFails, CreateFails, Return
  <1>2. CASE Create("create1", 1, "create2") \/ Create("create2", 2, "join1")
    BY <1>2 DEF Create, Counting
  <1>3. CASE Join("join1", 1, "join2") \/ Join("join2", 2, "return")
    BY <1>3 DEF Join
  <1>4. ASSUME NEW t \in Workers, Loop(t) PROVE Race'
    BY <1>4 DEF Loop, LoopsAgain, LoopHead, Locked
  <1>5. ASSUME NEW t \in Workers, SemWait(t) \/ SpinlockLock(t) \/ Unlock(t) PROVE Race'
    BY <1>5 DEF SemWait, SpinlockLock, Unlock
  <1>6. ASSUME NEW t \in Workers, Load(t) PROVE Race'
    BY <1>6 DEF Load
  <1>7. ASSUME NEW t \in Workers, Store(t) PROVE Race'
    BY <1>7 DEF Store, AfterStore, Locked
  <1>8. ASSUME NEW t \in Workers, FreeArg(t) \/ ForkChild(t) \/ ExecThread(t) PROVE Race'
    BY <1>8 DEF FreeArg, ForkChild, ExecThread, IInv, Shape, Counting
  <1>9. ASSUME NEW t \in Workers, WaitPid(t) \/ ChildEnds(t) PROVE Race'
    BY <1>9 DEF WaitPid, ChildEnds, IInv, Shape, Counting
  <1>10. CASE UNCHANGED vars
    BY <1>10 DEF vars
  <1> QED
    BY <1>1, <1>2, <1>3, <1>4, <1>5, <1>6, <1>7, <1>8, <1>9, <1>10 DEF Next, MainStep, Worker, Over

\* main leaves no child behind, and no program but 2-3.c frees an id twice.
THEOREM EndsClean == Spec => []CleanEnd
  <1>1. Init => Kids
    BY DEF Init, Kids, Workers, Main, Counting
  <1>2. IInv /\ Kids => CleanEnd
    BY DEF IInv, Kids, FreedOnce, CleanEnd
  <1> QED BY <1>1, <1>2, KidsStep, Invariant, PTL DEF Spec

\* The race of 2-1.c ends between 2 and 2 * N, and not below N when the loop
\* is one addition, for every N.
THEOREM RaceIsBounded == Spec => []RaceBounds
  <1>1. Init => Race
    BY NAssumption DEF Init, Race, Workers, Main, Counting
  <1>2. IInv /\ Race => RaceBounds
    BY NAssumption DEF IInv, TypeOK, Race, RaceBounds, Workers
  <1> QED BY <1>1, <1>2, RaceStep, Invariant, PTL DEF Spec
=============================================================================
