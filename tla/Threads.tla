------------------------------ MODULE Threads -------------------------------
(***************************************************************************)
(* The thread programs of lab 1.  Every main creates two threads, joins    *)
(* them and ends; the workers differ:                                      *)
(*   1lab/2/2-1.c  "race": add to a shared counter N times;                *)
(*   1lab/2/2-2.c  "sem":  the same, each time under a semaphore;          *)
(*   1lab/3/3-1.c  "spin": the same, each time under a spin lock;          *)
(*   1lab/2/2-3.c  "fork": fork a child that execs, and wait for it;       *)
(*   1lab/2/2-4.c  "exec": exec in the thread itself.                      *)
(*                                                                         *)
(* Granularity.  An addition is a load and a store.  The race of 2-1.c is  *)
(* undefined behaviour: a build adds 1 each time, or N at once when the    *)
(* compiler turns the loop into one addition (chunk).                      *)
(***************************************************************************)
EXTENDS Integers

CONSTANT N  \* additions of each thread (100000, 100 and 5000 in the code)

ASSUME NAssumption == N \in Nat \ {0}

VARIABLES
  program, chunk,
  pc,             \* program point of main and of both threads
  counter,        \* counter, or shared_value
  local, done,    \* the value a thread has loaded; what it has added so far
  sem, flag,      \* the value of the semaphore; lock->flag
  freed,          \* how often free() was called on id1 and on id2
  child,          \* the process a thread has forked
  process         \* "run", or how the process ended

counting == <<counter, local, done, sem, flag>>
vars == <<program, chunk, pc, counting, freed, child, process>>

Main     == 0
Workers  == {1, 2}
Counting == {"race", "sem", "spin"}
Locked   == {"sem", "spin"}

Goto(t, l) == process = "run" /\ pc' = [pc EXCEPT ![t] = l]

Init ==
  /\ program \in Counting \cup {"fork", "exec"}
  /\ chunk \in (IF program = "race" THEN {1, N} ELSE {1})
  /\ pc = [t \in Workers \cup {Main} |-> IF t = Main THEN "create1" ELSE "none"]
  /\ counter = 0 /\ local = [t \in Workers |-> 0] /\ done = [t \in Workers |-> 0]
  /\ sem = 1 /\ flag = 0
  /\ freed = [t \in Workers |-> 0]
  /\ child = [t \in Workers |-> "none"]
  /\ process = "run"

---------------------------------------------------------------------------
(* The workers of 2-1.c, 2-2.c and 3-1.c.                                  *)

\* Where the loop goes on, and where it goes to after an addition.
LoopHead   == IF program \in Locked THEN "lock" ELSE "load"
AfterStore == IF program \in Locked THEN "unlock" ELSE "loop"

\* Faulty: one addition too many.
LoopsAgainLate(t) == done[t] <= N

LoopsAgain(t) == done[t] < N

Loop(t) ==
  /\ pc[t] = "loop"
  /\ Goto(t, IF LoopsAgain(t) THEN LoopHead ELSE "end")
  /\ UNCHANGED <<program, chunk, counting, freed, child, process>>

\* sem_wait; it fails only when a handler interrupts it, and there is none.
SemWait(t) ==
  /\ program = "sem" /\ pc[t] = "lock" /\ sem > 0
  /\ sem' = sem - 1
  /\ Goto(t, "load")
  /\ UNCHANGED <<program, chunk, counter, local, done, flag, freed, child, process>>

\* Faulty: a test followed by a set; the set does not look at the flag again.
TestThenSet(t) == TRUE

\* The exchange of __sync_lock_test_and_set found 0.
FoundFree(t) == flag = 0

\* spinlock_lock: the exchange that ends the loop.  The exchanges before it
\* store the 1 that is there already.
SpinlockLock(t) ==
  /\ program = "spin" /\ pc[t] = "lock" /\ FoundFree(t)
  /\ flag' = 1
  /\ Goto(t, "load")
  /\ UNCHANGED <<program, chunk, counter, local, done, sem, freed, child, process>>

Load(t) ==
  /\ pc[t] = "load"
  /\ local' = [local EXCEPT ![t] = counter]
  /\ Goto(t, "store")
  /\ UNCHANGED <<program, chunk, counter, done, sem, flag, freed, child, process>>

Store(t) ==
  /\ pc[t] = "store"
  /\ counter' = local[t] + chunk
  /\ done' = [done EXCEPT ![t] = @ + chunk]
  /\ Goto(t, AfterStore)
  /\ UNCHANGED <<program, chunk, local, sem, flag, freed, child, process>>

\* Faulty: the lock is not released.
FlagKept(v) == v

\* __sync_lock_release.
FlagReleased(v) == 0

\* sem_post, or spinlock_unlock.
Unlock(t) ==
  /\ pc[t] = "unlock"
  /\ \/ program = "sem" /\ sem' = sem + 1 /\ UNCHANGED flag
     \/ program = "spin" /\ flag' = FlagReleased(flag) /\ UNCHANGED sem
  /\ Goto(t, "loop")
  /\ UNCHANGED <<program, chunk, counter, local, done, freed, child, process>>

---------------------------------------------------------------------------
(* The workers of 2-3.c and 2-4.c.                                         *)

\* free(arg): the worker owns its id.
FreeArg(t) ==
  /\ pc[t] = "free"
  /\ freed' = [freed EXCEPT ![t] = @ + 1]
  /\ Goto(t, program)
  /\ UNCHANGED <<program, chunk, counting, child, process>>

\* fork(); a failure ends the thread.
ForkChild(t) ==
  /\ program = "fork" /\ pc[t] = "fork"
  /\ \/ child' = [child EXCEPT ![t] = "running"] /\ Goto(t, "waitpid")
     \/ Goto(t, "end") /\ UNCHANGED child
  /\ UNCHANGED <<program, chunk, counting, freed, process>>

\* The child execs system_call, which ends, or fails to and calls _exit.
ChildEnds(t) ==
  /\ child[t] = "running"
  /\ child' = [child EXCEPT ![t] = "zombie"]
  /\ UNCHANGED <<program, chunk, pc, counting, freed, process>>

\* Faulty: waitpid does not block.
ReapNoHang(t) == IF child[t] = "zombie" THEN child' = [child EXCEPT ![t] = "reaped"]
                                       ELSE UNCHANGED child

\* What waitpid(cpid) does to the thread's child, once it has ended.
Reap(t) == child[t] = "zombie" /\ child' = [child EXCEPT ![t] = "reaped"]

WaitPid(t) ==
  /\ pc[t] = "waitpid"
  /\ Reap(t)
  /\ Goto(t, "end")
  /\ UNCHANGED <<program, chunk, counting, freed, process>>

\* execve in a thread replaces the whole process; when it fails, _exit ends it.
ExecThread(t) ==
  /\ program = "exec" /\ pc[t] = "exec"
  /\ process' \in {"replaced", "failed"}
  /\ Goto(t, "end")
  /\ UNCHANGED <<program, chunk, counting, freed, child>>

---------------------------------------------------------------------------
(* main.                                                                   *)

\* malloc of the ids fails, before anything is created.
MallocFails ==
  /\ program \notin Counting /\ pc[Main] = "create1" /\ process = "run"
  /\ process' = "ended"
  /\ UNCHANGED <<program, chunk, pc, counting, freed, child>>

Create(l, t, next) ==
  /\ pc[Main] = l /\ process = "run"
  /\ pc' = [pc EXCEPT ![Main] = next, ![t] = IF program \in Counting THEN "loop" ELSE "free"]
  /\ UNCHANGED <<program, chunk, counting, freed, child, process>>

\* The ids, freed by main: free() of freed memory may end the process.
FreeIds ==
  /\ freed' = [t \in Workers |-> freed[t] + 1]
  /\ process' \in {"ended"} \cup (IF \E t \in Workers : freed[t] > 0 THEN {"aborted"} ELSE {})

\* pthread_create fails: main returns, and with it every thread.  2-3.c and
\* 2-4.c join the first thread before they free both ids.
CreateFails ==
  /\ process = "run"
  /\ \/ pc[Main] = "create1"
     \/ pc[Main] = "create2" /\ (program \in Counting \/ pc[1] = "end")
  /\ IF program \in Counting THEN process' = "ended" /\ UNCHANGED freed ELSE FreeIds
  /\ UNCHANGED <<program, chunk, pc, counting, child>>

Join(l, t, next) ==
  /\ pc[Main] = l /\ pc[t] = "end"
  /\ Goto(Main, next)
  /\ UNCHANGED <<program, chunk, counting, freed, child, process>>

Return ==
  /\ pc[Main] = "return" /\ process = "run"
  /\ IF program \in Counting THEN process' = "ended" /\ UNCHANGED freed ELSE FreeIds
  /\ UNCHANGED <<program, chunk, pc, counting, child>>

Over == process # "run" /\ (\A t \in Workers : child[t] # "running") /\ UNCHANGED vars

---------------------------------------------------------------------------

MainStep ==
  \/ MallocFails
  \/ Create("create1", 1, "create2") \/ Create("create2", 2, "join1")
  \/ CreateFails
  \/ Join("join1", 1, "join2") \/ Join("join2", 2, "return")
  \/ Return

Worker(t) ==
  \/ Loop(t) \/ SemWait(t) \/ SpinlockLock(t) \/ Load(t) \/ Store(t) \/ Unlock(t)
  \/ FreeArg(t) \/ ForkChild(t) \/ WaitPid(t) \/ ExecThread(t)

Next == MainStep \/ (\E t \in Workers : Worker(t) \/ ChildEnds(t)) \/ Over

Spec == Init /\ [][Next]_vars

\* Main, every thread and every child run on.  Nothing is assumed of the order
\* in which a semaphore or a spin lock is given to those who wait.
FairSpec == Spec /\ WF_vars(MainStep)
                 /\ \A t \in Workers : WF_vars(Worker(t)) /\ WF_vars(ChildEnds(t))

---------------------------------------------------------------------------
(* Properties.                                                             *)

MainPcs   == {"create1", "create2", "join1", "join2", "return"}
WorkerPcs == {"none", "loop", "lock", "load", "store", "unlock", "free", "fork", "exec",
              "waitpid", "end"}

\* Every variable has its type; the semaphore is binary.
TypeOK ==
  /\ program \in Counting \cup {"fork", "exec"} /\ chunk \in {1, N}
  /\ pc \in [Workers \cup {Main} -> MainPcs \cup WorkerPcs]
  /\ pc[Main] \in MainPcs /\ \A t \in Workers : pc[t] \in WorkerPcs
  /\ counter \in Nat /\ local \in [Workers -> Nat] /\ done \in [Workers -> Nat]
  /\ sem \in {0, 1} /\ flag \in {0, 1}
  /\ freed \in [Workers -> 0..2]
  /\ child \in [Workers -> {"none", "running", "zombie", "reaped"}]
  /\ process \in {"run", "ended", "replaced", "failed", "aborted"}

\* The program points between lock and unlock.
Section == {"load", "store", "unlock"}

\* The semaphore of 2-2.c and the spin lock of 3-1.c keep the threads out of
\* each other's addition, and are held exactly while one is in it.
MutualExclusion ==
  /\ program \in Locked => ~(pc[1] \in Section /\ pc[2] \in Section)
  /\ program = "sem"  => (sem = 0 <=> \E t \in Workers : pc[t] \in Section)
  /\ program = "spin" => (flag = 1 <=> \E t \in Workers : pc[t] \in Section)

\* No addition under a lock is lost: the counter is at all times what both
\* threads have added, and 2 * N when both have ended.
ExactCount ==
  program \in Locked =>
    /\ counter = done[1] + done[2]
    /\ pc[1] = "end" /\ pc[2] = "end" => counter = 2 * N

\* How much the race of 2-1.c can lose.  The result is at most 2 * N and at
\* least 2 (N when the loop is one addition), however the threads interleave;
\* N alone is no lower bound.
RaceBounds ==
  program = "race" /\ pc[1] = "end" /\ pc[2] = "end" =>
    /\ counter <= 2 * N
    /\ counter >= (IF chunk = N THEN N ELSE 2)

\* What main leaves behind.  No process that a thread of 2-3.c forked: each
\* thread waits for its own child.  And no double free in 2-4.c, although both
\* the worker and main call free(): execve or _exit always comes between.
\* (2-3.c, whose workers return, frees both ids twice.)
CleanEnd ==
  /\ process \in {"ended", "aborted"} => \A t \in Workers : child[t] \in {"none", "reaped"}
  /\ program # "fork" => \A t \in Workers : freed[t] <= 1

\* The process ends.  Weak fairness is enough for both locks: the loops are
\* bounded, so the thread that always gets the lock first gets out of the way.
Terminates == <>(process # "run")
=============================================================================
