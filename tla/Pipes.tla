------------------------------- MODULE Pipes --------------------------------
(***************************************************************************)
(* The pipe programs of lab 2: two children write N bytes each into one    *)
(* pipe, the parent waits for both, reads the pipe and counts.             *)
(*   2lab/2/2-1.c  "locked": the children write under lockf on fd[1];      *)
(*   2lab/2/2-2.c  "free":   the same without the lock.                    *)
(*                                                                         *)
(* The bytes '1' and '2' are the numbers of the children.  stream is every *)
(* byte ever written; the pipe holds those the parent has not read yet.    *)
(***************************************************************************)
EXTENDS Integers, Sequences, FiniteSets

CONSTANTS
  N,         \* bytes each child writes (100 in the code)
  Capacity   \* bytes the pipe holds (65536, set by the kernel)

\* What the order of the parent, wait first and read then, relies on.
ASSUME SizeAssumption == N \in Nat \ {0} /\ Capacity \in Nat /\ Capacity >= 2 * N

VARIABLES
  program,
  pc,        \* program point of the parent and of both children
  written,   \* i of the loop of a child
  stream,
  InPipe,    \* what the parent has read
  locker     \* the child that holds the record lock on the pipe, or 0

vars == <<program, pc, written, stream, InPipe, locker>>

Parent   == 0
Children == {1, 2}
Gone     == {"none", "end", "killed"}

Init ==
  /\ program \in {"locked", "free"}
  /\ pc = [p \in Children \cup {Parent} |-> IF p = Parent THEN "fork1" ELSE "none"]
  /\ written = [c \in Children |-> 0]
  /\ stream = <<>> /\ InPipe = <<>>
  /\ locker = 0

Held == Len(stream) - Len(InPipe)

\* The processes that hold fd[0]: a child until it closes it, the parent to its end.
Readers == {p \in Children : pc[p] = "close"} \cup
           {p \in {Parent} : pc[p] \notin {"end", "failed"}}

\* The processes that hold fd[1]: the parent until it closes it, a child to its end.
Writers == {p \in Children : pc[p] \notin Gone} \cup
           {p \in {Parent} : pc[p] \in {"fork1", "fork2", "close"}}

---------------------------------------------------------------------------
(* The parent.                                                             *)

\* The fork of child c; when it fails the parent returns at once.
Fork(l, c, next) ==
  /\ pc[Parent] = l
  /\ \/ pc' = [pc EXCEPT ![Parent] = next, ![c] = "close"]
     \/ pc' = [pc EXCEPT ![Parent] = "failed"]
  /\ UNCHANGED <<program, written, stream, InPipe, locker>>

\* close(fd[1]).
CloseWriteEnd ==
  /\ pc[Parent] = "close"
  /\ pc' = [pc EXCEPT ![Parent] = "wait1"]
  /\ UNCHANGED <<program, written, stream, InPipe, locker>>

\* waitpid(pid1), then wait(0): the second child is the only one left.
WaitFirst ==
  /\ pc[Parent] = "wait1" /\ pc[1] \in Gone
  /\ pc' = [pc EXCEPT ![Parent] = "wait2"]
  /\ UNCHANGED <<program, written, stream, InPipe, locker>>

WaitSecond ==
  /\ pc[Parent] = "wait2" /\ pc[2] \in Gone
  /\ pc' = [pc EXCEPT ![Parent] = "read"]
  /\ UNCHANGED <<program, written, stream, InPipe, locker>>

\* Faulty: a place is kept for the terminating zero.
ReadSizeLess(room) == room - 1

\* The third argument of read.
ReadSize(room) == room

\* read(fd[0], ...): whatever is there, at most what is asked for; nothing
\* once the pipe is empty and no writer is left, and the loop ends.
ReadPipe ==
  /\ pc[Parent] = "read"
  /\ Held > 0 \/ Writers = {}
  /\ LET size == ReadSize(2 * N - Len(InPipe))
         r    == IF Held < size THEN Held ELSE size
     IN  /\ InPipe' = InPipe \o SubSeq(stream, Len(InPipe) + 1, Len(InPipe) + r)
         /\ pc' = [pc EXCEPT ![Parent] = IF r > 0 /\ Len(InPipe) + r < 2 * N THEN "read" ELSE "count"]
  /\ UNCHANGED <<program, written, stream, locker>>

\* count1 and count2.
Count(c) == Cardinality({i \in DOMAIN InPipe : InPipe[i] = c})

Report ==
  /\ pc[Parent] = "count"
  /\ pc' = [pc EXCEPT ![Parent] = "end"]
  /\ UNCHANGED <<program, written, stream, InPipe, locker>>

---------------------------------------------------------------------------
(* The children.                                                           *)

\* close(fd[0]).
CloseReadEnd(c) ==
  /\ pc[c] = "close"
  /\ pc' = [pc EXCEPT ![c] = IF program = "locked" THEN "lock" ELSE "write"]
  /\ UNCHANGED <<program, written, stream, InPipe, locker>>

\* Faulty: the lock is taken whoever holds it.
LockAnyway(c) == TRUE

\* No other process holds a record lock on the pipe.
LockFree(c) == locker \in {0, c}

\* lockf(fd[1], F_LOCK, 0).
Lockf(c) ==
  /\ pc[c] = "lock" /\ LockFree(c)
  /\ locker' = c
  /\ pc' = [pc EXCEPT ![c] = "write"]
  /\ UNCHANGED <<program, written, stream, InPipe>>

\* Faulty: one byte too many.
WritesAgainLate(c) == written[c] <= N

WritesAgain(c) == written[c] < N

\* write(fd[1], &c, 1): waits while the pipe is full.
WriteByte(c) ==
  /\ pc[c] = "write" /\ WritesAgain(c)
  /\ Readers # {} /\ Held < Capacity
  /\ stream' = Append(stream, c)
  /\ written' = [written EXCEPT ![c] = @ + 1]
  /\ UNCHANGED <<program, pc, InPipe, locker>>

\* Without a reader the write raises SIGPIPE, which ends the child; the
\* kernel drops its lock.
BrokenPipe(c) ==
  /\ pc[c] = "write" /\ WritesAgain(c)
  /\ Readers = {}
  /\ pc' = [pc EXCEPT ![c] = "killed"]
  /\ locker' = IF locker = c THEN 0 ELSE locker
  /\ UNCHANGED <<program, written, stream, InPipe>>

\* The loop is over: lockf(fd[1], F_ULOCK, 0) in 2-1.c, and return.
Finish(c) ==
  /\ pc[c] = "write" /\ ~WritesAgain(c)
  /\ pc' = [pc EXCEPT ![c] = "end"]
  /\ locker' = IF locker = c THEN 0 ELSE locker
  /\ UNCHANGED <<program, written, stream, InPipe>>

---------------------------------------------------------------------------

AllOver == pc[Parent] \in {"end", "failed"} /\ \A c \in Children : pc[c] \in Gone

Over == AllOver /\ UNCHANGED vars

ParentStep ==
  \/ Fork("fork1", 1, "fork2") \/ Fork("fork2", 2, "close")
  \/ CloseWriteEnd \/ WaitFirst \/ WaitSecond \/ ReadPipe \/ Report

ChildStep(c) ==
  CloseReadEnd(c) \/ Lockf(c) \/ WriteByte(c) \/ BrokenPipe(c) \/ Finish(c)

Next == ParentStep \/ (\E c \in Children : ChildStep(c)) \/ Over

Spec == Init /\ [][Next]_vars

\* Every process runs on; the kernel gives a lock or a free byte of the pipe
\* to a waiter that nothing keeps from it.
FairSpec == Spec /\ WF_vars(ParentStep) /\ \A c \in Children : WF_vars(ChildStep(c))

---------------------------------------------------------------------------
(* Properties.                                                             *)

\* Every variable has its type, and the pipe holds at most its capacity.
TypeOK ==
  /\ program \in {"locked", "free"}
  /\ pc \in [Children \cup {Parent} ->
        {"fork1", "fork2", "close", "wait1", "wait2", "read", "count", "failed",
         "none", "lock", "write", "end", "killed"}]
  /\ written \in [Children -> 0..N]
  /\ stream \in Seq(Children) /\ InPipe \in Seq(Children)
  /\ Held \in 0..Capacity
  /\ locker \in {0} \cup Children

\* lockf keeps the bytes of 2-1.c together: the bytes of one child all come
\* before the bytes of the other, also when the parent has gone.
Contiguous ==
  program = "locked" =>
    \A i, j, k \in 1..Len(stream) :
      i < j /\ j < k /\ stream[i] = stream[k] => stream[j] = stream[i]

\* With or without the lock no byte is lost, invented or read twice: the
\* parent that comes to its printf has counted N bytes of each child.  A child
\* is ended by SIGPIPE only when the parent returned because a fork failed.
CountsExact ==
  /\ pc[Parent] = "end" => Len(InPipe) = 2 * N /\ \A c \in Children : Count(c) = N
  /\ (\E c \in Children : pc[c] = "killed") => pc[Parent] = "failed"

\* Every process ends: the parent that reads only after its children have
\* ended never leaves one waiting for room in the pipe.
Terminates == <>AllOver
=============================================================================
