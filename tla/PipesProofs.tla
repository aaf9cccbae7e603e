---------------------------- MODULE PipesProofs -----------------------------
(***************************************************************************)
(* Theorems about Pipes, for every number N of bytes and every capacity of *)
(* the pipe that holds the bytes of both children.                         *)
(***************************************************************************)
EXTENDS Pipes, FiniteSetTheorems, SequenceTheorems, TLAPS

ParentPcs == {"fork1", "fork2", "close", "wait1", "wait2", "read", "count", "end", "failed"}
ChildPcs  == {"none", "close", "lock", "write", "end", "killed"}

\* Which children there are at each point of the parent, and how they end: by
\* SIGPIPE only when the parent has failed, otherwise with all bytes written.
Shape ==
  /\ pc[Parent] \in ParentPcs /\ \A c \in Children : pc[c] \in ChildPcs
  /\ pc[Parent] = "fork1" => pc[1] = "none"
  /\ pc[Parent] \in {"fork1", "fork2"} => pc[2] = "none"
  /\ pc[Parent] \notin {"fork1", "failed"} => pc[1] # "none"
  /\ pc[Parent] \notin {"fork1", "fork2", "failed"} => pc[2] # "none"
  /\ pc[Parent] \in {"wait2", "read", "count", "end"} => pc[1] = "end"
  /\ pc[Parent] \in {"read", "count", "end"} => pc[2] = "end"
  /\ \A c \in Children : pc[c] = "killed" => pc[Parent] = "failed"
  /\ \A c \in Children : pc[c] = "end" => written[c] = N

\* The bytes of child c in the stream.
Positions(c) == {i \in 1..Len(stream) : stream[i] = c}

\* The stream holds what the children have written.  The parent reads it in
\* one piece: it has read nothing before, and everything after.
Bytes ==
  /\ Len(stream) = written[1] + written[2]
  /\ \A c \in Children : IsFiniteSet(Positions(c)) /\ Cardinality(Positions(c)) = written[c]
  /\ pc[Parent] \notin {"count", "end"} => InPipe = <<>>
  /\ pc[Parent] \in {"count", "end"} => InPipe = stream

\* In 2-1.c the lock is held from the first byte of a child to its last one,
\* and while it is held no byte of the other child follows.
Locking ==
  /\ program = "free" => locker = 0 /\ \A c \in Children : pc[c] # "lock"
  /\ program = "locked" => \A c \in Children :
       /\ locker = c <=> pc[c] = "write"
       /\ pc[c] \in {"none", "close", "lock"} => \A i \in 1..Len(stream) : stream[i] # c
       /\ pc[c] = "write" => \A i, j \in 1..Len(stream) : i < j /\ stream[i] = c => stream[j] = c

\* A child that has a byte to write finds room: no write ever waits.
RoomForAll == \A c \in Children : pc[c] = "write" /\ WritesAgain(c) => Held < Capacity

IInv == TypeOK /\ Shape /\ Bytes /\ Locking /\ Contiguous

---------------------------------------------------------------------------

\* The initial states satisfy the invariant.
LEMMA InitIInv == Init => IInv
  <1> SUFFICES ASSUME Init PROVE IInv
    OBVIOUS
  <1>1. stream = <<>> /\ InPipe = <<>> /\ Len(stream) = 0
    BY DEF Init
  <1>2. TypeOK
    BY <1>1, SizeAssumption DEF Init, TypeOK, Held, Children, Parent
  <1>3. Shape
    BY DEF Init, Shape, ParentPcs, ChildPcs, Children, Parent
  <1>4. ASSUME NEW c \in Children PROVE Positions(c) = {}
    BY <1>1 DEF Positions
  <1>5. Bytes
    BY <1>1, <1>4, FS_EmptySet DEF Init, Bytes, Children, Parent
  <1>6. Locking /\ Contiguous
    BY <1>1 DEF Init, Locking, Contiguous, Children, Parent
  <1> QED BY <1>2, <1>3, <1>5, <1>6 DEF IInv

\* The steps that neither read nor write a byte.
LEMMA QuietSteps ==
  ASSUME IInv, NEW c \in Children,
         \/ Fork("fork1", 1, "fork2") \/ Fork("fork2", 2, "close") \/ CloseWriteEnd
         \/ WaitFirst \/ WaitSecond \/ Report
         \/ CloseReadEnd(c) \/ Lockf(c) \/ BrokenPipe(c) \/ Finish(c)
  PROVE  IInv'
  <1>0. UNCHANGED <<program, written, stream, InPipe>>
    BY DEF Fork, CloseWriteEnd, WaitFirst, WaitSecond, Report, CloseReadEnd, Lockf, BrokenPipe, Finish
  <1>1. UNCHANGED Positions(1) /\ UNCHANGED Positions(2)
    BY <1>0 DEF Positions
  <1>2. Contiguous'
    BY <1>0 DEF IInv, Contiguous
  <1> USE <1>0, SizeAssumption DEF IInv, TypeOK, Shape, Children, Parent
  <1>3. CASE Fork("fork1", 1, "fork2") \/ Fork("fork2", 2, "close")
    BY <1>1, <1>2, <1>3 DEF Fork, Held, Bytes, Locking, ParentPcs, ChildPcs
  <1>4. CASE CloseWriteEnd \/ WaitFirst \/ WaitSecond \/ Report
    <2> USE <1>4 DEF CloseWriteEnd, WaitFirst, WaitSecond, Report
    <2>1. TypeOK' /\ Shape'
      BY DEF Held, Gone, ParentPcs, ChildPcs
    <2>2. Bytes'
      BY <1>1 DEF Bytes
    <2>3. Locking'
      BY DEF Locking
    <2> QED BY <1>2, <2>1, <2>2, <2>3
  <1>5. CASE CloseReadEnd(c) \/ Lockf(c)
    <2> USE <1>5 DEF CloseReadEnd, Lockf
    <2>1. TypeOK' /\ Shape'
      BY DEF Held, ParentPcs, ChildPcs
    <2>2. Bytes'
      BY <1>1 DEF Bytes
    <2>3. CASE CloseReadEnd(c)
      BY <1>2, <2>1, <2>2, <2>3 DEF Locking
    <2>4. CASE Lockf(c)
      <3>1. program = "locked" /\ \A d \in Children : pc[d] # "write"
        BY <2>4 DEF Locking, LockFree, ChildPcs
      <3>2. Locking'
        BY <2>4, <3>1 DEF Locking
      <3> QED BY <1>2, <2>1, <2>2, <3>2
    <2> QED BY <1>5, <2>3, <2>4
  <1>6. CASE BrokenPipe(c)
    BY <1>1, <1>2, <1>6 DEF BrokenPipe, Readers, Held, Bytes, Locking, ParentPcs, ChildPcs
  <1>7. CASE Finish(c)
    BY <1>1, <1>2, <1>7 DEF Finish, WritesAgain, Held, Bytes, Locking, ParentPcs, ChildPcs
  <1> QED BY <1>3, <1>4, <1>5, <1>6, <1>7

\* A child appends a byte.
LEMMA WriteStep ==
  ASSUME IInv, NEW c \in Children, WriteByte(c)
  PROVE  IInv'
  <1> DEFINE n == Len(stream)
  <1>0. /\ stream' = Append(stream, c) /\ written' = [written EXCEPT ![c] = @ + 1]
        /\ pc[c] = "write" /\ written[c] < N /\ Held < Capacity
        /\ UNCHANGED <<program, pc, InPipe, locker>>
    BY DEF WriteByte, WritesAgain
  <1>1. n \in Nat /\ stream \in Seq(Children)
    BY DEF IInv, TypeOK
  <1>2. /\ stream' \in Seq(Children) /\ Len(stream') = n + 1
        /\ \A i \in 1..n : stream'[i] = stream[i]
        /\ stream'[n + 1] = c
    BY <1>0, <1>1, AppendProperties
  <1>3. TypeOK'
    BY <1>0, <1>1, <1>2, SizeAssumption DEF IInv, TypeOK, Held, Children, Parent
  <1>4. Shape'
    BY <1>0 DEF IInv, TypeOK, Shape, Children, Parent
  <1>5. ASSUME NEW d \in Children
        PROVE  IsFiniteSet(Positions(d)') /\ Cardinality(Positions(d)') = written'[d]
    <2>1. n + 1 \notin Positions(d) /\ IsFiniteSet(Positions(d)) /\ Cardinality(Positions(d)) = written[d]
      BY <1>1 DEF IInv, Bytes, Positions
    <2>2. CASE d = c
      <3>1. Positions(d)' = Positions(d) \cup {n + 1}
        BY <1>1, <1>2, <2>2 DEF Positions
      <3> QED BY <1>0, <2>1, <2>2, <3>1, FS_AddElement DEF IInv, TypeOK
    <2>3. CASE d # c
      <3>1. Positions(d)' = Positions(d)
        BY <1>1, <1>2, <2>3 DEF Positions
      <3> QED BY <1>0, <2>1, <2>3, <3>1 DEF IInv, TypeOK
    <2> QED BY <2>2, <2>3
  <1>6. Bytes'
    <2>1. pc[Parent] \notin {"count", "end"}
      BY <1>0 DEF IInv, Shape, Children
    <2>2. Len(stream)' = written'[1] + written'[2]
      BY <1>0, <1>1, <1>2 DEF IInv, TypeOK, Bytes, Children
    <2> QED BY <1>0, <1>5, <2>1, <2>2 DEF IInv, Bytes
  <1>7. Locking'
    <2>1. program = "locked" => \A d \in Children : pc[d] = "write" => d = c
      BY <1>0 DEF IInv, Locking
    <2>2. program = "locked" =>
            \A i, j \in 1..(n + 1) : i < j /\ stream'[i] = c => stream'[j] = c
      BY <1>0, <1>1, <1>2 DEF IInv, Locking
    <2>3. program = "locked" => \A d \in Children :
            pc[d] \in {"none", "close", "lock"} => \A i \in 1..(n + 1) : stream'[i] # d
      BY <1>0, <1>1, <1>2 DEF IInv, Locking
    <2> QED BY <1>0, <1>2, <2>1, <2>2, <2>3 DEF IInv, Locking
  <1>8. Contiguous'
    <2> SUFFICES ASSUME program = "locked", NEW i \in 1..(n + 1), NEW j \in 1..(n + 1),
                        NEW k \in 1..(n + 1), i < j, j < k, stream'[i] = stream'[k]
                 PROVE  stream'[j] = stream'[i]
      BY <1>0, <1>2 DEF Contiguous
    <2>1. CASE k = n + 1
      BY <1>0, <1>1, <1>2, <2>1 DEF IInv, Locking
    <2>2. CASE k # n + 1
      <3>1. i \in 1..n /\ j \in 1..n /\ k \in 1..n
        BY <1>1, <2>2
      <3> QED BY <1>2, <3>1 DEF IInv, Contiguous
    <2> QED BY <2>1, <2>2
  <1> QED BY <1>3, <1>4, <1>6, <1>7, <1>8 DEF IInv

\* The parent reads: everything at once, since both children have ended.
LEMMA ReadStep ==
  ASSUME IInv, ReadPipe
  PROVE  IInv'
  <1> DEFINE n == Len(stream)
  <1>0. pc[Parent] = "read" /\ UNCHANGED <<program, written, stream, locker>>
    BY DEF ReadPipe
  <1>1. InPipe = <<>> /\ Len(InPipe) = 0 /\ n = 2 * N /\ n > 0 /\ n \in Nat /\ stream \in Seq(Children)
    BY <1>0, SizeAssumption DEF IInv, TypeOK, Shape, Bytes, Children
  <1>2. InPipe' = <<>> \o SubSeq(stream, 1, n) /\ pc' = [pc EXCEPT ![Parent] = "count"]
    <2> DEFINE size == ReadSize(2 * N - Len(InPipe))
               r    == IF Held < size THEN Held ELSE size
    <2>1. r = n /\ ~(r > 0 /\ Len(InPipe) + r < 2 * N) /\ Len(InPipe) + 1 = 1 /\ Len(InPipe) + r = n
      BY <1>1, SizeAssumption DEF ReadSize, Held
    <2>2. /\ InPipe' = InPipe \o SubSeq(stream, Len(InPipe) + 1, Len(InPipe) + r)
          /\ pc' = [pc EXCEPT ![Parent] = IF r > 0 /\ Len(InPipe) + r < 2 * N THEN "read" ELSE "count"]
      BY Zenon DEF ReadPipe
    <2> HIDE DEF r
    <2> QED BY <1>1, <2>1, <2>2, Zenon
  <1>3. SubSeq(stream, 1, n) = stream
    <2>1. \A i \in 1..n : stream[i] \in Children
      BY <1>1
    <2>2. /\ SubSeq(stream, 1, n) \in Seq(Children)
          /\ Len(SubSeq(stream, 1, n)) = n
          /\ \A i \in 1..n : SubSeq(stream, 1, n)[i] = stream[i]
      BY <1>1, <2>1, SubSeqProperties
    <2> QED BY <1>1, <2>2, SeqEqual
  <1>4. InPipe' = stream
    BY <1>1, <1>2, <1>3, ConcatEmptySeq
  <1>5. TypeOK'
    BY <1>0, <1>1, <1>2, <1>4, SizeAssumption DEF IInv, TypeOK, Held, Children, Parent
  <1>6. Shape'
    BY <1>0, <1>2 DEF IInv, TypeOK, Shape, ParentPcs, ChildPcs, Children, Parent
  <1>7. Bytes'
    BY <1>0, <1>2, <1>4 DEF IInv, TypeOK, Bytes, Positions, Children, Parent
  <1>8. Locking' /\ Contiguous'
    BY <1>0, <1>2 DEF IInv, TypeOK, Locking, Contiguous, Children, Parent
  <1> QED BY <1>5, <1>6, <1>7, <1>8 DEF IInv

\* Every step preserves the invariant.
LEMMA NextIInv == IInv /\ [Next]_vars => IInv'
  <1> SUFFICES ASSUME IInv, [Next]_vars PROVE IInv'
    OBVIOUS
  <1>1. CASE ParentStep
    <2>1. 1 \in Children
      BY DEF Children
    <2> QED BY <1>1, <2>1, QuietSteps, ReadStep DEF ParentStep
  <1>2. ASSUME NEW c \in Children, ChildStep(c) PROVE IInv'
    BY <1>2, QuietSteps, WriteStep DEF ChildStep
  <1>3. CASE UNCHANGED vars
    <2>1. ASSUME NEW c \in Children PROVE UNCHANGED Positions(c)
      BY <1>3 DEF Positions, vars
    <2>2. Bytes'
      BY <1>3, <2>1 DEF IInv, Bytes, vars
    <2>3. (TypeOK /\ Shape)'
      BY <1>3 DEF IInv, TypeOK, Held, Shape, vars
    <2>4. (Locking /\ Contiguous)'
      BY <1>3 DEF IInv, Locking, Contiguous, vars
    <2> QED BY <2>2, <2>3, <2>4 DEF IInv
  <1> QED BY <1>1, <1>2, <1>3 DEF Next, Over

\* The inductive invariant of both pipe programs.
THEOREM Invariant == Spec => []IInv
  BY InitIInv, NextIInv, PTL DEF Spec

\* Every variable keeps its type, and the pipe never holds more than it can.
THEOREM TypeCorrect == Spec => []TypeOK
  <1>1. IInv => TypeOK
    BY DEF IInv
  <1> QED BY <1>1, Invariant, PTL

\* lockf keeps the bytes of each child of 2-1.c together, for every N.
THEOREM LockKeepsTogether == Spec => []Contiguous
  <1>1. IInv => Contiguous
    BY DEF IInv
  <1> QED BY <1>1, Invariant, PTL

\* The parent counts N bytes of each child, with and without the lock.
THEOREM CountCorrect == Spec => []CountsExact
  <1>1. IInv => CountsExact
    <2> SUFFICES ASSUME IInv PROVE CountsExact
      OBVIOUS
    <2>1. ASSUME pc[Parent] = "end"
          PROVE  Len(InPipe) = 2 * N /\ \A c \in Children : Count(c) = N
      <3>1. InPipe = stream /\ written[1] = N /\ written[2] = N
        BY <2>1 DEF IInv, Shape, Bytes, Children
      <3>2. ASSUME NEW c \in Children PROVE Count(c) = N
        <4>1. DOMAIN stream = 1..Len(stream)
          BY DEF IInv, TypeOK
        <4>2. Count(c) = Cardinality(Positions(c))
          BY <3>1, <4>1 DEF Count, Positions
        <4> QED BY <3>1, <4>2 DEF IInv, Bytes, Children
      <3> QED BY <3>1, <3>2, SizeAssumption DEF IInv, Bytes
    <2> QED BY <2>1 DEF IInv, Shape, CountsExact
  <1> QED BY <1>1, Invariant, PTL

\* No write of a child ever waits for room, although the parent reads only
\* after both have ended: what keeps 2-1.c and 2-2.c from deadlock.
THEOREM WritesFindRoom == Spec => []RoomForAll
  <1>1. IInv => RoomForAll
    BY SizeAssumption DEF IInv, TypeOK, Bytes, RoomForAll, WritesAgain, Held, Children
  <1> QED BY <1>1, Invariant, PTL
=============================================================================
