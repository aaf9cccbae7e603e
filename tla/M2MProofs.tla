----------------------------- MODULE M2MProofs ------------------------------
(***************************************************************************)
(* Proofs about M2M for every number of processes and every size of the    *)
(* queue, of a message and of a request.  The inductive invariant is IInv. *)
(* Each conjunct has a lemma XxxStep that takes it through every action;   *)
(* the theorems that follow combine them.  The last two parts build on     *)
(* IInv: the counts of open files, and the refinement of MsgQueue.         *)
(***************************************************************************)
EXTENDS M2MRefinement, FiniteSetTheorems, SequenceTheorems, TLAPS

USE ProcsAssumption, SizesAssumption
USE DEF Goto, Enter, Return, Pcs, ReadPcs, WritePcs, PollPcs, devVars, waitVars,
        fileVars, callVars, EAGAIN, ENOMEM, EFAULT, EMSGSIZE, ERESTARTSYS, Fits,
        Mask, Min2, BytesFreed, BytesAdded, WriteqWoken, ReadqWoken, OneLess,
        NewMsg, AddTail, NoMsg

---------------------------------------------------------------------------
(* Sequences, arithmetic and cardinality.                                  *)

\* What list_del of the first entry leaves.
LEMMA TailFacts ==
  ASSUME NEW T, NEW s \in Seq(T), s # <<>>
  PROVE  /\ Len(s) \in Nat /\ Len(s) >= 1 /\ Head(s) = s[1]
         /\ \A i \in 1..Len(s) : s[i] \in T
         /\ Tail(s) \in Seq(T) /\ Len(Tail(s)) = Len(s) - 1
         /\ \A i \in 1..(Len(s) - 1) : Tail(s)[i] = s[i+1]
         /\ Tail(s) = <<>> <=> Len(s) = 1
<1>1. /\ Len(s) \in Nat /\ Len(s) >= 1 /\ Head(s) = s[1]
      /\ \A i \in 1..Len(s) : s[i] \in T
      /\ Tail(s) \in Seq(T) /\ Len(Tail(s)) = Len(s) - 1
      /\ \A i \in 1..(Len(s) - 1) : Tail(s)[i] = s[i+1]
  OBVIOUS
<1>2. \A t \in Seq(T) : t = <<>> <=> Len(t) = 0
  OBVIOUS
<1>3. Tail(s) = <<>> <=> Len(Tail(s)) = 0
  BY <1>1, <1>2, Zenon
<1>. QED
  BY <1>1, <1>3

\* What list_add_tail makes of a list.
LEMMA AppendFacts ==
  ASSUME NEW T, NEW s \in Seq(T), NEW e \in T
  PROVE  /\ Len(s) \in Nat /\ (s = <<>> <=> Len(s) = 0)
         /\ \A i \in 1..Len(s) : s[i] \in T /\ Append(s, e)[i] = s[i]
         /\ Append(s, e) \in Seq(T) /\ Append(s, e) # <<>>
         /\ Len(Append(s, e)) = Len(s) + 1 /\ Append(s, e)[Len(s) + 1] = e
  OBVIOUS

\* The fields of a message.
LEMMA MsgFields == \A x \in Msg : x.at \in Nat /\ x.len \in Nat
  BY DEF Msg

\* Multiplication by a natural number is monotone.
LEMMA TimesMonotone ==
  ASSUME NEW a \in Nat, NEW b \in Nat, NEW c \in Nat, a <= b
  PROVE  a * c <= b * c
<1>1. PICK d \in Nat : b = a + d
  <2>. WITNESS b - a \in Nat
  <2>. QED
    OBVIOUS
<1>2. b * c = a * c + d * c
  BY <1>1
<1>3. a * c \in Nat /\ d * c \in Nat
  OBVIOUS
<1>. QED
  BY <1>2, <1>3

\* The writers in flight are a finite set of writers.
LEMMA InFlightFinite ==
  ASSUME TypeOK, CallsInProgress
  PROVE  /\ InFlight \subseteq Writers /\ IsFiniteSet(InFlight) /\ IsFiniteSet(Writers)
         /\ Cardinality(InFlight) \in Nat /\ Cardinality(Writers) \in Nat
         /\ Cardinality(InFlight) <= Cardinality(Writers)
<1>1. InFlight \subseteq Writers
  BY DEF InFlight, CallsInProgress
<1>2. IsFiniteSet(Writers)
  BY FS_Subset
<1>. QED
  BY <1>1, <1>2, FS_Subset, FS_CardinalityType

---------------------------------------------------------------------------
(* One lemma per conjunct of IInv.                                         *)


\* A call in progress keeps its file open and the module loaded.
LEMMA CallsStep == IInv /\ [Next]_vars => CallsInProgress'
<1> SUFFICES ASSUME IInv, [Next]_vars PROVE CallsInProgress'
  OBVIOUS
<1>0. pc \in [Procs -> Pcs] /\ count \in [Procs -> Nat] /\ file \in [Procs -> {"closed", "block", "nonblock"}] /\ CallsInProgress
  BY DEF IInv, TypeOK, DevTypeOK, CallTypeOK
<1>1. CASE M2MInit
  BY <1>0, <1>1 DEF M2MInit, CallsInProgress
<1>2. CASE M2MExit
  BY <1>0, <1>2 DEF M2MExit, CallsInProgress
<1>3. ASSUME NEW p \in Procs, NEW mode \in {"block", "nonblock"}, Open(p, mode) PROVE CallsInProgress'
  BY <1>0, <1>3 DEF Open, CallsInProgress
<1>4. ASSUME NEW p \in Procs, Release(p) PROVE CallsInProgress'
  BY <1>0, <1>4 DEF Release, CallsInProgress
<1>5. ASSUME NEW p \in Procs, NEW n \in Counts, Read(p, n) PROVE CallsInProgress'
  BY <1>0, <1>5 DEF Read, CallsInProgress
<1>6. ASSUME NEW p \in Procs, NEW n \in Counts, p \in Writers, Write(p, n) PROVE CallsInProgress'
  BY <1>0, <1>6 DEF Write, CallsInProgress
<1>7. ASSUME NEW p \in Procs, NEW ev \in {{"POLLIN"}, {"POLLOUT"}}, Poll(p, ev) PROVE CallsInProgress'
  BY <1>0, <1>7 DEF Poll, CallsInProgress
<1>8. ASSUME NEW p \in Procs, RdSignal(p) PROVE CallsInProgress'
  BY <1>0, <1>8 DEF RdSignal, CallsInProgress
<1>9. ASSUME NEW p \in Procs, WrSignal(p) PROVE CallsInProgress'
  BY <1>0, <1>9 DEF WrSignal, CallsInProgress
<1>10. ASSUME NEW p \in Procs, PlSignal(p) PROVE CallsInProgress'
  BY <1>0, <1>10 DEF PlSignal, CallsInProgress
<1>11. ASSUME NEW p \in Procs, RdTry(p) PROVE CallsInProgress'
  BY <1>0, <1>11 DEF RdTry, CallsInProgress
<1>12. ASSUME NEW p \in Procs, RdLock(p) PROVE CallsInProgress'
  BY <1>0, <1>12 DEF RdLock, CallsInProgress
<1>13. ASSUME NEW p \in Procs, WrCheck(p) PROVE CallsInProgress'
  BY <1>0, <1>13 DEF WrCheck, CallsInProgress
<1>14. ASSUME NEW p \in Procs, WrLock(p) PROVE CallsInProgress'
  BY <1>0, <1>14 DEF WrLock, CallsInProgress
<1>15. ASSUME NEW p \in Procs, PlCheck(p) PROVE CallsInProgress'
  BY <1>0, <1>15 DEF PlCheck, CallsInProgress
<1>16. ASSUME NEW p \in Procs, RdWait(p) PROVE CallsInProgress'
  BY <1>0, <1>16 DEF RdWait, CallsInProgress
<1>17. ASSUME NEW p \in Procs, RdCond(p) PROVE CallsInProgress'
  BY <1>0, <1>17 DEF RdCond, CallsInProgress
<1>18. ASSUME NEW p \in Procs, RdBytes(p) PROVE CallsInProgress'
  BY <1>0, <1>18 DEF RdBytes, CallsInProgress
<1>19. ASSUME NEW p \in Procs, RdCopy(p) PROVE CallsInProgress'
  BY <1>0, <1>19 DEF RdCopy, CallsInProgress
<1>20. ASSUME NEW p \in Procs, WrWait(p) PROVE CallsInProgress'
  BY <1>0, <1>20 DEF WrWait, CallsInProgress
<1>21. ASSUME NEW p \in Procs, WrCond(p) PROVE CallsInProgress'
  BY <1>0, <1>21 DEF WrCond, CallsInProgress
<1>22. ASSUME NEW p \in Procs, WrAlloc(p) PROVE CallsInProgress'
  BY <1>0, <1>22 DEF WrAlloc, CallsInProgress
<1>23. ASSUME NEW p \in Procs, WrBytes(p) PROVE CallsInProgress'
  BY <1>0, <1>23 DEF WrBytes, CallsInProgress
<1>24. ASSUME NEW p \in Procs, WrWake(p) PROVE CallsInProgress'
  BY <1>0, <1>24 DEF WrWake, CallsInProgress
<1>25. ASSUME NEW p \in Procs, PlWoken(p) PROVE CallsInProgress'
  BY <1>0, <1>25 DEF PlWoken, CallsInProgress
<1>26. CASE UNCHANGED vars
  BY <1>0, <1>26 DEF vars, CallsInProgress
<1>. QED
  BY <1>1, <1>2, <1>3, <1>4, <1>5, <1>6, <1>7, <1>8, <1>9, <1>10, <1>11, <1>12, <1>13, <1>14, <1>15, <1>16, <1>17, <1>18, <1>19, <1>20, <1>21, <1>22, <1>23, <1>24, <1>25, <1>26 DEF Next, Call, Signal, LockStep, RunStep

\* The mutex is taken only when free and released by its owner.
LEMMA MutexStep == IInv /\ [Next]_vars => MutexHeld'
<1> SUFFICES ASSUME IInv, [Next]_vars PROVE MutexHeld'
  OBVIOUS
<1>0. pc \in [Procs -> Pcs] /\ CallsInProgress /\ MutexHeld
  BY DEF IInv, TypeOK, DevTypeOK, CallTypeOK
<1>1. CASE M2MInit
  BY <1>0, <1>1 DEF M2MInit, CallsInProgress, MutexHeld
<1>2. CASE M2MExit
  BY <1>0, <1>2 DEF M2MExit, CallsInProgress, MutexHeld
<1>3. ASSUME NEW p \in Procs, NEW mode \in {"block", "nonblock"}, Open(p, mode) PROVE MutexHeld'
  BY <1>0, <1>3 DEF Open, CallsInProgress, MutexHeld
<1>4. ASSUME NEW p \in Procs, Release(p) PROVE MutexHeld'
  BY <1>0, <1>4 DEF Release, CallsInProgress, MutexHeld
<1>5. ASSUME NEW p \in Procs, NEW n \in Counts, Read(p, n) PROVE MutexHeld'
  BY <1>0, <1>5 DEF Read, CallsInProgress, MutexHeld
<1>6. ASSUME NEW p \in Procs, NEW n \in Counts, p \in Writers, Write(p, n) PROVE MutexHeld'
  BY <1>0, <1>6 DEF Write, CallsInProgress, MutexHeld
<1>7. ASSUME NEW p \in Procs, NEW ev \in {{"POLLIN"}, {"POLLOUT"}}, Poll(p, ev) PROVE MutexHeld'
  BY <1>0, <1>7 DEF Poll, CallsInProgress, MutexHeld
<1>8. ASSUME NEW p \in Procs, RdSignal(p) PROVE MutexHeld'
  BY <1>0, <1>8 DEF RdSignal, CallsInProgress, MutexHeld
<1>9. ASSUME NEW p \in Procs, WrSignal(p) PROVE MutexHeld'
  BY <1>0, <1>9 DEF WrSignal, CallsInProgress, MutexHeld
<1>10. ASSUME NEW p \in Procs, PlSignal(p) PROVE MutexHeld'
  BY <1>0, <1>10 DEF PlSignal, CallsInProgress, MutexHeld
<1>11. ASSUME NEW p \in Procs, RdTry(p) PROVE MutexHeld'
  BY <1>0, <1>11 DEF RdTry, CallsInProgress, MutexHeld
<1>12. ASSUME NEW p \in Procs, RdLock(p) PROVE MutexHeld'
  BY <1>0, <1>12 DEF RdLock, CallsInProgress, MutexHeld
<1>13. ASSUME NEW p \in Procs, WrCheck(p) PROVE MutexHeld'
  BY <1>0, <1>13 DEF WrCheck, CallsInProgress, MutexHeld
<1>14. ASSUME NEW p \in Procs, WrLock(p) PROVE MutexHeld'
  BY <1>0, <1>14 DEF WrLock, CallsInProgress, MutexHeld
<1>15. ASSUME NEW p \in Procs, PlCheck(p) PROVE MutexHeld'
  BY <1>0, <1>15 DEF PlCheck, CallsInProgress, MutexHeld
<1>16. ASSUME NEW p \in Procs, RdWait(p) PROVE MutexHeld'
  BY <1>0, <1>16 DEF RdWait, CallsInProgress, MutexHeld
<1>17. ASSUME NEW p \in Procs, RdCond(p) PROVE MutexHeld'
  BY <1>0, <1>17 DEF RdCond, CallsInProgress, MutexHeld
<1>18. ASSUME NEW p \in Procs, RdBytes(p) PROVE MutexHeld'
  BY <1>0, <1>18 DEF RdBytes, CallsInProgress, MutexHeld
<1>19. ASSUME NEW p \in Procs, RdCopy(p) PROVE MutexHeld'
  BY <1>0, <1>19 DEF RdCopy, CallsInProgress, MutexHeld
<1>20. ASSUME NEW p \in Procs, WrWait(p) PROVE MutexHeld'
  BY <1>0, <1>20 DEF WrWait, CallsInProgress, MutexHeld
<1>21. ASSUME NEW p \in Procs, WrCond(p) PROVE MutexHeld'
  BY <1>0, <1>21 DEF WrCond, CallsInProgress, MutexHeld
<1>22. ASSUME NEW p \in Procs, WrAlloc(p) PROVE MutexHeld'
  BY <1>0, <1>22 DEF WrAlloc, CallsInProgress, MutexHeld
<1>23. ASSUME NEW p \in Procs, WrBytes(p) PROVE MutexHeld'
  BY <1>0, <1>23 DEF WrBytes, CallsInProgress, MutexHeld
<1>24. ASSUME NEW p \in Procs, WrWake(p) PROVE MutexHeld'
  BY <1>0, <1>24 DEF WrWake, CallsInProgress, MutexHeld
<1>25. ASSUME NEW p \in Procs, PlWoken(p) PROVE MutexHeld'
  BY <1>0, <1>25 DEF PlWoken, CallsInProgress, MutexHeld
<1>26. CASE UNCHANGED vars
  BY <1>0, <1>26 DEF vars, CallsInProgress, MutexHeld
<1>. QED
  BY <1>1, <1>2, <1>3, <1>4, <1>5, <1>6, <1>7, <1>8, <1>9, <1>10, <1>11, <1>12, <1>13, <1>14, <1>15, <1>16, <1>17, <1>18, <1>19, <1>20, <1>21, <1>22, <1>23, <1>24, <1>25, <1>26 DEF Next, Call, Signal, LockStep, RunStep

\* A message that arrives while a reader sleeps brings its wake-up along.
LEMMA ReaderStep == IInv /\ [Next]_vars => ReaderNotStranded'
<1> SUFFICES ASSUME IInv, [Next]_vars PROVE ReaderNotStranded'
  OBVIOUS
<1>0. pc \in [Procs -> Pcs] /\ ReaderNotStranded
  BY DEF IInv, TypeOK, DevTypeOK, CallTypeOK
<1>1. CASE M2MInit
  BY <1>0, <1>1 DEF M2MInit, ReaderNotStranded
<1>2. CASE M2MExit
  BY <1>0, <1>2 DEF M2MExit, ReaderNotStranded
<1>3. ASSUME NEW p \in Procs, NEW mode \in {"block", "nonblock"}, Open(p, mode) PROVE ReaderNotStranded'
  BY <1>0, <1>3 DEF Open, ReaderNotStranded
<1>4. ASSUME NEW p \in Procs, Release(p) PROVE ReaderNotStranded'
  BY <1>0, <1>4 DEF Release, ReaderNotStranded
<1>5. ASSUME NEW p \in Procs, NEW n \in Counts, Read(p, n) PROVE ReaderNotStranded'
  BY <1>0, <1>5 DEF Read, ReaderNotStranded
<1>6. ASSUME NEW p \in Procs, NEW n \in Counts, p \in Writers, Write(p, n) PROVE ReaderNotStranded'
  BY <1>0, <1>6 DEF Write, ReaderNotStranded
<1>7. ASSUME NEW p \in Procs, NEW ev \in {{"POLLIN"}, {"POLLOUT"}}, Poll(p, ev) PROVE ReaderNotStranded'
  BY <1>0, <1>7 DEF Poll, ReaderNotStranded
<1>8. ASSUME NEW p \in Procs, RdSignal(p) PROVE ReaderNotStranded'
  BY <1>0, <1>8 DEF RdSignal, ReaderNotStranded
<1>9. ASSUME NEW p \in Procs, WrSignal(p) PROVE ReaderNotStranded'
  BY <1>0, <1>9 DEF WrSignal, ReaderNotStranded
<1>10. ASSUME NEW p \in Procs, PlSignal(p) PROVE ReaderNotStranded'
  BY <1>0, <1>10 DEF PlSignal, ReaderNotStranded
<1>11. ASSUME NEW p \in Procs, RdTry(p) PROVE ReaderNotStranded'
  BY <1>0, <1>11 DEF RdTry, ReaderNotStranded
<1>12. ASSUME NEW p \in Procs, RdLock(p) PROVE ReaderNotStranded'
  BY <1>0, <1>12 DEF RdLock, ReaderNotStranded
<1>13. ASSUME NEW p \in Procs, WrCheck(p) PROVE ReaderNotStranded'
  BY <1>0, <1>13 DEF WrCheck, ReaderNotStranded
<1>14. ASSUME NEW p \in Procs, WrLock(p) PROVE ReaderNotStranded'
  BY <1>0, <1>14 DEF WrLock, ReaderNotStranded
<1>15. ASSUME NEW p \in Procs, PlCheck(p) PROVE ReaderNotStranded'
  BY <1>0, <1>15 DEF PlCheck, ReaderNotStranded
<1>16. ASSUME NEW p \in Procs, RdWait(p) PROVE ReaderNotStranded'
  BY <1>0, <1>16 DEF RdWait, ReaderNotStranded
<1>17. ASSUME NEW p \in Procs, RdCond(p) PROVE ReaderNotStranded'
  BY <1>0, <1>17 DEF RdCond, ReaderNotStranded
<1>18. ASSUME NEW p \in Procs, RdBytes(p) PROVE ReaderNotStranded'
  BY <1>0, <1>18 DEF RdBytes, ReaderNotStranded
<1>19. ASSUME NEW p \in Procs, RdCopy(p) PROVE ReaderNotStranded'
  BY <1>0, <1>19 DEF RdCopy, ReaderNotStranded
<1>20. ASSUME NEW p \in Procs, WrWait(p) PROVE ReaderNotStranded'
  BY <1>0, <1>20 DEF WrWait, ReaderNotStranded
<1>21. ASSUME NEW p \in Procs, WrCond(p) PROVE ReaderNotStranded'
  BY <1>0, <1>21 DEF WrCond, ReaderNotStranded
<1>22. ASSUME NEW p \in Procs, WrAlloc(p) PROVE ReaderNotStranded'
  BY <1>0, <1>22 DEF WrAlloc, ReaderNotStranded
<1>23. ASSUME NEW p \in Procs, WrBytes(p) PROVE ReaderNotStranded'
  BY <1>0, <1>23 DEF WrBytes, ReaderNotStranded
<1>24. ASSUME NEW p \in Procs, WrWake(p) PROVE ReaderNotStranded'
  BY <1>0, <1>24 DEF WrWake, ReaderNotStranded
<1>25. ASSUME NEW p \in Procs, PlWoken(p) PROVE ReaderNotStranded'
  BY <1>0, <1>25 DEF PlWoken, ReaderNotStranded
<1>26. CASE UNCHANGED vars
  BY <1>0, <1>26 DEF vars, ReaderNotStranded
<1>. QED
  BY <1>1, <1>2, <1>3, <1>4, <1>5, <1>6, <1>7, <1>8, <1>9, <1>10, <1>11, <1>12, <1>13, <1>14, <1>15, <1>16, <1>17, <1>18, <1>19, <1>20, <1>21, <1>22, <1>23, <1>24, <1>25, <1>26 DEF Next, Call, Signal, LockStep, RunStep

\* Room made while a writer sleeps brings its wake-up along.
LEMMA WriterStep == IInv /\ [Next]_vars => WriterNotStranded'
<1> SUFFICES ASSUME IInv, [Next]_vars PROVE WriterNotStranded'
  OBVIOUS
<1>0. pc \in [Procs -> Pcs] /\ queued_bytes \in Nat /\ count \in [Procs -> Nat] /\ WriterNotStranded
  BY DEF IInv, TypeOK, DevTypeOK, CallTypeOK
<1>1. CASE M2MInit
  BY <1>0, <1>1 DEF M2MInit, WriterNotStranded
<1>2. CASE M2MExit
  BY <1>0, <1>2 DEF M2MExit, WriterNotStranded
<1>3. ASSUME NEW p \in Procs, NEW mode \in {"block", "nonblock"}, Open(p, mode) PROVE WriterNotStranded'
  BY <1>0, <1>3 DEF Open, WriterNotStranded
<1>4. ASSUME NEW p \in Procs, Release(p) PROVE WriterNotStranded'
  BY <1>0, <1>4 DEF Release, WriterNotStranded
<1>5. ASSUME NEW p \in Procs, NEW n \in Counts, Read(p, n) PROVE WriterNotStranded'
  BY <1>0, <1>5 DEF Read, WriterNotStranded
<1>6. ASSUME NEW p \in Procs, NEW n \in Counts, p \in Writers, Write(p, n) PROVE WriterNotStranded'
  BY <1>0, <1>6 DEF Write, WriterNotStranded
<1>7. ASSUME NEW p \in Procs, NEW ev \in {{"POLLIN"}, {"POLLOUT"}}, Poll(p, ev) PROVE WriterNotStranded'
  BY <1>0, <1>7 DEF Poll, WriterNotStranded
<1>8. ASSUME NEW p \in Procs, RdSignal(p) PROVE WriterNotStranded'
  BY <1>0, <1>8 DEF RdSignal, WriterNotStranded
<1>9. ASSUME NEW p \in Procs, WrSignal(p) PROVE WriterNotStranded'
  BY <1>0, <1>9 DEF WrSignal, WriterNotStranded
<1>10. ASSUME NEW p \in Procs, PlSignal(p) PROVE WriterNotStranded'
  BY <1>0, <1>10 DEF PlSignal, WriterNotStranded
<1>11. ASSUME NEW p \in Procs, RdTry(p) PROVE WriterNotStranded'
  BY <1>0, <1>11 DEF RdTry, WriterNotStranded
<1>12. ASSUME NEW p \in Procs, RdLock(p) PROVE WriterNotStranded'
  BY <1>0, <1>12 DEF RdLock, WriterNotStranded
<1>13. ASSUME NEW p \in Procs, WrCheck(p) PROVE WriterNotStranded'
  BY <1>0, <1>13 DEF WrCheck, WriterNotStranded
<1>14. ASSUME NEW p \in Procs, WrLock(p) PROVE WriterNotStranded'
  BY <1>0, <1>14 DEF WrLock, WriterNotStranded
<1>15. ASSUME NEW p \in Procs, PlCheck(p) PROVE WriterNotStranded'
  BY <1>0, <1>15 DEF PlCheck, WriterNotStranded
<1>16. ASSUME NEW p \in Procs, RdWait(p) PROVE WriterNotStranded'
  BY <1>0, <1>16 DEF RdWait, WriterNotStranded
<1>17. ASSUME NEW p \in Procs, RdCond(p) PROVE WriterNotStranded'
  BY <1>0, <1>17 DEF RdCond, WriterNotStranded
<1>18. ASSUME NEW p \in Procs, RdBytes(p) PROVE WriterNotStranded'
  BY <1>0, <1>18 DEF RdBytes, WriterNotStranded
<1>19. ASSUME NEW p \in Procs, RdCopy(p) PROVE WriterNotStranded'
  BY <1>0, <1>19 DEF RdCopy, WriterNotStranded
<1>20. ASSUME NEW p \in Procs, WrWait(p) PROVE WriterNotStranded'
  BY <1>0, <1>20 DEF WrWait, WriterNotStranded
<1>21. ASSUME NEW p \in Procs, WrCond(p) PROVE WriterNotStranded'
  BY <1>0, <1>21 DEF WrCond, WriterNotStranded
<1>22. ASSUME NEW p \in Procs, WrAlloc(p) PROVE WriterNotStranded'
  BY <1>0, <1>22 DEF WrAlloc, WriterNotStranded
<1>23. ASSUME NEW p \in Procs, WrBytes(p) PROVE WriterNotStranded'
  BY <1>0, <1>23 DEF WrBytes, WriterNotStranded
<1>24. ASSUME NEW p \in Procs, WrWake(p) PROVE WriterNotStranded'
  BY <1>0, <1>24 DEF WrWake, WriterNotStranded
<1>25. ASSUME NEW p \in Procs, PlWoken(p) PROVE WriterNotStranded'
  BY <1>0, <1>25 DEF PlWoken, WriterNotStranded
<1>26. CASE UNCHANGED vars
  BY <1>0, <1>26 DEF vars, WriterNotStranded
<1>. QED
  BY <1>1, <1>2, <1>3, <1>4, <1>5, <1>6, <1>7, <1>8, <1>9, <1>10, <1>11, <1>12, <1>13, <1>14, <1>15, <1>16, <1>17, <1>18, <1>19, <1>20, <1>21, <1>22, <1>23, <1>24, <1>25, <1>26 DEF Next, Call, Signal, LockStep, RunStep

\* The same for a poller, on both wait queues.
LEMMA PollerStep == IInv /\ [Next]_vars => PollerNotStranded'
<1> SUFFICES ASSUME IInv, [Next]_vars PROVE PollerNotStranded'
  OBVIOUS
<1>0. pc \in [Procs -> Pcs] /\ queued_bytes \in Nat /\ count \in [Procs -> Nat] /\ events \in [Procs -> SUBSET {"POLLIN", "POLLOUT"}] /\ PollerNotStranded
  BY DEF IInv, TypeOK, DevTypeOK, CallTypeOK
<1>1. CASE M2MInit
  BY <1>0, <1>1 DEF M2MInit, PollerNotStranded
<1>2. CASE M2MExit
  BY <1>0, <1>2 DEF M2MExit, PollerNotStranded
<1>3. ASSUME NEW p \in Procs, NEW mode \in {"block", "nonblock"}, Open(p, mode) PROVE PollerNotStranded'
  BY <1>0, <1>3 DEF Open, PollerNotStranded
<1>4. ASSUME NEW p \in Procs, Release(p) PROVE PollerNotStranded'
  BY <1>0, <1>4 DEF Release, PollerNotStranded
<1>5. ASSUME NEW p \in Procs, NEW n \in Counts, Read(p, n) PROVE PollerNotStranded'
  BY <1>0, <1>5 DEF Read, PollerNotStranded
<1>6. ASSUME NEW p \in Procs, NEW n \in Counts, p \in Writers, Write(p, n) PROVE PollerNotStranded'
  BY <1>0, <1>6 DEF Write, PollerNotStranded
<1>7. ASSUME NEW p \in Procs, NEW ev \in {{"POLLIN"}, {"POLLOUT"}}, Poll(p, ev) PROVE PollerNotStranded'
  BY <1>0, <1>7 DEF Poll, PollerNotStranded
<1>8. ASSUME NEW p \in Procs, RdSignal(p) PROVE PollerNotStranded'
  BY <1>0, <1>8 DEF RdSignal, PollerNotStranded
<1>9. ASSUME NEW p \in Procs, WrSignal(p) PROVE PollerNotStranded'
  BY <1>0, <1>9 DEF WrSignal, PollerNotStranded
<1>10. ASSUME NEW p \in Procs, PlSignal(p) PROVE PollerNotStranded'
  BY <1>0, <1>10 DEF PlSignal, PollerNotStranded
<1>11. ASSUME NEW p \in Procs, RdTry(p) PROVE PollerNotStranded'
  BY <1>0, <1>11 DEF RdTry, PollerNotStranded
<1>12. ASSUME NEW p \in Procs, RdLock(p) PROVE PollerNotStranded'
  BY <1>0, <1>12 DEF RdLock, PollerNotStranded
<1>13. ASSUME NEW p \in Procs, WrCheck(p) PROVE PollerNotStranded'
  BY <1>0, <1>13 DEF WrCheck, PollerNotStranded
<1>14. ASSUME NEW p \in Procs, WrLock(p) PROVE PollerNotStranded'
  BY <1>0, <1>14 DEF WrLock, PollerNotStranded
<1>15. ASSUME NEW p \in Procs, PlCheck(p) PROVE PollerNotStranded'
  BY <1>0, <1>15 DEF PlCheck, PollerNotStranded
<1>16. ASSUME NEW p \in Procs, RdWait(p) PROVE PollerNotStranded'
  BY <1>0, <1>16 DEF RdWait, PollerNotStranded
<1>17. ASSUME NEW p \in Procs, RdCond(p) PROVE PollerNotStranded'
  BY <1>0, <1>17 DEF RdCond, PollerNotStranded
<1>18. ASSUME NEW p \in Procs, RdBytes(p) PROVE PollerNotStranded'
  BY <1>0, <1>18 DEF RdBytes, PollerNotStranded
<1>19. ASSUME NEW p \in Procs, RdCopy(p) PROVE PollerNotStranded'
  BY <1>0, <1>19 DEF RdCopy, PollerNotStranded
<1>20. ASSUME NEW p \in Procs, WrWait(p) PROVE PollerNotStranded'
  BY <1>0, <1>20 DEF WrWait, PollerNotStranded
<1>21. ASSUME NEW p \in Procs, WrCond(p) PROVE PollerNotStranded'
  BY <1>0, <1>21 DEF WrCond, PollerNotStranded
<1>22. ASSUME NEW p \in Procs, WrAlloc(p) PROVE PollerNotStranded'
  BY <1>0, <1>22 DEF WrAlloc, PollerNotStranded
<1>23. ASSUME NEW p \in Procs, WrBytes(p) PROVE PollerNotStranded'
  BY <1>0, <1>23 DEF WrBytes, PollerNotStranded
<1>24. ASSUME NEW p \in Procs, WrWake(p) PROVE PollerNotStranded'
  BY <1>0, <1>24 DEF WrWake, PollerNotStranded
<1>25. ASSUME NEW p \in Procs, PlWoken(p) PROVE PollerNotStranded'
  BY <1>0, <1>25 DEF PlWoken, PollerNotStranded
<1>26. CASE UNCHANGED vars
  BY <1>0, <1>26 DEF vars, PollerNotStranded
<1>. QED
  BY <1>1, <1>2, <1>3, <1>4, <1>5, <1>6, <1>7, <1>8, <1>9, <1>10, <1>11, <1>12, <1>13, <1>14, <1>15, <1>16, <1>17, <1>18, <1>19, <1>20, <1>21, <1>22, <1>23, <1>24, <1>25, <1>26 DEF Next, Call, Signal, LockStep, RunStep

\* Only the first entry leaves the list and only the end grows.
LEMMA StreamStep == IInv /\ [Next]_vars => StreamInOrder'
<1> SUFFICES ASSUME IInv, [Next]_vars PROVE StreamInOrder'
  OBVIOUS
<1>0. msg_list \in Seq(Msg) /\ bytes_in \in Nat /\ bytes_out \in Nat /\ count \in [Procs -> Nat] /\ StreamInOrder
  BY DEF IInv, TypeOK, DevTypeOK, CallTypeOK
<1>1. CASE M2MInit
  BY <1>0, <1>1 DEF M2MInit, StreamInOrder
<1>2. CASE M2MExit
  BY <1>0, <1>2 DEF M2MExit, StreamInOrder
<1>3. ASSUME NEW p \in Procs, NEW mode \in {"block", "nonblock"}, Open(p, mode) PROVE StreamInOrder'
  BY <1>0, <1>3 DEF Open, StreamInOrder
<1>4. ASSUME NEW p \in Procs, Release(p) PROVE StreamInOrder'
  BY <1>0, <1>4 DEF Release, StreamInOrder
<1>5. ASSUME NEW p \in Procs, NEW n \in Counts, Read(p, n) PROVE StreamInOrder'
  BY <1>0, <1>5 DEF Read, StreamInOrder
<1>6. ASSUME NEW p \in Procs, NEW n \in Counts, p \in Writers, Write(p, n) PROVE StreamInOrder'
  BY <1>0, <1>6 DEF Write, StreamInOrder
<1>7. ASSUME NEW p \in Procs, NEW ev \in {{"POLLIN"}, {"POLLOUT"}}, Poll(p, ev) PROVE StreamInOrder'
  BY <1>0, <1>7 DEF Poll, StreamInOrder
<1>8. ASSUME NEW p \in Procs, RdSignal(p) PROVE StreamInOrder'
  BY <1>0, <1>8 DEF RdSignal, StreamInOrder
<1>9. ASSUME NEW p \in Procs, WrSignal(p) PROVE StreamInOrder'
  BY <1>0, <1>9 DEF WrSignal, StreamInOrder
<1>10. ASSUME NEW p \in Procs, PlSignal(p) PROVE StreamInOrder'
  BY <1>0, <1>10 DEF PlSignal, StreamInOrder
<1>11. ASSUME NEW p \in Procs, RdTry(p) PROVE StreamInOrder'
  BY <1>0, <1>11 DEF RdTry, StreamInOrder
<1>12. ASSUME NEW p \in Procs, RdLock(p) PROVE StreamInOrder'
  <2>1. CASE msg_list = <<>>
    BY <1>0, <1>12, <2>1 DEF RdLock, StreamInOrder
  <2>2. CASE msg_list # <<>>
    <3>1. /\ msg_list' = Tail(msg_list) /\ bytes_in' = bytes_in
          /\ bytes_out' = bytes_out + msg_list[1].len
      BY <1>12, <2>2 DEF RdLock
    <3>2. /\ Len(msg_list) \in Nat /\ Len(msg_list) >= 1
          /\ Len(msg_list') = Len(msg_list) - 1
          /\ \A i \in 1..(Len(msg_list) - 1) : msg_list'[i] = msg_list[i+1]
          /\ \A i \in 1..Len(msg_list) : msg_list[i].at \in Nat /\ msg_list[i].len \in Nat
          /\ msg_list' = <<>> <=> Len(msg_list) = 1
      BY <1>0, <2>2, <3>1, TailFacts, MsgFields
    <3>3. \A i \in 1..(Len(msg_list) - 1) : i + 1 \in 1..Len(msg_list)
      BY <3>2
    <3>4. msg_list[1].at = bytes_out
      BY <1>0, <2>2 DEF StreamInOrder
    <3>5. CASE Len(msg_list) = 1
      BY <1>0, <2>2, <3>1, <3>2, <3>4, <3>5 DEF StreamInOrder
    <3>6. CASE Len(msg_list) > 1
      <4>1. \A i \in 1..Len(msg_list') : msg_list'[i].at + msg_list'[i].len <= bytes_in'
        BY <1>0, <3>1, <3>2, <3>3 DEF StreamInOrder
      <4>2. \A i \in 1..(Len(msg_list') - 1) :
              msg_list'[i+1].at = msg_list'[i].at + msg_list'[i].len
        <5>. TAKE i \in 1..(Len(msg_list') - 1)
        <5>1. /\ i \in 1..(Len(msg_list) - 1) /\ i + 1 \in 1..(Len(msg_list) - 1)
              /\ msg_list'[i] = msg_list[i+1] /\ msg_list'[i+1] = msg_list[(i+1)+1]
          BY <3>2
        <5>2. msg_list[(i+1)+1].at = msg_list[i+1].at + msg_list[i+1].len
          BY <1>0, <5>1 DEF StreamInOrder
        <5>. QED
          BY <5>1, <5>2
      <4>3. msg_list # <<>> /\ msg_list' # <<>>
        BY <2>2, <3>2, <3>6
      <4>4. msg_list'[1].at = bytes_out'
        BY <1>0, <3>1, <3>2, <3>4, <3>6 DEF StreamInOrder
      <4>5. msg_list'[Len(msg_list')] = msg_list[Len(msg_list)]
        BY <3>2, <3>6
      <4>6. msg_list'[Len(msg_list')].at + msg_list'[Len(msg_list')].len = bytes_in'
        BY <1>0, <3>1, <4>3, <4>5 DEF StreamInOrder
      <4>. QED
        BY <4>1, <4>2, <4>3, <4>4, <4>6 DEF StreamInOrder
    <3>. QED
      BY <3>2, <3>5, <3>6
  <2>. QED
    BY <2>1, <2>2
<1>13. ASSUME NEW p \in Procs, WrCheck(p) PROVE StreamInOrder'
  BY <1>0, <1>13 DEF WrCheck, StreamInOrder
<1>14. ASSUME NEW p \in Procs, WrLock(p) PROVE StreamInOrder'
  <2>. DEFINE new == [from |-> p, len |-> count[p], at |-> bytes_in]
  <2>1. /\ msg_list' = Append(msg_list, new) /\ bytes_out' = bytes_out
        /\ bytes_in' = bytes_in + count[p] /\ count[p] \in Nat
    BY <1>0, <1>14 DEF WrLock
  <2>2. new \in Msg /\ new.at = bytes_in /\ new.len = count[p]
    BY <1>0, <2>1 DEF Msg
  <2>. HIDE DEF new
  <2>3. /\ Len(msg_list) \in Nat
        /\ Len(msg_list') = Len(msg_list) + 1 /\ msg_list' # <<>>
        /\ msg_list'[Len(msg_list) + 1] = new
        /\ \A i \in 1..Len(msg_list) : msg_list'[i] = msg_list[i]
        /\ \A i \in 1..Len(msg_list) : msg_list[i].at \in Nat /\ msg_list[i].len \in Nat
        /\ msg_list = <<>> <=> Len(msg_list) = 0
    BY <1>0, <2>1, <2>2, AppendFacts, MsgFields
  <2>4. \A i \in 1..Len(msg_list') : msg_list'[i].at + msg_list'[i].len <= bytes_in'
    BY <1>0, <2>1, <2>2, <2>3 DEF StreamInOrder
  <2>5. \A i \in 1..(Len(msg_list') - 1) :
          msg_list'[i+1].at = msg_list'[i].at + msg_list'[i].len
    BY <1>0, <2>1, <2>2, <2>3 DEF StreamInOrder
  <2>6. msg_list'[1].at = bytes_out'
    <3>1. CASE msg_list = <<>>
      BY <1>0, <2>1, <2>2, <2>3, <3>1 DEF StreamInOrder
    <3>2. CASE msg_list # <<>>
      BY <1>0, <2>1, <2>3, <3>2 DEF StreamInOrder
    <3>. QED
      BY <3>1, <3>2
  <2>7. msg_list'[Len(msg_list')].at + msg_list'[Len(msg_list')].len = bytes_in'
    BY <2>1, <2>2, <2>3
  <2>. QED
    BY <2>3, <2>4, <2>5, <2>6, <2>7 DEF StreamInOrder
<1>15. ASSUME NEW p \in Procs, PlCheck(p) PROVE StreamInOrder'
  BY <1>0, <1>15 DEF PlCheck, StreamInOrder
<1>16. ASSUME NEW p \in Procs, RdWait(p) PROVE StreamInOrder'
  BY <1>0, <1>16 DEF RdWait, StreamInOrder
<1>17. ASSUME NEW p \in Procs, RdCond(p) PROVE StreamInOrder'
  BY <1>0, <1>17 DEF RdCond, StreamInOrder
<1>18. ASSUME NEW p \in Procs, RdBytes(p) PROVE StreamInOrder'
  BY <1>0, <1>18 DEF RdBytes, StreamInOrder
<1>19. ASSUME NEW p \in Procs, RdCopy(p) PROVE StreamInOrder'
  BY <1>0, <1>19 DEF RdCopy, StreamInOrder
<1>20. ASSUME NEW p \in Procs, WrWait(p) PROVE StreamInOrder'
  BY <1>0, <1>20 DEF WrWait, StreamInOrder
<1>21. ASSUME NEW p \in Procs, WrCond(p) PROVE StreamInOrder'
  BY <1>0, <1>21 DEF WrCond, StreamInOrder
<1>22. ASSUME NEW p \in Procs, WrAlloc(p) PROVE StreamInOrder'
  BY <1>0, <1>22 DEF WrAlloc, StreamInOrder
<1>23. ASSUME NEW p \in Procs, WrBytes(p) PROVE StreamInOrder'
  BY <1>0, <1>23 DEF WrBytes, StreamInOrder
<1>24. ASSUME NEW p \in Procs, WrWake(p) PROVE StreamInOrder'
  BY <1>0, <1>24 DEF WrWake, StreamInOrder
<1>25. ASSUME NEW p \in Procs, PlWoken(p) PROVE StreamInOrder'
  BY <1>0, <1>25 DEF PlWoken, StreamInOrder
<1>26. CASE UNCHANGED vars
  BY <1>0, <1>26 DEF vars, StreamInOrder
<1>. QED
  BY <1>1, <1>2, <1>3, <1>4, <1>5, <1>6, <1>7, <1>8, <1>9, <1>10, <1>11, <1>12, <1>13, <1>14, <1>15, <1>16, <1>17, <1>18, <1>19, <1>20, <1>21, <1>22, <1>23, <1>24, <1>25, <1>26 DEF Next, Call, Signal, LockStep, RunStep

\* The byte count follows the list, one step behind and under the mutex.
LEMMA BytesStep == IInv /\ [Next]_vars => BytesExact'
<1> SUFFICES ASSUME IInv, [Next]_vars PROVE BytesExact'
  OBVIOUS
<1>0. pc \in [Procs -> Pcs] /\ queued_bytes \in Nat /\ bytes_in \in Nat /\ bytes_out \in Nat /\ count \in [Procs -> Nat] /\ m \in [Procs -> Msg \cup {NoMsg}] /\ CallsInProgress /\ MutexHeld /\ BytesExact
  BY DEF IInv, TypeOK, DevTypeOK, CallTypeOK
<1>1. CASE M2MInit
  BY <1>0, <1>1 DEF M2MInit, CallsInProgress, MutexHeld, BytesExact
<1>2. CASE M2MExit
  BY <1>0, <1>2 DEF M2MExit, CallsInProgress, MutexHeld, BytesExact
<1>3. ASSUME NEW p \in Procs, NEW mode \in {"block", "nonblock"}, Open(p, mode) PROVE BytesExact'
  BY <1>0, <1>3 DEF Open, CallsInProgress, MutexHeld, BytesExact
<1>4. ASSUME NEW p \in Procs, Release(p) PROVE BytesExact'
  BY <1>0, <1>4 DEF Release, CallsInProgress, MutexHeld, BytesExact
<1>5. ASSUME NEW p \in Procs, NEW n \in Counts, Read(p, n) PROVE BytesExact'
  BY <1>0, <1>5 DEF Read, CallsInProgress, MutexHeld, BytesExact
<1>6. ASSUME NEW p \in Procs, NEW n \in Counts, p \in Writers, Write(p, n) PROVE BytesExact'
  BY <1>0, <1>6 DEF Write, CallsInProgress, MutexHeld, BytesExact
<1>7. ASSUME NEW p \in Procs, NEW ev \in {{"POLLIN"}, {"POLLOUT"}}, Poll(p, ev) PROVE BytesExact'
  BY <1>0, <1>7 DEF Poll, CallsInProgress, MutexHeld, BytesExact
<1>8. ASSUME NEW p \in Procs, RdSignal(p) PROVE BytesExact'
  BY <1>0, <1>8 DEF RdSignal, CallsInProgress, MutexHeld, BytesExact
<1>9. ASSUME NEW p \in Procs, WrSignal(p) PROVE BytesExact'
  BY <1>0, <1>9 DEF WrSignal, CallsInProgress, MutexHeld, BytesExact
<1>10. ASSUME NEW p \in Procs, PlSignal(p) PROVE BytesExact'
  BY <1>0, <1>10 DEF PlSignal, CallsInProgress, MutexHeld, BytesExact
<1>11. ASSUME NEW p \in Procs, RdTry(p) PROVE BytesExact'
  BY <1>0, <1>11 DEF RdTry, CallsInProgress, MutexHeld, BytesExact
<1>12. ASSUME NEW p \in Procs, RdLock(p) PROVE BytesExact'
  <2>1. CASE msg_list = <<>>
    BY <1>0, <1>12, <2>1 DEF RdLock, CallsInProgress, MutexHeld, BytesExact
  <2>2. CASE msg_list # <<>>
    <3>1. /\ lock = NoProc /\ lock' = p /\ pc' = [pc EXCEPT ![p] = "rd_bytes"]
          /\ m' = [m EXCEPT ![p] = Head(msg_list)] /\ loaded' = loaded
          /\ bytes_out' = bytes_out + Head(msg_list).len
          /\ UNCHANGED <<queued_bytes, bytes_in, count>>
      BY <1>12, <2>2 DEF RdLock
    <3>2. Head(msg_list).len \in Nat
      BY <2>2, TailFacts, MsgFields DEF IInv, TypeOK, DevTypeOK
    <3>. QED
      BY <1>0, <3>1, <3>2 DEF MutexHeld, BytesExact
  <2>. QED
    BY <2>1, <2>2
<1>13. ASSUME NEW p \in Procs, WrCheck(p) PROVE BytesExact'
  BY <1>0, <1>13 DEF WrCheck, CallsInProgress, MutexHeld, BytesExact
<1>14. ASSUME NEW p \in Procs, WrLock(p) PROVE BytesExact'
  BY <1>0, <1>14 DEF WrLock, CallsInProgress, MutexHeld, BytesExact
<1>15. ASSUME NEW p \in Procs, PlCheck(p) PROVE BytesExact'
  BY <1>0, <1>15 DEF PlCheck, CallsInProgress, MutexHeld, BytesExact
<1>16. ASSUME NEW p \in Procs, RdWait(p) PROVE BytesExact'
  BY <1>0, <1>16 DEF RdWait, CallsInProgress, MutexHeld, BytesExact
<1>17. ASSUME NEW p \in Procs, RdCond(p) PROVE BytesExact'
  BY <1>0, <1>17 DEF RdCond, CallsInProgress, MutexHeld, BytesExact
<1>18. ASSUME NEW p \in Procs, RdBytes(p) PROVE BytesExact'
  BY <1>0, <1>18, MsgFields DEF RdBytes, CallsInProgress, MutexHeld, BytesExact
<1>19. ASSUME NEW p \in Procs, RdCopy(p) PROVE BytesExact'
  BY <1>0, <1>19 DEF RdCopy, CallsInProgress, MutexHeld, BytesExact
<1>20. ASSUME NEW p \in Procs, WrWait(p) PROVE BytesExact'
  BY <1>0, <1>20 DEF WrWait, CallsInProgress, MutexHeld, BytesExact
<1>21. ASSUME NEW p \in Procs, WrCond(p) PROVE BytesExact'
  BY <1>0, <1>21 DEF WrCond, CallsInProgress, MutexHeld, BytesExact
<1>22. ASSUME NEW p \in Procs, WrAlloc(p) PROVE BytesExact'
  BY <1>0, <1>22 DEF WrAlloc, CallsInProgress, MutexHeld, BytesExact
<1>23. ASSUME NEW p \in Procs, WrBytes(p) PROVE BytesExact'
  BY <1>0, <1>23 DEF WrBytes, CallsInProgress, MutexHeld, BytesExact
<1>24. ASSUME NEW p \in Procs, WrWake(p) PROVE BytesExact'
  BY <1>0, <1>24 DEF WrWake, CallsInProgress, MutexHeld, BytesExact
<1>25. ASSUME NEW p \in Procs, PlWoken(p) PROVE BytesExact'
  BY <1>0, <1>25 DEF PlWoken, CallsInProgress, MutexHeld, BytesExact
<1>26. CASE UNCHANGED vars
  BY <1>0, <1>26 DEF vars, CallsInProgress, MutexHeld, BytesExact
<1>. QED
  BY <1>1, <1>2, <1>3, <1>4, <1>5, <1>6, <1>7, <1>8, <1>9, <1>10, <1>11, <1>12, <1>13, <1>14, <1>15, <1>16, <1>17, <1>18, <1>19, <1>20, <1>21, <1>22, <1>23, <1>24, <1>25, <1>26 DEF Next, Call, Signal, LockStep, RunStep

\* The device keeps its types; the subtraction of m2m_read does not wrap.
LEMMA DevTypeStep == IInv /\ [Next]_vars => DevTypeOK'
<1> SUFFICES ASSUME IInv, [Next]_vars PROVE DevTypeOK'
  OBVIOUS
<1>0. DevTypeOK /\ CallTypeOK
  BY DEF IInv, TypeOK, DevTypeOK, CallTypeOK
<1>1. CASE M2MInit
  BY <1>0, <1>1 DEF M2MInit, DevTypeOK, CallTypeOK
<1>2. CASE M2MExit
  <2>1. <<>> \in Seq(Msg)
    OBVIOUS
  <2>. QED
    BY <1>0, <1>2, <2>1 DEF M2MExit, DevTypeOK
<1>3. ASSUME NEW p \in Procs, NEW mode \in {"block", "nonblock"}, Open(p, mode) PROVE DevTypeOK'
  <2>1. nreaders' \in Int /\ nwriters' \in Int
    BY <1>0, <1>3 DEF Open, DevTypeOK
  <2>2. file' \in [Procs -> {"closed", "block", "nonblock"}]
    BY <1>0, <1>3 DEF Open, DevTypeOK
  <2>3. UNCHANGED <<loaded, devVars, waitVars>>
    BY <1>3 DEF Open
  <2>. QED
    BY <1>0, <2>1, <2>2, <2>3 DEF DevTypeOK
<1>4. ASSUME NEW p \in Procs, Release(p) PROVE DevTypeOK'
  BY <1>0, <1>4 DEF Release, DevTypeOK, CallTypeOK
<1>5. ASSUME NEW p \in Procs, NEW n \in Counts, Read(p, n) PROVE DevTypeOK'
  BY <1>0, <1>5 DEF Read, DevTypeOK, CallTypeOK
<1>6. ASSUME NEW p \in Procs, NEW n \in Counts, p \in Writers, Write(p, n) PROVE DevTypeOK'
  BY <1>0, <1>6 DEF Write, DevTypeOK, CallTypeOK
<1>7. ASSUME NEW p \in Procs, NEW ev \in {{"POLLIN"}, {"POLLOUT"}}, Poll(p, ev) PROVE DevTypeOK'
  BY <1>0, <1>7 DEF Poll, DevTypeOK, CallTypeOK
<1>8. ASSUME NEW p \in Procs, RdSignal(p) PROVE DevTypeOK'
  BY <1>0, <1>8 DEF RdSignal, DevTypeOK, CallTypeOK
<1>9. ASSUME NEW p \in Procs, WrSignal(p) PROVE DevTypeOK'
  BY <1>0, <1>9 DEF WrSignal, DevTypeOK, CallTypeOK
<1>10. ASSUME NEW p \in Procs, PlSignal(p) PROVE DevTypeOK'
  BY <1>0, <1>10 DEF PlSignal, DevTypeOK, CallTypeOK
<1>11. ASSUME NEW p \in Procs, RdTry(p) PROVE DevTypeOK'
  BY <1>0, <1>11 DEF RdTry, DevTypeOK, CallTypeOK
<1>12. ASSUME NEW p \in Procs, RdLock(p) PROVE DevTypeOK'
  <2>1. CASE msg_list = <<>>
    BY <1>0, <1>12, <2>1 DEF RdLock, DevTypeOK
  <2>2. CASE msg_list # <<>>
    <3>1. /\ msg_list' = Tail(msg_list) /\ lock' = p
          /\ bytes_out' = bytes_out + Head(msg_list).len
          /\ UNCHANGED <<queued_bytes, bytes_in, waitVars, fileVars>>
      BY <1>12, <2>2 DEF RdLock
    <3>2. Tail(msg_list) \in Seq(Msg) /\ Head(msg_list).len \in Nat
      BY <1>0, <2>2, TailFacts, MsgFields DEF DevTypeOK
    <3>. QED
      BY <1>0, <3>1, <3>2 DEF DevTypeOK
  <2>. QED
    BY <2>1, <2>2
<1>13. ASSUME NEW p \in Procs, WrCheck(p) PROVE DevTypeOK'
  BY <1>0, <1>13 DEF WrCheck, DevTypeOK, CallTypeOK
<1>14. ASSUME NEW p \in Procs, WrLock(p) PROVE DevTypeOK'
  BY <1>0, <1>14, AppendFacts DEF WrLock, DevTypeOK, CallTypeOK, Msg
<1>15. ASSUME NEW p \in Procs, PlCheck(p) PROVE DevTypeOK'
  BY <1>0, <1>15 DEF PlCheck, DevTypeOK, CallTypeOK
<1>16. ASSUME NEW p \in Procs, RdWait(p) PROVE DevTypeOK'
  BY <1>0, <1>16 DEF RdWait, DevTypeOK, CallTypeOK
<1>17. ASSUME NEW p \in Procs, RdCond(p) PROVE DevTypeOK'
  BY <1>0, <1>17 DEF RdCond, DevTypeOK, CallTypeOK
<1>18. ASSUME NEW p \in Procs, RdBytes(p) PROVE DevTypeOK'
  <2>1. loaded /\ queued_bytes = bytes_in - bytes_out + m[p].len
    BY <1>18 DEF IInv, CallsInProgress, BytesExact, RdBytes
  <2>2. bytes_out <= bytes_in
    <3>1. CASE msg_list = <<>>
      BY <1>0, <3>1 DEF IInv, StreamInOrder, DevTypeOK
    <3>2. CASE msg_list # <<>>
      <4>1. 1 \in 1..Len(msg_list) /\ msg_list[1].at \in Nat /\ msg_list[1].len \in Nat
        BY <1>0, <3>2, TailFacts, MsgFields DEF DevTypeOK
      <4>2. msg_list[1].at = bytes_out /\ msg_list[1].at + msg_list[1].len <= bytes_in
        BY <3>2, <4>1 DEF IInv, StreamInOrder
      <4>. QED
        BY <1>0, <4>1, <4>2 DEF DevTypeOK
    <3>. QED
      BY <3>1, <3>2
  <2>3. m[p].len \in Nat
    BY <1>0, MsgFields DEF CallTypeOK
  <2>4. queued_bytes' = queued_bytes - m[p].len
    BY <1>18 DEF RdBytes
  <2>5. queued_bytes' \in Nat
    BY <1>0, <2>1, <2>2, <2>3, <2>4 DEF DevTypeOK
  <2>. QED
    BY <1>0, <1>18, <2>5 DEF RdBytes, DevTypeOK
<1>19. ASSUME NEW p \in Procs, RdCopy(p) PROVE DevTypeOK'
  BY <1>0, <1>19 DEF RdCopy, DevTypeOK, CallTypeOK
<1>20. ASSUME NEW p \in Procs, WrWait(p) PROVE DevTypeOK'
  BY <1>0, <1>20 DEF WrWait, DevTypeOK, CallTypeOK
<1>21. ASSUME NEW p \in Procs, WrCond(p) PROVE DevTypeOK'
  BY <1>0, <1>21 DEF WrCond, DevTypeOK, CallTypeOK
<1>22. ASSUME NEW p \in Procs, WrAlloc(p) PROVE DevTypeOK'
  BY <1>0, <1>22 DEF WrAlloc, DevTypeOK, CallTypeOK
<1>23. ASSUME NEW p \in Procs, WrBytes(p) PROVE DevTypeOK'
  BY <1>0, <1>23 DEF WrBytes, DevTypeOK, CallTypeOK
<1>24. ASSUME NEW p \in Procs, WrWake(p) PROVE DevTypeOK'
  BY <1>0, <1>24 DEF WrWake, DevTypeOK, CallTypeOK
<1>25. ASSUME NEW p \in Procs, PlWoken(p) PROVE DevTypeOK'
  BY <1>0, <1>25 DEF PlWoken, DevTypeOK, CallTypeOK
<1>26. CASE UNCHANGED vars
  BY <1>0, <1>26 DEF vars, DevTypeOK, CallTypeOK
<1>. QED
  BY <1>1, <1>2, <1>3, <1>4, <1>5, <1>6, <1>7, <1>8, <1>9, <1>10, <1>11, <1>12, <1>13, <1>14, <1>15, <1>16, <1>17, <1>18, <1>19, <1>20, <1>21, <1>22, <1>23, <1>24, <1>25, <1>26 DEF Next, Call, Signal, LockStep, RunStep

\* What a call's return, or a jump inside it, does to the types of the calls.
LEMMA ReturnTypes ==
  ASSUME CallTypeOK, NEW p \in Procs, NEW v \in Int, Return(p, v)
  PROVE  CallTypeOK'
<1>1. ret' \in [Procs -> Int] /\ writes' \in Nat
  BY DEF CallTypeOK
<1>2. m' \in [Procs -> Msg \cup {NoMsg}]
  BY DEF CallTypeOK
<1>3. events' \in [Procs -> SUBSET {"POLLIN", "POLLOUT"}]
  BY DEF CallTypeOK
<1>4. count' \in [Procs -> Nat] /\ pc' \in [Procs -> Pcs]
  BY DEF CallTypeOK
<1>. QED
  BY <1>1, <1>2, <1>3, <1>4 DEF CallTypeOK

\* A step to another program point keeps the types of the calls.
LEMMA GotoTypes ==
  ASSUME CallTypeOK, NEW p \in Procs, NEW l \in Pcs, Goto(p, l), UNCHANGED <<callVars, ret>>
  PROVE  CallTypeOK'
  BY DEF CallTypeOK


\* The calls in progress keep their types.
LEMMA CallTypeStep == IInv /\ [Next]_vars => CallTypeOK'
<1> SUFFICES ASSUME IInv, [Next]_vars PROVE CallTypeOK'
  OBVIOUS
<1>. HIDE DEF Return, Goto
<1>0. msg_list \in Seq(Msg) /\ CallTypeOK
  BY DEF IInv, TypeOK, DevTypeOK, CallTypeOK
<1>1. CASE M2MInit
  BY <1>0, <1>1 DEF M2MInit, CallTypeOK
<1>2. CASE M2MExit
  BY <1>0, <1>2 DEF M2MExit, CallTypeOK
<1>3. ASSUME NEW p \in Procs, NEW mode \in {"block", "nonblock"}, Open(p, mode) PROVE CallTypeOK'
  BY <1>0, <1>3, ReturnTypes, GotoTypes DEF Open
<1>4. ASSUME NEW p \in Procs, Release(p) PROVE CallTypeOK'
  BY <1>0, <1>4, ReturnTypes, GotoTypes DEF Release
<1>5. ASSUME NEW p \in Procs, NEW n \in Counts, Read(p, n) PROVE CallTypeOK'
  BY <1>0, <1>5 DEF Read, CallTypeOK, Goto
<1>6. ASSUME NEW p \in Procs, NEW n \in Counts, p \in Writers, Write(p, n) PROVE CallTypeOK'
  <2>1. CASE n = 0 \/ n > MAX_MSG
    BY <1>0, <1>6, <2>1, ReturnTypes DEF Write
  <2>2. CASE ~(n = 0 \/ n > MAX_MSG)
    <3>1. /\ Enter(p, "wr_check") /\ count' = [count EXCEPT ![p] = n]
          /\ writes' = writes + 1 /\ UNCHANGED <<events, m>>
      BY <1>6, <2>2 DEF Write
    <3>. QED
      BY <1>0, <3>1 DEF CallTypeOK, Goto, Enter
  <2>. QED
    BY <2>1, <2>2
<1>7. ASSUME NEW p \in Procs, NEW ev \in {{"POLLIN"}, {"POLLOUT"}}, Poll(p, ev) PROVE CallTypeOK'
  BY <1>0, <1>7 DEF Poll, CallTypeOK, Goto
<1>8. ASSUME NEW p \in Procs, RdSignal(p) PROVE CallTypeOK'
  BY <1>0, <1>8, ReturnTypes, GotoTypes DEF RdSignal
<1>9. ASSUME NEW p \in Procs, WrSignal(p) PROVE CallTypeOK'
  BY <1>0, <1>9, ReturnTypes, GotoTypes DEF WrSignal
<1>10. ASSUME NEW p \in Procs, PlSignal(p) PROVE CallTypeOK'
  BY <1>0, <1>10, ReturnTypes, GotoTypes DEF PlSignal
<1>11. ASSUME NEW p \in Procs, RdTry(p) PROVE CallTypeOK'
  BY <1>0, <1>11, ReturnTypes, GotoTypes DEF RdTry
<1>12. ASSUME NEW p \in Procs, RdLock(p) PROVE CallTypeOK'
  <2>1. CASE msg_list = <<>>
    BY <1>0, <1>12, <2>1, ReturnTypes DEF RdLock
  <2>2. CASE msg_list # <<>>
    <3>1. m' = [m EXCEPT ![p] = Head(msg_list)] /\ Goto(p, "rd_bytes")
          /\ UNCHANGED <<count, events, writes, ret>>
      BY <1>12, <2>2 DEF RdLock
    <3>2. Head(msg_list) \in Msg
      BY <1>0, <2>2, TailFacts
    <3>. QED
      BY <1>0, <3>1, <3>2 DEF CallTypeOK, Goto
  <2>. QED
    BY <2>1, <2>2
<1>13. ASSUME NEW p \in Procs, WrCheck(p) PROVE CallTypeOK'
  BY <1>0, <1>13, ReturnTypes, GotoTypes DEF WrCheck
<1>14. ASSUME NEW p \in Procs, WrLock(p) PROVE CallTypeOK'
  BY <1>0, <1>14, ReturnTypes, GotoTypes DEF WrLock
<1>15. ASSUME NEW p \in Procs, PlCheck(p) PROVE CallTypeOK'
  BY <1>0, <1>15, ReturnTypes, GotoTypes DEF PlCheck
<1>16. ASSUME NEW p \in Procs, RdWait(p) PROVE CallTypeOK'
  BY <1>0, <1>16, ReturnTypes, GotoTypes DEF RdWait
<1>17. ASSUME NEW p \in Procs, RdCond(p) PROVE CallTypeOK'
  BY <1>0, <1>17, ReturnTypes, GotoTypes DEF RdCond
<1>18. ASSUME NEW p \in Procs, RdBytes(p) PROVE CallTypeOK'
  BY <1>0, <1>18, ReturnTypes, GotoTypes DEF RdBytes
<1>19. ASSUME NEW p \in Procs, RdCopy(p) PROVE CallTypeOK'
  <2>1. \A v \in {Min2(count[p], m[p].len), EFAULT} : v \in Int
    BY <1>0, MsgFields DEF CallTypeOK
  <2>. QED
    BY <1>0, <1>19, <2>1, ReturnTypes DEF RdCopy
<1>20. ASSUME NEW p \in Procs, WrWait(p) PROVE CallTypeOK'
  BY <1>0, <1>20, ReturnTypes, GotoTypes DEF WrWait
<1>21. ASSUME NEW p \in Procs, WrCond(p) PROVE CallTypeOK'
  BY <1>0, <1>21, ReturnTypes, GotoTypes DEF WrCond
<1>22. ASSUME NEW p \in Procs, WrAlloc(p) PROVE CallTypeOK'
  BY <1>0, <1>22, ReturnTypes, GotoTypes DEF WrAlloc
<1>23. ASSUME NEW p \in Procs, WrBytes(p) PROVE CallTypeOK'
  BY <1>0, <1>23, ReturnTypes, GotoTypes DEF WrBytes
<1>24. ASSUME NEW p \in Procs, WrWake(p) PROVE CallTypeOK'
  BY <1>0, <1>24, ReturnTypes DEF WrWake, CallTypeOK
<1>25. ASSUME NEW p \in Procs, PlWoken(p) PROVE CallTypeOK'
  BY <1>0, <1>25, ReturnTypes, GotoTypes DEF PlWoken
<1>26. CASE UNCHANGED vars
  BY <1>0, <1>26 DEF vars, CallTypeOK
<1>. QED
  BY <1>1, <1>2, <1>3, <1>4, <1>5, <1>6, <1>7, <1>8, <1>9, <1>10, <1>11, <1>12, <1>13, <1>14, <1>15, <1>16, <1>17, <1>18, <1>19, <1>20, <1>21, <1>22, <1>23, <1>24, <1>25, <1>26 DEF Next, Call, Signal, LockStep, RunStep

---------------------------------------------------------------------------
(* The capacity bound.                                                     *)

\* A step that changes neither the byte count nor the writers in flight nor
\* their counts keeps the reserve.
LEMMA ReserveFrame ==
  ASSUME CapacityReserve, InFlight' = InFlight, queued_bytes' = queued_bytes,
         \A q \in InFlight : count'[q] = count[q]
  PROVE  CapacityReserve'
  BY DEF CapacityReserve

\* A writer that gives up returns a whole message to the reserve.
LEMMA ReserveGiveUp ==
  ASSUME TypeOK, CallsInProgress, CapacityReserve, NEW p \in InFlight,
         InFlight' = InFlight \ {p}, queued_bytes' = queued_bytes
  PROVE  CapacityReserve'
<1>. DEFINE k == Cardinality(InFlight)  W == Cardinality(Writers)
<1>1. k \in Nat /\ W \in Nat /\ k >= 1 /\ Cardinality(InFlight') = k - 1
  <2>1. Cardinality(InFlight) # 0
    BY InFlightFinite, FS_EmptySet
  <2>2. Cardinality(InFlight \ {p}) = Cardinality(InFlight) - 1
    BY InFlightFinite, FS_RemoveElement
  <2>. QED
    BY <2>1, <2>2, InFlightFinite
<1>2. k * MAX_MSG = (k - 1) * MAX_MSG + MAX_MSG /\ W * MAX_MSG \in Nat /\ (k - 1) * MAX_MSG \in Nat
  BY <1>1
<1>3. queued_bytes \in Nat /\ \A q \in InFlight : count[q] \in 1..MAX_MSG
  BY DEF TypeOK, DevTypeOK, CallsInProgress, InFlight
<1>4. PICK c \in 0..MAX_MSG : queued_bytes + k * MAX_MSG <= (MAX_BYTES + W * MAX_MSG) - c
  <2>1. CASE queued_bytes + k * MAX_MSG <= (MAX_BYTES + W * MAX_MSG) - MAX_MSG
    BY <2>1
  <2>2. ASSUME NEW q \in InFlight,
               queued_bytes + k * MAX_MSG <= (MAX_BYTES + W * MAX_MSG) - count[q]
        PROVE  \E c \in 0..MAX_MSG : queued_bytes + k * MAX_MSG <= (MAX_BYTES + W * MAX_MSG) - c
    BY <1>3, <2>2
  <2>. QED
    BY <2>1, <2>2 DEF CapacityReserve
<1>. HIDE DEF k, W
<1>5. queued_bytes + (k - 1) * MAX_MSG <= (MAX_BYTES + W * MAX_MSG) - MAX_MSG
  BY <1>1, <1>2, <1>3, <1>4
<1>. QED
  BY <1>1, <1>5 DEF CapacityReserve, k, W

\* A writer that queues its message turns its reserve into bytes.
LEMMA ReserveQueued ==
  ASSUME TypeOK, CallsInProgress, CapacityReserve, NEW p \in InFlight,
         InFlight' = InFlight \ {p}, queued_bytes' = queued_bytes + count[p],
         count' = count
  PROVE  CapacityReserve'
<1>. DEFINE k == Cardinality(InFlight)  W == Cardinality(Writers)
            cap == MAX_BYTES + W * MAX_MSG
<1>1. k \in Nat /\ W \in Nat /\ k >= 1 /\ Cardinality(InFlight') = k - 1
  <2>1. Cardinality(InFlight) # 0
    BY InFlightFinite, FS_EmptySet
  <2>2. Cardinality(InFlight \ {p}) = Cardinality(InFlight) - 1
    BY InFlightFinite, FS_RemoveElement
  <2>. QED
    BY <2>1, <2>2, InFlightFinite
<1>2. k * MAX_MSG = (k - 1) * MAX_MSG + MAX_MSG /\ W * MAX_MSG \in Nat /\ (k - 1) * MAX_MSG \in Nat
  BY <1>1
<1>3. queued_bytes \in Nat /\ \A q \in InFlight : count[q] \in 1..MAX_MSG
  BY DEF TypeOK, DevTypeOK, CallsInProgress, InFlight
<1>4. \/ queued_bytes + k * MAX_MSG <= cap - MAX_MSG
      \/ \E q \in InFlight : queued_bytes + k * MAX_MSG <= cap - count[q]
  BY DEF CapacityReserve
<1>5. SUFFICES \/ queued_bytes + count[p] + (k - 1) * MAX_MSG <= cap - MAX_MSG
               \/ \E q \in InFlight \ {p} :
                    queued_bytes + count[p] + (k - 1) * MAX_MSG <= cap - count[q]
  BY <1>1 DEF CapacityReserve
<1>. HIDE DEF k, W
<1>6. CASE queued_bytes + k * MAX_MSG <= cap - MAX_MSG
  BY <1>1, <1>2, <1>3, <1>6
<1>7. ASSUME NEW q \in InFlight, queued_bytes + k * MAX_MSG <= cap - count[q]
      PROVE  \/ queued_bytes + count[p] + (k - 1) * MAX_MSG <= cap - MAX_MSG
             \/ \E r \in InFlight \ {p} :
                  queued_bytes + count[p] + (k - 1) * MAX_MSG <= cap - count[r]
  <2>1. CASE q = p
    BY <1>1, <1>2, <1>3, <1>7, <2>1
  <2>2. CASE q # p
    <3>1. queued_bytes + count[p] + (k - 1) * MAX_MSG <= cap - count[q]
      BY <1>1, <1>2, <1>3, <1>7
    <3>. QED
      BY <2>2, <3>1
  <2>. QED
    BY <2>1, <2>2
<1>. QED
  BY <1>4, <1>6, <1>7

\* A writer that passes the test leaves room for its own message.
LEMMA ReserveTaken ==
  ASSUME TypeOK, CallsInProgress, CallsInProgress', TypeOK', CapacityReserve,
         NEW p \in Procs, p \notin InFlight, count[p] \in Nat,
         InFlight' = InFlight \cup {p}, queued_bytes' = queued_bytes, count' = count,
         Fits(p)
  PROVE  CapacityReserve'
<1>. DEFINE k == Cardinality(InFlight)  W == Cardinality(Writers)
<1>1. k \in Nat /\ W \in Nat /\ Cardinality(InFlight') = k + 1
  BY InFlightFinite, FS_AddElement, FS_CardinalityType
<1>2. InFlight' \subseteq Writers
  BY DEF InFlight, CallsInProgress
<1>3. k + 1 <= W
  BY <1>1, <1>2, InFlightFinite, FS_Subset
<1>4. (k + 1) * MAX_MSG <= W * MAX_MSG
  BY <1>1, <1>3, TimesMonotone
<1>5. queued_bytes \in Nat /\ (k + 1) * MAX_MSG \in Nat /\ W * MAX_MSG \in Nat
  BY <1>1 DEF TypeOK, DevTypeOK
<1>. HIDE DEF k, W
<1>6. queued_bytes + (k + 1) * MAX_MSG <= (MAX_BYTES + W * MAX_MSG) - count[p]
  BY <1>4, <1>5
<1>7. p \in InFlight' /\ queued_bytes' + Cardinality(InFlight') * MAX_MSG
                           <= (MAX_BYTES + Cardinality(Writers) * MAX_MSG) - count'[p]
  BY <1>1, <1>6 DEF k, W
<1>. QED
  BY <1>7 DEF CapacityReserve

\* What most steps do to the reserve: nothing.
Unmoved ==
  /\ InFlight' = InFlight /\ queued_bytes' = queued_bytes
  /\ \A q \in InFlight : count'[q] = count[q]


\* The reserve through every action.
LEMMA CapacityStep == IInv /\ [Next]_vars => CapacityReserve'
<1> SUFFICES ASSUME IInv, [Next]_vars PROVE CapacityReserve'
  OBVIOUS
<1>0. TypeOK /\ CallTypeOK /\ DevTypeOK /\ CallsInProgress /\ CapacityReserve
  BY DEF IInv, TypeOK, DevTypeOK, CallTypeOK
<1>00. TypeOK' /\ CallsInProgress'
  BY DevTypeStep, CallTypeStep, CallsStep DEF TypeOK
<1>1. CASE M2MInit
  <2>1. InFlight' = {} /\ queued_bytes' = 0
    BY <1>0, <1>1 DEF M2MInit, CallsInProgress, InFlight
  <2>2. Cardinality(InFlight') = 0
    BY <2>1, FS_EmptySet
  <2>3. Cardinality(Writers) \in Nat /\ Cardinality(Writers) # 0
    BY <1>0, InFlightFinite, FS_EmptySet
  <2>4. 1 * MAX_MSG <= Cardinality(Writers) * MAX_MSG
    BY <2>3, TimesMonotone
  <2>. QED
    BY <2>1, <2>2, <2>3, <2>4 DEF CapacityReserve
<1>2. ASSUME M2MExit PROVE Unmoved
  BY <1>0, <1>2 DEF M2MExit, CallTypeOK, InFlight, Unmoved
<1>3. ASSUME NEW p \in Procs, NEW mode \in {"block", "nonblock"}, Open(p, mode) PROVE Unmoved
  BY <1>0, <1>3 DEF Open, CallTypeOK, InFlight, Unmoved
<1>4. ASSUME NEW p \in Procs, Release(p) PROVE Unmoved
  BY <1>0, <1>4 DEF Release, CallTypeOK, InFlight, Unmoved
<1>5. ASSUME NEW p \in Procs, NEW n \in Counts, Read(p, n) PROVE Unmoved
  BY <1>0, <1>5 DEF Read, CallTypeOK, InFlight, Unmoved
<1>6. ASSUME NEW p \in Procs, NEW n \in Counts, p \in Writers, Write(p, n) PROVE Unmoved
  BY <1>0, <1>6 DEF Write, CallTypeOK, InFlight, Unmoved
<1>7. ASSUME NEW p \in Procs, NEW ev \in {{"POLLIN"}, {"POLLOUT"}}, Poll(p, ev) PROVE Unmoved
  BY <1>0, <1>7 DEF Poll, CallTypeOK, InFlight, Unmoved
<1>8. ASSUME NEW p \in Procs, RdSignal(p) PROVE Unmoved
  BY <1>0, <1>8 DEF RdSignal, CallTypeOK, InFlight, Unmoved
<1>9. ASSUME NEW p \in Procs, WrSignal(p) PROVE Unmoved
  BY <1>0, <1>9 DEF WrSignal, CallTypeOK, InFlight, Unmoved
<1>10. ASSUME NEW p \in Procs, PlSignal(p) PROVE Unmoved
  BY <1>0, <1>10 DEF PlSignal, CallTypeOK, InFlight, Unmoved
<1>11. ASSUME NEW p \in Procs, RdTry(p) PROVE Unmoved
  BY <1>0, <1>11 DEF RdTry, CallTypeOK, InFlight, Unmoved
<1>12. ASSUME NEW p \in Procs, RdLock(p) PROVE Unmoved
  BY <1>0, <1>12 DEF RdLock, CallTypeOK, InFlight, Unmoved
<1>13. ASSUME NEW p \in Procs, WrCheck(p) PROVE CapacityReserve'
  <2>1. CASE Fits(p) /\ Goto(p, "wr_alloc")
    <3>1. /\ InFlight' = InFlight \cup {p} /\ p \notin InFlight
          /\ queued_bytes' = queued_bytes /\ count' = count
      BY <1>0, <1>13, <2>1 DEF WrCheck, CallTypeOK, InFlight
    <3>2. count[p] \in Nat /\ Fits(p)
      BY <1>0, <2>1 DEF CallTypeOK
    <3>. QED
      BY <1>0, <1>00, <3>1, <3>2, ReserveTaken
  <2>2. CASE Return(p, EAGAIN) \/ Goto(p, "wr_wait")
    <3>1. Unmoved
      BY <1>0, <1>13, <2>2 DEF WrCheck, CallTypeOK, InFlight, Unmoved
    <3>. QED
      BY <1>0, <3>1, ReserveFrame DEF Unmoved
  <2>. QED
    BY <1>13, <2>1, <2>2 DEF WrCheck
<1>14. ASSUME NEW p \in Procs, WrLock(p) PROVE Unmoved
  BY <1>0, <1>14 DEF WrLock, CallTypeOK, InFlight, Unmoved
<1>15. ASSUME NEW p \in Procs, PlCheck(p) PROVE Unmoved
  BY <1>0, <1>15 DEF PlCheck, CallTypeOK, InFlight, Unmoved
<1>16. ASSUME NEW p \in Procs, RdWait(p) PROVE Unmoved
  BY <1>0, <1>16 DEF RdWait, CallTypeOK, InFlight, Unmoved
<1>17. ASSUME NEW p \in Procs, RdCond(p) PROVE Unmoved
  BY <1>0, <1>17 DEF RdCond, CallTypeOK, InFlight, Unmoved
<1>18. ASSUME NEW p \in Procs, RdBytes(p) PROVE CapacityReserve'
  <2>1. InFlight' = InFlight /\ count' = count /\ queued_bytes' = queued_bytes - m[p].len
    BY <1>0, <1>18 DEF RdBytes, CallTypeOK, InFlight
  <2>2. m[p].len \in Nat /\ queued_bytes \in Nat /\ \A q \in InFlight : count[q] \in Nat
    BY <1>0, MsgFields DEF CallTypeOK, DevTypeOK, InFlight
  <2>3. Cardinality(InFlight) * MAX_MSG \in Nat /\ Cardinality(Writers) * MAX_MSG \in Nat
    BY <1>0, InFlightFinite
  <2>. QED
    BY <1>0, <2>1, <2>2, <2>3 DEF CapacityReserve
<1>19. ASSUME NEW p \in Procs, RdCopy(p) PROVE Unmoved
  BY <1>0, <1>19 DEF RdCopy, CallTypeOK, InFlight, Unmoved
<1>20. ASSUME NEW p \in Procs, WrWait(p) PROVE Unmoved
  BY <1>0, <1>20 DEF WrWait, CallTypeOK, InFlight, Unmoved
<1>21. ASSUME NEW p \in Procs, WrCond(p) PROVE Unmoved
  BY <1>0, <1>21 DEF WrCond, CallTypeOK, InFlight, Unmoved
<1>22. ASSUME NEW p \in Procs, WrAlloc(p) PROVE CapacityReserve'
  <2>1. CASE Return(p, ENOMEM) \/ Return(p, EFAULT)
    <3>1. p \in InFlight /\ InFlight' = InFlight \ {p} /\ queued_bytes' = queued_bytes
      BY <1>0, <1>22, <2>1 DEF WrAlloc, CallTypeOK, InFlight
    <3>. QED
      BY <1>0, <3>1, ReserveGiveUp
  <2>2. CASE Goto(p, "wr_lock") /\ UNCHANGED <<callVars, ret>>
    <3>1. Unmoved
      BY <1>0, <1>22, <2>2 DEF WrAlloc, CallTypeOK, InFlight, Unmoved
    <3>. QED
      BY <1>0, <3>1, ReserveFrame DEF Unmoved
  <2>. QED
    BY <1>22, <2>1, <2>2 DEF WrAlloc
<1>23. ASSUME NEW p \in Procs, WrBytes(p) PROVE CapacityReserve'
  <2>1. /\ p \in InFlight /\ InFlight' = InFlight \ {p}
        /\ queued_bytes' = queued_bytes + count[p] /\ count' = count
    BY <1>0, <1>23 DEF WrBytes, CallTypeOK, InFlight
  <2>. QED
    BY <1>0, <2>1, ReserveQueued
<1>24. ASSUME NEW p \in Procs, WrWake(p) PROVE Unmoved
  BY <1>0, <1>24 DEF WrWake, CallTypeOK, InFlight, Unmoved
<1>25. ASSUME NEW p \in Procs, PlWoken(p) PROVE Unmoved
  BY <1>0, <1>25 DEF PlWoken, CallTypeOK, InFlight, Unmoved
<1>26. ASSUME UNCHANGED vars PROVE Unmoved
  BY <1>0, <1>26 DEF vars, InFlight, Unmoved
<1>27. Unmoved => CapacityReserve'
  BY <1>0, ReserveFrame DEF Unmoved
<1>. QED
  BY <1>1, <1>2, <1>3, <1>4, <1>5, <1>6, <1>7, <1>8, <1>9, <1>10, <1>11, <1>12, <1>13, <1>14, <1>15, <1>16, <1>17, <1>18, <1>19, <1>20, <1>21, <1>22, <1>23, <1>24, <1>25, <1>26, <1>27
     DEF Next, Call, Signal, LockStep, RunStep

\* The reserve bounds the byte count.
LEMMA ReserveBounds == TypeOK /\ CallsInProgress /\ CapacityReserve => SoftCapacity
<1>. SUFFICES ASSUME TypeOK, CallsInProgress, CapacityReserve PROVE SoftCapacity
  OBVIOUS
<1>. DEFINE k == Cardinality(InFlight)  W == Cardinality(Writers)
<1>1. k \in Nat /\ W \in Nat /\ k * MAX_MSG \in Nat /\ W * MAX_MSG \in Nat
  BY InFlightFinite
<1>2. (W - 1) * MAX_MSG = W * MAX_MSG - MAX_MSG
  BY <1>1
<1>3. queued_bytes \in Nat /\ \A q \in InFlight : count[q] \in 1..MAX_MSG
  BY DEF TypeOK, DevTypeOK, CallsInProgress, InFlight
<1>4. InFlight # {} => 1 * MAX_MSG <= k * MAX_MSG
  <2>. SUFFICES ASSUME InFlight # {} PROVE 1 <= k
    BY <1>1, TimesMonotone
  <2>. QED
    BY <1>1, InFlightFinite, FS_EmptySet
<1>5. \/ queued_bytes + k * MAX_MSG <= (MAX_BYTES + W * MAX_MSG) - MAX_MSG
      \/ \E q \in InFlight : queued_bytes + k * MAX_MSG <= (MAX_BYTES + W * MAX_MSG) - count[q]
  BY DEF CapacityReserve
<1>. HIDE DEF k, W
<1>6. queued_bytes <= MAX_BYTES + (W - 1) * MAX_MSG
  BY <1>1, <1>2, <1>3, <1>4, <1>5
<1>. QED
  BY <1>6 DEF SoftCapacity, W

---------------------------------------------------------------------------
(* The theorems.                                                           *)

\* IInv holds at the start.
LEMMA InitIInv == Init => IInv
<1>. SUFFICES ASSUME Init PROVE IInv
  OBVIOUS
<1>1. TypeOK
  BY DEF Init, TypeOK, DevTypeOK, CallTypeOK
<1>2. CallsInProgress /\ MutexHeld /\ BytesExact /\ ReaderNotStranded /\ WriterNotStranded
        /\ PollerNotStranded
  BY DEF Init, CallsInProgress, MutexHeld, BytesExact, ReaderNotStranded, WriterNotStranded,
         PollerNotStranded
<1>3. StreamInOrder
  BY DEF Init, StreamInOrder
<1>4. CapacityReserve
  <2>1. InFlight = {} /\ queued_bytes = 0
    BY DEF Init, InFlight
  <2>2. Cardinality(InFlight) = 0
    BY <2>1, FS_EmptySet
  <2>3. Cardinality(Writers) \in Nat /\ Cardinality(Writers) # 0
    BY <1>1, <1>2, InFlightFinite, FS_EmptySet
  <2>4. 1 * MAX_MSG <= Cardinality(Writers) * MAX_MSG
    BY <2>3, TimesMonotone
  <2>. QED
    BY <2>1, <2>2, <2>3, <2>4 DEF CapacityReserve
<1>. QED
  BY <1>1, <1>2, <1>3, <1>4 DEF IInv

\* IInv through every step of the driver.
LEMMA NextIInv == IInv /\ [Next]_vars => IInv'
  BY DevTypeStep, CallTypeStep, CallsStep, MutexStep, StreamStep, BytesStep, CapacityStep,
     ReaderStep, WriterStep, PollerStep DEF IInv, TypeOK

\* IInv is an invariant of the driver.
THEOREM Invariant == Spec => []IInv
  BY InitIInv, NextIInv, PTL DEF Spec

\* Every variable of the driver keeps its type; in particular the unsigned
\* queued_bytes never wraps around in m2m_read.
THEOREM TypeCorrect == Spec => []TypeOK
<1>1. IInv => TypeOK
  BY DEF IInv
<1>. QED
  BY <1>1, Invariant, PTL

\* The list of m2m_write and m2m_read loses, duplicates and reorders nothing.
THEOREM StreamCorrect == Spec => []StreamInOrder
<1>1. IInv => StreamInOrder
  BY DEF IInv
<1>. QED
  BY <1>1, Invariant, PTL

\* The byte count is exact outside the critical sections of dev->lock.
THEOREM BytesCorrect == Spec => []BytesExact
<1>1. IInv => BytesExact
  BY DEF IInv
<1>. QED
  BY <1>1, Invariant, PTL

\* The capacity test of m2m_write bounds the queue up to one message for each
\* other writer.
THEOREM CapacityBound == Spec => []SoftCapacity
<1>1. IInv => SoftCapacity
  BY ReserveBounds DEF IInv
<1>. QED
  BY <1>1, Invariant, PTL

\* No wake-up of a sleeping reader is lost.
THEOREM ReaderWakeUp == Spec => []ReaderNotStranded
<1>1. IInv => ReaderNotStranded
  BY DEF IInv
<1>. QED
  BY <1>1, Invariant, PTL

\* No wake-up of a sleeping writer is lost, a faulting reader included.
THEOREM WriterWakeUp == Spec => []WriterNotStranded
<1>1. IInv => WriterNotStranded
  BY DEF IInv
<1>. QED
  BY <1>1, Invariant, PTL

\* No wake-up of a sleeping poller is lost.
THEOREM PollerWakeUp == Spec => []PollerNotStranded
<1>1. IInv => PollerNotStranded
  BY DEF IInv
<1>. QED
  BY <1>1, Invariant, PTL

---------------------------------------------------------------------------
(* The counts of open files.                                               *)

\* The processes with an open file.
OpenFiles == {p \in Procs : file[p] # "closed"}

\* Only load, unload, open and release touch the files and their counts.
LEMMA FilesFrame ==
  ASSUME [Next]_vars
  PROVE  \/ M2MInit
         \/ M2MExit
         \/ \E p \in Procs : Release(p) \/ \E mode \in {"block", "nonblock"} : Open(p, mode)
         \/ UNCHANGED fileVars
<1>1. ASSUME NEW p \in Procs, Signal(p) PROVE UNCHANGED fileVars
  BY <1>1 DEF Signal, RdSignal, WrSignal, PlSignal
<1>2. ASSUME NEW p \in Procs, LockStep(p) PROVE UNCHANGED fileVars
  BY <1>2 DEF LockStep, RdTry, RdLock, WrCheck, WrLock, PlCheck
<1>3. ASSUME NEW p \in Procs, RunStep(p) PROVE UNCHANGED fileVars
  BY <1>3 DEF RunStep, RdWait, RdCond, RdBytes, RdCopy, WrWait, WrCond, WrAlloc, WrBytes,
              WrWake, PlWoken
<1>4. ASSUME NEW p \in Procs, NEW n, Read(p, n) \/ Write(p, n) \/ Poll(p, n)
      PROVE  UNCHANGED fileVars
  BY <1>4 DEF Read, Write, Poll
<1>5. CASE UNCHANGED vars
  BY <1>5 DEF vars
<1>. QED
  BY <1>1, <1>2, <1>3, <1>4, <1>5 DEF Next, Call

\* Each open counts one more file, each release one less, and a module that
\* is loaded afresh has no file open.
LEMMA OpenStep == IInv /\ OpenCounts /\ [Next]_vars => OpenCounts'
<1>. SUFFICES ASSUME IInv, OpenCounts, [Next]_vars PROVE OpenCounts'
  OBVIOUS
<1>1. /\ file \in [Procs -> {"closed", "block", "nonblock"}] /\ CallsInProgress
      /\ CallsInProgress'
  BY CallsStep DEF IInv, TypeOK, DevTypeOK
<1>2. /\ IsFiniteSet(OpenFiles) /\ Cardinality(OpenFiles) \in Nat
      /\ nreaders = Cardinality(OpenFiles) /\ nwriters = Cardinality(OpenFiles)
  <2>1. IsFiniteSet(OpenFiles)
    BY FS_Subset DEF OpenFiles
  <2>. QED
    BY <2>1, FS_CardinalityType DEF OpenCounts, OpenFiles
<1>3. (OpenFiles # {} => loaded)'
  BY <1>1 DEF CallsInProgress, OpenFiles
<1>4. SUFFICES /\ nreaders' = Cardinality(OpenFiles')
               /\ nwriters' = Cardinality(OpenFiles')
  BY <1>3 DEF OpenCounts, OpenFiles
<1>5. CASE M2MInit
  <2>1. OpenFiles' = {}
    BY <1>1, <1>5 DEF M2MInit, CallsInProgress, OpenFiles
  <2>. QED
    BY <1>5, <2>1, FS_EmptySet DEF M2MInit
<1>6. CASE M2MExit
  <2>1. OpenFiles' = OpenFiles
    BY <1>6 DEF M2MExit, OpenFiles
  <2>. QED
    BY <1>2, <1>6, <2>1 DEF M2MExit
<1>7. ASSUME NEW p \in Procs, NEW mode \in {"block", "nonblock"}, Open(p, mode)
      PROVE  nreaders' = Cardinality(OpenFiles') /\ nwriters' = Cardinality(OpenFiles')
  <2>1. CASE file' = [file EXCEPT ![p] = mode]
    <3>1. /\ OpenFiles' = OpenFiles \cup {p} /\ p \notin OpenFiles
          /\ nreaders' = nreaders + 1 /\ nwriters' = nwriters + 1
      BY <1>1, <1>7, <2>1 DEF Open, OpenFiles
    <3>. QED
      BY <1>2, <3>1, FS_AddElement
  <2>2. CASE UNCHANGED <<file, nreaders, nwriters>>
    <3>1. OpenFiles' = OpenFiles
      BY <2>2 DEF OpenFiles
    <3>. QED
      BY <1>2, <2>2, <3>1
  <2>. QED
    BY <1>7, <2>1, <2>2 DEF Open
<1>8. ASSUME NEW p \in Procs, Release(p)
      PROVE  nreaders' = Cardinality(OpenFiles') /\ nwriters' = Cardinality(OpenFiles')
  <2>1. /\ OpenFiles' = OpenFiles \ {p} /\ p \in OpenFiles
        /\ nreaders' = nreaders - 1 /\ nwriters' = nwriters - 1
    BY <1>1, <1>8 DEF Release, OpenFiles
  <2>. QED
    BY <1>2, <2>1, FS_RemoveElement
<1>9. CASE UNCHANGED fileVars
  <2>1. OpenFiles' = OpenFiles
    BY <1>9 DEF OpenFiles
  <2>. QED
    BY <1>2, <1>9, <2>1
<1>. QED
  BY <1>5, <1>6, <1>7, <1>8, <1>9, FilesFrame

\* The counts that m2m_open and m2m_release keep are the number of open files.
THEOREM OpenCountsCorrect == Spec => []OpenCounts
<1>1. Init => OpenCounts
  <2>. SUFFICES ASSUME Init PROVE OpenCounts
    OBVIOUS
  <2>1. {p \in Procs : file[p] # "closed"} = {} /\ nreaders = 0 /\ nwriters = 0
    BY DEF Init
  <2>. QED
    BY <2>1, FS_EmptySet DEF OpenCounts
<1>. QED
  BY <1>1, OpenStep, Invariant, PTL DEF Spec

---------------------------------------------------------------------------
(* The refinement of MsgQueue.  Every step of the driver is a step of the  *)
(* queue or changes nothing the caller can see.                            *)

\* A process that neither reads nor writes has no length and no message in
\* hand: a call that never touches the queue has nothing to forget.
LocalsClear ==
  \A p \in Procs : pc[p] \in {"idle"} \cup PollPcs => count[p] = 0 /\ m[p] = NoMsg

\* The caller's view of a call, for every program point.
LEMMA CallStates ==
  /\ \A l \in {"rd_try", "rd_wait", "rd_cond", "rd_sleep", "rd_lock"} : CallState(l) = "reading"
  /\ \A l \in {"rd_bytes", "rd_copy"} : CallState(l) = "took"
  /\ \A l \in {"wr_check", "wr_wait", "wr_cond", "wr_sleep", "wr_alloc", "wr_lock"} :
       CallState(l) = "writing"
  /\ \A l \in {"wr_bytes", "wr_wake"} : CallState(l) = "put"
  /\ \A l \in {"idle"} \cup PollPcs : CallState(l) = "idle"
  BY DEF CallState

\* list_add_tail and list_del act on the messages the callers see.
LEMMA ContentsAppend ==
  ASSUME NEW s \in Seq(Msg), NEW e \in Msg
  PROVE  Contents(Append(s, e)) = Append(Contents(s), [from |-> e.from, len |-> e.len])
<1>. DEFINE C == [from : Procs, len : Nat]  f == [from |-> e.from, len |-> e.len]
<1>1. \A x \in Msg : [from |-> x.from, len |-> x.len] \in C
  BY DEF Msg
<1>2. Contents(s) \in Seq(C) /\ Len(Contents(s)) = Len(s) /\ f \in C /\ Len(s) \in Nat
  BY <1>1 DEF Contents
<1>3. Contents(Append(s, e)) \in Seq(C) /\ Len(Contents(Append(s, e))) = Len(s) + 1
  BY <1>1, AppendFacts DEF Contents
<1>. HIDE DEF C, f
<1>4. /\ Append(Contents(s), f) \in Seq(C) /\ Len(Append(Contents(s), f)) = Len(s) + 1
      /\ \A i \in 1..Len(s) : Append(Contents(s), f)[i] = Contents(s)[i]
      /\ Append(Contents(s), f)[Len(s) + 1] = f
  BY <1>2
<1>5. ASSUME NEW i \in 1..(Len(s) + 1)
      PROVE  Contents(Append(s, e))[i] = Append(Contents(s), f)[i]
  <2>1. CASE i \in 1..Len(s)
    BY <1>4, <2>1, AppendFacts DEF Contents
  <2>2. CASE i = Len(s) + 1
    BY <1>4, <2>2, AppendFacts DEF Contents, f
  <2>. QED
    BY <1>2, <2>1, <2>2
<1>6. Contents(Append(s, e)) = Append(Contents(s), f)
  BY <1>3, <1>4, <1>5, SeqEqual, Zenon
<1>. QED
  BY <1>6 DEF f

\* A list without its first message.
LEMMA ContentsTail ==
  ASSUME NEW s \in Seq(Msg), s # <<>>
  PROVE  /\ Contents(s) # <<>> /\ Head(Contents(s)).len = Head(s).len
         /\ Contents(Tail(s)) = Tail(Contents(s))
<1>. DEFINE C == [from : Procs, len : Nat]
<1>1. \A x \in Msg : [from |-> x.from, len |-> x.len] \in C
  BY DEF Msg
<1>2. Contents(s) \in Seq(C) /\ Len(Contents(s)) = Len(s) /\ Len(s) >= 1
  BY <1>1, TailFacts DEF Contents
<1>3. Contents(Tail(s)) \in Seq(C) /\ Len(Contents(Tail(s))) = Len(s) - 1
  BY <1>1, TailFacts DEF Contents
<1>. HIDE DEF C
<1>4. Contents(s) # <<>> /\ Head(Contents(s)) = Contents(s)[1]
  BY <1>2
<1>5. /\ Tail(Contents(s)) \in Seq(C) /\ Len(Tail(Contents(s))) = Len(s) - 1
      /\ \A i \in 1..(Len(s) - 1) : Tail(Contents(s))[i] = Contents(s)[i+1]
  BY <1>2, <1>4, TailFacts
<1>6. ASSUME NEW i \in 1..(Len(s) - 1)
      PROVE  Contents(Tail(s))[i] = Tail(Contents(s))[i]
  <2>1. i \in 1..Len(Tail(s)) /\ i + 1 \in 1..Len(s) /\ Tail(s)[i] = s[i+1]
    BY TailFacts
  <2>. QED
    BY <1>5, <2>1 DEF Contents
<1>7. Contents(Tail(s)) = Tail(Contents(s))
  BY <1>3, <1>5, <1>6, SeqEqual, Zenon
<1>8. Contents(s)[1].len = s[1].len /\ Head(s) = s[1]
  BY <1>2, TailFacts DEF Contents
<1>. QED
  BY <1>4, <1>7, <1>8

\* The state of the calls and the lengths in hand, as the queue sees them.
StBar  == [p \in Procs |-> CallState(pc[p])]
GotBar == [p \in Procs |-> m[p].len]

\* A process that moves to program point l moves its call along.
LEMMA StMoves ==
  ASSUME pc \in [Procs -> Pcs], NEW p \in Procs, NEW l, Goto(p, l)
  PROVE  StBar' = [StBar EXCEPT ![p] = CallState(l)]
  BY DEF StBar

\* A process that takes or forgets a message.
LEMMA GotMoves ==
  ASSUME m \in [Procs -> Msg \cup {NoMsg}], NEW p \in Procs, NEW x,
         m' = [m EXCEPT ![p] = x]
  PROVE  GotBar' = [GotBar EXCEPT ![p] = x.len]
  BY DEF GotBar

\* A return to user space ends the call in the queue.
LEMMA ReturnEnds ==
  ASSUME CallTypeOK, NEW p \in Procs, NEW v, Return(p, v), UNCHANGED msg_list
  PROVE  Queue!End(p, v)
<1>1. StBar' = [StBar EXCEPT ![p] = "idle"]
  <2>1. StBar' = [StBar EXCEPT ![p] = CallState("idle")]
    BY StMoves DEF CallTypeOK
  <2>. QED
    BY <2>1, CallStates
<1>2. GotBar' = [GotBar EXCEPT ![p] = 0]
  <2>1. GotBar' = [GotBar EXCEPT ![p] = NoMsg.len]
    BY GotMoves DEF CallTypeOK
  <2>. QED
    BY <2>1
<1>3. Contents(msg_list)' = Contents(msg_list)
  BY DEF Contents
<1>. QED
  BY <1>1, <1>2, <1>3 DEF Queue!End, StBar, GotBar

\* A step within one of the phases of a call is invisible.
LEMMA StepInvisible ==
  ASSUME CallTypeOK, NEW p \in Procs, NEW l, Goto(p, l), CallState(l) = CallState(pc[p]),
         UNCHANGED <<msg_list, count, m, ret>>
  PROVE  UNCHANGED Queue!vars
<1>1. StBar' = StBar
  <2>1. StBar' = [StBar EXCEPT ![p] = CallState(l)]
    BY StMoves DEF CallTypeOK
  <2>. QED
    BY <2>1 DEF StBar
<1>2. GotBar' = GotBar
  BY DEF GotBar
<1>3. Contents(msg_list)' = Contents(msg_list)
  BY DEF Contents
<1>. QED
  BY <1>1, <1>2, <1>3 DEF Queue!vars, StBar, GotBar

\* A call that never reads nor writes leaves only its result.
LEMMA ReturnOther ==
  ASSUME CallTypeOK, LocalsClear, NEW p \in Procs, NEW v \in {0, 1, ENOMEM, EMSGSIZE},
         pc[p] \in {"idle"} \cup PollPcs, Return(p, v), UNCHANGED msg_list
  PROVE  Queue!Other(p)
<1>1. Queue!End(p, v)
  BY ReturnEnds
<1>2. count[p] = 0 /\ m[p].len = 0 /\ CallState(pc[p]) = "idle"
  BY CallStates DEF LocalsClear
<1>3. StBar' = StBar /\ GotBar' = GotBar /\ count' = count /\ StBar[p] = "idle"
  BY <1>1, <1>2 DEF CallTypeOK, Queue!End, StBar, GotBar
<1>. QED
  BY <1>1, <1>3 DEF Queue!End, Queue!Other, StBar, GotBar

\* Every return clears the locals; no poll sets them.
LEMMA LocalsStep == IInv /\ LocalsClear /\ [Next]_vars => LocalsClear'
<1>. SUFFICES ASSUME IInv, LocalsClear, [Next]_vars PROVE LocalsClear'
  OBVIOUS
<1>1. pc \in [Procs -> Pcs] /\ count \in [Procs -> Nat] /\ m \in [Procs -> Msg \cup {NoMsg}]
  BY DEF IInv, TypeOK, CallTypeOK
<1>2. CASE UNCHANGED <<callVars, pc>>
  BY <1>2 DEF LocalsClear
<1>3. ASSUME NEW p \in Procs, pc'[p] \notin {"idle"} \cup PollPcs,
             \A q \in Procs \ {p} : pc'[q] = pc[q] /\ count'[q] = count[q] /\ m'[q] = m[q]
      PROVE  LocalsClear'
  BY <1>3 DEF LocalsClear
<1>4. ASSUME NEW p \in Procs, NEW v, Return(p, v) PROVE LocalsClear'
  BY <1>1, <1>4 DEF LocalsClear
<1>5. ASSUME NEW p \in Procs, NEW l \in PollPcs, pc[p] \in {"idle"} \cup PollPcs, Goto(p, l),
             UNCHANGED <<count, m>>
      PROVE  LocalsClear'
  BY <1>1, <1>5 DEF LocalsClear
<1>6. M2MInit \/ M2MExit \/ UNCHANGED vars => UNCHANGED <<callVars, pc>>
  BY DEF M2MInit, M2MExit, vars
<1>7. ASSUME NEW p \in Procs, Call(p) PROVE LocalsClear'
  <2>1. ASSUME NEW mode, Open(p, mode) PROVE LocalsClear'
    BY <1>4, <2>1 DEF Open
  <2>2. CASE Release(p)
    BY <1>4, <2>2 DEF Release
  <2>3. ASSUME NEW n \in Counts, Read(p, n) PROVE LocalsClear'
    BY <1>1, <1>3, <2>3 DEF Read
  <2>4. ASSUME NEW n \in Counts, Write(p, n) PROVE LocalsClear'
    BY <1>1, <1>3, <1>4, <2>4 DEF Write
  <2>5. ASSUME NEW ev, Poll(p, ev) PROVE LocalsClear'
    BY <1>5, <2>5 DEF Poll
  <2>. QED
    BY <1>7, <2>1, <2>2, <2>3, <2>4, <2>5 DEF Call
<1>8. ASSUME NEW p \in Procs, Signal(p) PROVE LocalsClear'
  BY <1>1, <1>3, <1>4, <1>8 DEF Signal, RdSignal, WrSignal, PlSignal
<1>9. ASSUME NEW p \in Procs, LockStep(p) PROVE LocalsClear'
  <2>1. CASE RdTry(p) \/ RdLock(p)
    BY <1>1, <1>3, <1>4, <2>1 DEF RdTry, RdLock
  <2>2. CASE WrCheck(p) \/ WrLock(p)
    BY <1>1, <1>3, <1>4, <2>2 DEF WrCheck, WrLock
  <2>3. CASE PlCheck(p)
    BY <1>4, <1>5, <2>3 DEF PlCheck
  <2>. QED
    BY <1>9, <2>1, <2>2, <2>3 DEF LockStep
<1>10. ASSUME NEW p \in Procs, RunStep(p) PROVE LocalsClear'
  <2>1. CASE RdWait(p) \/ RdCond(p) \/ RdBytes(p)
    BY <1>1, <1>3, <2>1 DEF RdWait, RdCond, RdBytes
  <2>2. CASE WrWait(p) \/ WrCond(p) \/ WrBytes(p)
    BY <1>1, <1>3, <2>2 DEF WrWait, WrCond, WrBytes
  <2>3. CASE RdCopy(p) \/ WrWake(p)
    BY <1>4, <2>3 DEF RdCopy, WrWake
  <2>4. CASE WrAlloc(p)
    BY <1>1, <1>3, <1>4, <2>4 DEF WrAlloc
  <2>5. CASE PlWoken(p)
    BY <1>5, <2>5 DEF PlWoken
  <2>. QED
    BY <1>10, <2>1, <2>2, <2>3, <2>4, <2>5 DEF RunStep
<1>. QED
  BY <1>2, <1>6, <1>7, <1>8, <1>9, <1>10 DEF Next

\* A call that fails while it has had no effect.
LEMMA ReturnFails ==
  ASSUME CallTypeOK, NEW p \in Procs, NEW v \in {EAGAIN, ENOMEM, EFAULT, ERESTARTSYS},
         CallState(pc[p]) \in {"reading", "writing"}, Return(p, v), UNCHANGED msg_list
  PROVE  Queue!Fail(p)
<1>1. Queue!End(p, v)
  BY ReturnEnds
<1>2. StBar[p] \in {"reading", "writing"}
  BY DEF StBar
<1>. QED
  BY <1>1, <1>2 DEF Queue!Fail, StBar

\* A call that begins has a result only when it ends.
LEMMA EnterBegins ==
  ASSUME CallTypeOK, NEW p \in Procs, NEW l, NEW n, pc[p] = "idle", Enter(p, l),
         CallState(l) = "writing" => n \in 1..MAX_MSG,
         count' = [count EXCEPT ![p] = n], UNCHANGED <<msg_list, m>>
  PROVE  Queue!Begin(p, CallState(l), n)
<1>1. StBar' = [StBar EXCEPT ![p] = CallState(l)]
  BY StMoves DEF CallTypeOK
<1>2. StBar[p] = "idle"
  BY CallStates DEF StBar
<1>3. Contents(msg_list)' = Contents(msg_list) /\ GotBar' = GotBar
  BY DEF Contents, GotBar
<1>. QED
  BY <1>1, <1>2, <1>3 DEF Queue!Begin, StBar, GotBar

\* A write takes effect at its list_add_tail.
LEMMA WriteTakesEffect ==
  ASSUME TypeOK, NEW p \in Procs, WrLock(p)
  PROVE  Queue!Put(p)
<1>1. NewMsg(p) \in Msg /\ msg_list \in Seq(Msg)
  BY DEF TypeOK, DevTypeOK, CallTypeOK, Msg
<1>2. Contents(msg_list') = Append(Contents(msg_list), [from |-> NewMsg(p).from, len |-> NewMsg(p).len])
  <2>1. msg_list' = Append(msg_list, NewMsg(p))
    BY DEF WrLock
  <2>. QED
    BY <1>1, <2>1, ContentsAppend
<1>3. StBar' = [StBar EXCEPT ![p] = CallState("wr_bytes")]
  BY StMoves DEF TypeOK, CallTypeOK, WrLock
<1>4. StBar[p] = "writing" /\ CallState("wr_bytes") = "put"
  BY CallStates DEF StBar, WrLock
<1>5. GotBar' = GotBar /\ UNCHANGED <<count, ret>>
  BY DEF GotBar, WrLock
<1>6. Contents(msg_list)' = Append(Contents(msg_list), [from |-> p, len |-> count[p]])
  BY <1>2 DEF Contents
<1>. QED
  BY <1>3, <1>4, <1>5, <1>6 DEF Queue!Put, StBar, GotBar

\* list_del of a message by a read.
LEMMA ReadTakesEffect ==
  ASSUME TypeOK, NEW p \in Procs, RdLock(p), msg_list # <<>>
  PROVE  Queue!Take(p)
<1>1. msg_list \in Seq(Msg)
  BY DEF TypeOK, DevTypeOK
<1>2. /\ Contents(msg_list) # <<>> /\ Head(Contents(msg_list)).len = Head(msg_list).len
      /\ Contents(Tail(msg_list)) = Tail(Contents(msg_list))
  BY <1>1, ContentsTail
<1>3. StBar' = [StBar EXCEPT ![p] = CallState("rd_bytes")]
  BY StMoves DEF TypeOK, CallTypeOK, RdLock
<1>4. StBar[p] = "reading" /\ CallState("rd_bytes") = "took"
  BY CallStates DEF StBar, RdLock
<1>5. GotBar' = [GotBar EXCEPT ![p] = Head(msg_list).len] /\ UNCHANGED <<count, ret>>
  BY GotMoves DEF TypeOK, CallTypeOK, RdLock
<1>6. Contents(msg_list)' = Tail(Contents(msg_list))
  BY <1>2 DEF Contents, RdLock
<1>. QED
  BY <1>2, <1>3, <1>4, <1>5, <1>6 DEF Queue!Take, StBar, GotBar

\* What a step of the driver is to its callers.
QueueStep == Queue!Next \/ UNCHANGED Queue!vars

\* Unloading and loading the module: nobody is in a call, the list is empty.
LEMMA ListDiscarded ==
  ASSUME \A p \in Procs : pc[p] = "idle", msg_list' = <<>>, UNCHANGED <<pc, count, m, ret>>
  PROVE  QueueStep
<1>1. Contents(msg_list)' = <<>>
  BY DEF Contents
<1>2. StBar' = StBar /\ GotBar' = GotBar /\ \A p \in Procs : StBar[p] = "idle"
  BY CallStates DEF StBar, GotBar
<1>3. Queue!Discard
  BY <1>1, <1>2 DEF Queue!Discard, StBar, GotBar
<1>. QED
  BY <1>3 DEF QueueStep, Queue!Next

\* Every step of the driver is a step of the queue, or none.
LEMMA RefinementStep == IInv /\ LocalsClear /\ [Next]_vars => QueueStep
<1>. SUFFICES ASSUME IInv, LocalsClear, [Next]_vars PROVE QueueStep
  OBVIOUS
<1>1. TypeOK /\ CallTypeOK /\ CallsInProgress
  BY DEF IInv, TypeOK
<1>2. ASSUME NEW p \in Procs, Queue!Fail(p) \/ Queue!Other(p) \/ Queue!EndTake(p)
                                \/ Queue!EndPut(p) \/ Queue!Put(p) \/ Queue!Take(p)
      PROVE  QueueStep
  BY <1>2 DEF QueueStep, Queue!Next
<1>3. CASE M2MInit \/ M2MExit
  <2>1. \A p \in Procs : pc[p] = "idle"
    BY <1>1, <1>3 DEF M2MInit, M2MExit, CallsInProgress
  <2>2. msg_list' = <<>> /\ UNCHANGED <<pc, count, m, ret>>
    BY <1>3 DEF M2MInit, M2MExit
  <2>. QED
    BY <2>1, <2>2, ListDiscarded
<1>4. CASE UNCHANGED vars
  <2>1. UNCHANGED Queue!vars
    BY <1>4 DEF vars, Queue!vars, Contents
  <2>. QED
    BY <2>1 DEF QueueStep
<1>5. ASSUME NEW p \in Procs, Call(p) PROVE QueueStep
  <2>1. ASSUME NEW mode, Open(p, mode) PROVE QueueStep
    <3>1. Queue!Other(p)
      BY <1>1, <2>1, ReturnOther DEF Open
    <3>. QED
      BY <1>2, <3>1
  <2>2. CASE Release(p)
    <3>1. Queue!Other(p)
      BY <1>1, <2>2, ReturnOther DEF Release
    <3>. QED
      BY <1>2, <3>1
  <2>3. ASSUME NEW n \in Counts, Read(p, n) PROVE QueueStep
    <3>1. PICK l \in {"rd_try", "rd_wait"} : Enter(p, l)
      BY <2>3 DEF Read
    <3>2. CallState(l) = "reading"
      BY CallStates
    <3>3. pc[p] = "idle" /\ count' = [count EXCEPT ![p] = n] /\ UNCHANGED <<msg_list, m>>
      BY <2>3 DEF Read
    <3>4. Queue!Begin(p, CallState(l), n)
      BY <1>1, <3>1, <3>2, <3>3, EnterBegins
    <3>. QED
      BY <3>2, <3>4 DEF QueueStep, Queue!Next
  <2>4. ASSUME NEW n \in Counts, Write(p, n) PROVE QueueStep
    <3>1. CASE n = 0 \/ n > MAX_MSG
      <4>1. Queue!Other(p)
        BY <1>1, <2>4, <3>1, ReturnOther DEF Write
      <4>. QED
        BY <1>2, <4>1
    <3>2. CASE n # 0 /\ ~(n > MAX_MSG)
      <4>1. CallState("wr_check") = "writing" /\ n \in 1..MAX_MSG
        BY <3>2, CallStates
      <4>2. /\ pc[p] = "idle" /\ Enter(p, "wr_check")
            /\ count' = [count EXCEPT ![p] = n] /\ UNCHANGED <<msg_list, m>>
        BY <2>4, <3>2 DEF Write
      <4>3. Queue!Begin(p, "writing", n)
        BY <1>1, <4>1, <4>2, EnterBegins
      <4>. QED
        BY <4>3 DEF QueueStep, Queue!Next
    <3>. QED
      BY <3>1, <3>2
  <2>5. ASSUME NEW ev, Poll(p, ev) PROVE QueueStep
    <3>1. StBar' = [StBar EXCEPT ![p] = CallState("pl_check")]
      BY <1>1, <2>5, StMoves DEF CallTypeOK, Poll
    <3>2. StBar' = StBar /\ StBar[p] = "idle"
      BY <2>5, <3>1, CallStates DEF StBar, Poll
    <3>3. /\ Contents(msg_list)' = Contents(msg_list) /\ GotBar' = GotBar
          /\ count' = count /\ ret' = [ret EXCEPT ![p] = 0]
      BY <2>5 DEF Contents, GotBar, Poll
    <3>4. Queue!Other(p)
      BY <3>2, <3>3 DEF Queue!Other, StBar, GotBar
    <3>. QED
      BY <1>2, <3>4
  <2>. QED
    BY <1>5, <2>1, <2>2, <2>3, <2>4, <2>5 DEF Call
<1>6. ASSUME NEW p \in Procs, NEW l, Goto(p, l), CallState(l) = CallState(pc[p]),
             UNCHANGED <<msg_list, callVars, ret>>
      PROVE  QueueStep
  BY <1>1, <1>6, StepInvisible DEF QueueStep
<1>7. ASSUME NEW p \in Procs, NEW v \in {EAGAIN, ENOMEM, EFAULT, ERESTARTSYS},
             CallState(pc[p]) \in {"reading", "writing"}, Return(p, v), UNCHANGED msg_list
      PROVE  QueueStep
  BY <1>1, <1>2, <1>7, ReturnFails
<1>8. ASSUME NEW p \in Procs, Signal(p) PROVE QueueStep
  <2>1. CASE RdSignal(p)
    <3>1. CallState(pc[p]) = "reading" /\ CallState("rd_lock") = "reading" /\ UNCHANGED msg_list
      BY <2>1, CallStates DEF RdSignal
    <3>. QED
      BY <1>6, <1>7, <2>1, <3>1 DEF RdSignal
  <2>2. CASE WrSignal(p)
    <3>1. CallState(pc[p]) = "writing" /\ CallState("wr_check") = "writing" /\ UNCHANGED msg_list
      BY <2>2, CallStates DEF WrSignal
    <3>. QED
      BY <1>6, <1>7, <2>2, <3>1 DEF WrSignal
  <2>3. CASE PlSignal(p)
    <3>1. Queue!Other(p)
      BY <1>1, <2>3, ReturnOther DEF PlSignal
    <3>. QED
      BY <1>2, <3>1
  <2>. QED
    BY <1>8, <2>1, <2>2, <2>3 DEF Signal
<1>9. ASSUME NEW p \in Procs, LockStep(p) PROVE QueueStep
  <2>1. CASE RdTry(p)
    <3>1. CallState(pc[p]) = "reading" /\ CallState("rd_wait") = "reading" /\ UNCHANGED msg_list
      BY <2>1, CallStates DEF RdTry
    <3>. QED
      BY <1>6, <1>7, <2>1, <3>1 DEF RdTry
  <2>2. CASE RdLock(p)
    <3>1. CASE msg_list = <<>>
      <4>1. CallState(pc[p]) = "reading" /\ Return(p, EAGAIN) /\ UNCHANGED msg_list
        BY <2>2, <3>1, CallStates DEF RdLock
      <4>. QED
        BY <1>7, <4>1
    <3>2. CASE msg_list # <<>>
      BY <1>1, <1>2, <2>2, <3>2, ReadTakesEffect
    <3>. QED
      BY <3>1, <3>2
  <2>3. CASE WrCheck(p)
    <3>1. /\ CallState(pc[p]) = "writing" /\ UNCHANGED msg_list
          /\ CallState("wr_alloc") = "writing" /\ CallState("wr_wait") = "writing"
      BY <2>3, CallStates DEF WrCheck
    <3>. QED
      BY <1>6, <1>7, <2>3, <3>1 DEF WrCheck
  <2>4. CASE WrLock(p)
    BY <1>1, <1>2, <2>4, WriteTakesEffect
  <2>5. CASE PlCheck(p)
    <3>1. CASE Return(p, 1)
      <4>1. Queue!Other(p)
        BY <1>1, <2>5, <3>1, ReturnOther DEF PlCheck
      <4>. QED
        BY <1>2, <4>1
    <3>2. CASE Goto(p, "pl_sleep") /\ UNCHANGED <<callVars, ret>>
      <4>1. CallState("pl_sleep") = CallState(pc[p]) /\ UNCHANGED msg_list
        BY <2>5, CallStates DEF PlCheck
      <4>. QED
        BY <1>6, <3>2, <4>1
    <3>. QED
      BY <2>5, <3>1, <3>2 DEF PlCheck
  <2>. QED
    BY <1>9, <2>1, <2>2, <2>3, <2>4, <2>5 DEF LockStep
<1>10. ASSUME NEW p \in Procs, RunStep(p) PROVE QueueStep
  <2>1. CASE RdWait(p) \/ RdCond(p) \/ RdBytes(p)
    <3>1. PICK l \in {"rd_cond", "rd_sleep", "rd_lock", "rd_copy"} :
            Goto(p, l) /\ CallState(l) = CallState(pc[p])
      BY <2>1, CallStates DEF RdWait, RdCond, RdBytes
    <3>2. UNCHANGED <<msg_list, callVars, ret>>
      BY <2>1 DEF RdWait, RdCond, RdBytes
    <3>. QED
      BY <1>6, <3>1, <3>2
  <2>2. CASE WrWait(p) \/ WrCond(p) \/ WrBytes(p)
    <3>1. PICK l \in {"wr_check", "wr_cond", "wr_sleep", "wr_wake"} :
            Goto(p, l) /\ CallState(l) = CallState(pc[p])
      BY <2>2, CallStates DEF WrWait, WrCond, WrBytes
    <3>2. UNCHANGED <<msg_list, callVars, ret>>
      BY <2>2 DEF WrWait, WrCond, WrBytes
    <3>. QED
      BY <1>6, <3>1, <3>2
  <2>3. CASE RdCopy(p)
    <3>1. PICK v \in {Min2(count[p], m[p].len), EFAULT} : Return(p, v)
      BY <2>3 DEF RdCopy
    <3>2. Queue!End(p, v)
      BY <1>1, <2>3, <3>1, ReturnEnds DEF RdCopy
    <3>3. StBar[p] = "took" /\ GotBar[p] = m[p].len
      BY <2>3, CallStates DEF StBar, GotBar, RdCopy
    <3>4. \/ v = EFAULT
          \/ v = IF count[p] <= GotBar[p] THEN count[p] ELSE GotBar[p]
      BY <3>1, <3>3
    <3>5. \/ Queue!End(p, EFAULT)
          \/ Queue!End(p, IF count[p] <= GotBar[p] THEN count[p] ELSE GotBar[p])
      BY <3>2, <3>4 DEF Queue!End
    <3>6. Queue!EndTake(p)
      BY <3>3, <3>5 DEF Queue!EndTake, StBar, GotBar
    <3>. QED
      BY <1>2, <3>6
  <2>4. CASE WrAlloc(p)
    <3>1. CallState(pc[p]) = "writing" /\ CallState("wr_lock") = "writing" /\ UNCHANGED msg_list
      BY <2>4, CallStates DEF WrAlloc
    <3>. QED
      BY <1>6, <1>7, <2>4, <3>1 DEF WrAlloc
  <2>5. CASE WrWake(p)
    <3>1. PICK v \in {count[p]} : Return(p, v) /\ UNCHANGED msg_list
      BY <2>5 DEF WrWake
    <3>2. Queue!End(p, v)
      BY <1>1, <3>1, ReturnEnds
    <3>3. StBar[p] = "put"
      BY <2>5, CallStates DEF StBar, WrWake
    <3>4. Queue!EndPut(p)
      BY <3>1, <3>2, <3>3 DEF Queue!EndPut, Queue!End, StBar
    <3>. QED
      BY <1>2, <3>4
  <2>6. CASE PlWoken(p)
    <3>1. CallState("pl_check") = CallState(pc[p]) /\ UNCHANGED msg_list
      BY <2>6, CallStates DEF PlWoken
    <3>. QED
      BY <1>6, <2>6, <3>1 DEF PlWoken
  <2>. QED
    BY <1>10, <2>1, <2>2, <2>3, <2>4, <2>5, <2>6 DEF RunStep
<1>. QED
  BY <1>3, <1>4, <1>5, <1>8, <1>9, <1>10 DEF Next

\* The driver implements the FIFO queue of MsgQueue: whatever the calls of
\* its processes do to each other, each takes effect at one instant or fails
\* without effect.
THEOREM QueueImplemented == Spec => ImplementsQueue
<1>1. Init => Queue!Init /\ LocalsClear
  <2>. SUFFICES ASSUME Init PROVE Queue!Init /\ LocalsClear
    OBVIOUS
  <2>1. LocalsClear
    BY DEF Init, LocalsClear
  <2>2. Contents(msg_list) = <<>>
    BY DEF Init, Contents
  <2>3. StBar = [p \in Procs |-> "idle"] /\ GotBar = [p \in Procs |-> 0]
    BY CallStates DEF Init, StBar, GotBar
  <2>. QED
    BY <2>1, <2>2, <2>3 DEF Init, Queue!Init, StBar, GotBar
<1>2. IInv /\ LocalsClear /\ [Next]_vars => [Queue!Next]_(Queue!vars)
  BY RefinementStep DEF QueueStep
<1>. QED
  BY <1>1, <1>2, LocalsStep, Invariant, PTL DEF Spec, ImplementsQueue, Queue!Spec
=============================================================================
