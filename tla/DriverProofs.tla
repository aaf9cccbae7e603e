---------------------------- MODULE DriverProofs ----------------------------
(***************************************************************************)
(* Proofs about the two character devices of lab 3: their registration,    *)
(* for every number of processes that open them and every number of loads  *)
(* (Registration), and the ring buffer of globalvar, for every number of   *)
(* processes, every size of the ring and every length (GlobalVar).         *)
(***************************************************************************)
EXTENDS Registration, GlobalVar, TLAPS

\* Which program points belong to init and which to exit.
Shape ==
  /\ step = "idle" <=> state \in {"out", "live"}
  /\ step \in {"fields", "region", "cdev", "class", "device", "done", "fail", "oops"} => state = "coming"
  /\ step \in {"undo_device", "drain", "exit"} => state = "going"
  /\ state = "coming" /\ step \in {"undo_class", "undo_cdev", "undo_region"} => driver = "m2m"

\* What may be registered at which point.
Registered ==
  /\ device => state = "live" \/ step \in {"done", "undo_device"}
  /\ class  => state = "live" \/ step \in {"device", "done", "undo_device", "undo_class"}
  /\ cdev   => \/ state = "live"
               \/ driver = "globalvar" /\ step = "fields"
               \/ step \in {"class", "device", "done", "undo_device", "undo_class", "undo_cdev", "oops"}
  /\ region => state # "out" /\ step \notin {"region", "fail", "drain", "exit"}
                 /\ ~(driver = "m2m" /\ step = "fields")

\* A usable device has been prepared, but for globalvar before sema_init.
Prepared ==
  /\ driver = "m2m" /\ step \in {"region", "cdev"} => fields
  /\ cdev /\ ~(driver = "globalvar" /\ step = "fields") => fields

\* What an open file stands on.
Files ==
  \A u \in Users : file[u] # "none" =>
    /\ state # "going"
    /\ state \in {"coming", "live"} => <<u, "cdev">> \in refs
    /\ state = "coming" => since[u] = "coming"
    /\ state = "out" => driver = "m2m" /\ since[u] = "coming" /\ outcome = "failed"
    /\ driver = "m2m" => fields
    /\ driver = "globalvar" => cdev

\* Where messages may be left.
Messages ==
  /\ driver = "globalvar" => queued = 0
  /\ step = "exit" => queued = 0
  /\ state = "out" /\ queued > 0 => outcome = "failed"

IInv == TypeOK /\ Shape /\ Registered /\ Prepared /\ Files /\ Messages

---------------------------------------------------------------------------

\* The initial states satisfy the invariant.
LEMMA InitIInv == Init => IInv
  <1> SUFFICES ASSUME Init PROVE IInv
    OBVIOUS
  <1>1. /\ ~region /\ ~cdev /\ ~class /\ ~device /\ ~fields
        /\ region \in BOOLEAN /\ cdev \in BOOLEAN /\ class \in BOOLEAN /\ device \in BOOLEAN
        /\ fields \in BOOLEAN
    BY Zenon DEF Init
  <1>2. TypeOK
    BY <1>1, BoundAssumption DEF Init, TypeOK
  <1>3. Shape /\ Registered /\ Prepared /\ Files /\ Messages
    BY <1>1 DEF Init, Shape, Registered, Prepared, Files, Messages
  <1> QED BY <1>2, <1>3 DEF IInv

\* The steps of init.
LEMMA InitSteps ==
  ASSUME IInv,
         \/ Insmod \/ InitFields \/ RegisterRegion \/ AddCdev
         \/ CreateClass \/ CreateDevice \/ InitDone
  PROVE  IInv'
  <1> USE BoundAssumption DEF IInv, registered, users
  <1>1. CASE Insmod
    <2>1. TypeOK' /\ Shape'
      <3>1. step' \in {"fields", "region"} /\ refs' = {} /\ loads' \in 0..MaxLoads /\ queued' \in 0..MaxMsgs
        BY <1>1 DEF Insmod, FirstStep, TypeOK
      <3>2. fields' \in BOOLEAN
        BY <1>1, Zenon DEF Insmod
      <3> QED BY <1>1, <3>1, <3>2 DEF Insmod, TypeOK, Shape
    <2>2. Registered' /\ Prepared'
      BY <1>1 DEF Insmod, FirstStep, TypeOK, Shape, Registered, Prepared
    <2>3. Files' /\ Messages'
      BY <1>1 DEF Insmod, FirstStep, TypeOK, Shape, Registered, Prepared, Files, Messages
    <2> QED BY <2>1, <2>2, <2>3 DEF IInv
  <1>2. CASE InitFields
    BY <1>2 DEF InitFields,
      TypeOK, Shape, Registered, Prepared, Files, Messages
  <1>3. CASE RegisterRegion
    <2>1. TypeOK' /\ Shape'
      BY <1>3 DEF RegisterRegion, TypeOK, Shape
    <2>2. Registered' /\ Prepared'
      BY <1>3 DEF RegisterRegion, TypeOK, Shape, Registered, Prepared
    <2>3. Files' /\ Messages'
      BY <1>3 DEF RegisterRegion, TypeOK, Shape, Registered, Prepared, Files, Messages
    <2> QED BY <2>1, <2>2, <2>3 DEF IInv
  <1>4. CASE AddCdev
    <2>1. TypeOK' /\ Shape'
      BY <1>4 DEF AddCdev, TypeOK, Shape
    <2>2. Registered' /\ Prepared'
      BY <1>4 DEF AddCdev, TypeOK, Shape, Registered, Prepared
    <2>3. Files' /\ Messages'
      BY <1>4 DEF AddCdev, TypeOK, Shape, Registered, Prepared, Files, Messages
    <2> QED BY <2>1, <2>2, <2>3 DEF IInv
  <1>5. CASE CreateClass
    <2>1. TypeOK' /\ Shape'
      BY <1>5 DEF CreateClass, ClassFailed, TypeOK, Shape
    <2>2. Registered' /\ Prepared'
      BY <1>5 DEF CreateClass, ClassFailed, TypeOK, Shape, Registered, Prepared
    <2>3. Files' /\ Messages'
      BY <1>5 DEF CreateClass, ClassFailed, TypeOK, Shape, Registered, Prepared, Files, Messages
    <2> QED BY <2>1, <2>2, <2>3 DEF IInv
  <1>6. CASE CreateDevice
    <2>1. TypeOK' /\ Shape'
      BY <1>6 DEF CreateDevice, TypeOK, Shape
    <2>2. Registered' /\ Prepared'
      BY <1>6 DEF CreateDevice, TypeOK, Shape, Registered, Prepared
    <2>3. Files' /\ Messages'
      BY <1>6 DEF CreateDevice, TypeOK, Shape, Registered, Prepared, Files, Messages
    <2> QED BY <2>1, <2>2, <2>3 DEF IInv
  <1>7. CASE InitDone
    <2>1. TypeOK' /\ Shape'
      BY <1>7 DEF InitDone, TypeOK, Shape
    <2>2. Registered' /\ Prepared'
      BY <1>7 DEF InitDone, TypeOK, Shape, Registered, Prepared
    <2>3. Files' /\ Messages'
      BY <1>7 DEF InitDone, TypeOK, Shape, Registered, Prepared, Files, Messages
    <2> QED BY <2>1, <2>2, <2>3 DEF IInv
  <1> QED BY <1>1, <1>2, <1>3, <1>4, <1>5, <1>6, <1>7

\* The steps of exit and of the error paths.
LEMMA ExitSteps ==
  ASSUME IInv,
         \/ Rmmod \/ DestroyDevice \/ DestroyClass \/ DelCdev
         \/ UnregisterRegion \/ FreeMessages \/ Leave
  PROVE  IInv'
  <1> USE BoundAssumption DEF IInv, registered, users
  <1>1. CASE Rmmod
    BY <1>1 DEF Rmmod,
      TypeOK, Shape, Registered, Prepared, Files, Messages
  <1>2. CASE DestroyDevice
    BY <1>2 DEF DestroyDevice,
      TypeOK, Shape, Registered, Prepared, Files, Messages
  <1>3. CASE DestroyClass
    BY <1>3 DEF DestroyClass,
      TypeOK, Shape, Registered, Prepared, Files, Messages
  <1>4. CASE DelCdev
    BY <1>4 DEF DelCdev,
      TypeOK, Shape, Registered, Prepared, Files, Messages
  <1>5. CASE UnregisterRegion
    BY <1>5 DEF UnregisterRegion,
      TypeOK, Shape, Registered, Prepared, Files, Messages
  <1>6. CASE FreeMessages
    BY <1>6 DEF FreeMessages,
      TypeOK, Shape, Registered, Prepared, Files, Messages
  <1>7. CASE Leave
    <2>1. TypeOK' /\ Shape'
      BY <1>7 DEF Leave, TypeOK, Shape
    <2>2. Registered' /\ Prepared'
      BY <1>7 DEF Leave, TypeOK, Shape, Registered, Prepared
    <2>3. Files' /\ Messages'
      <3>1. Files'
        BY <1>7 DEF Leave, TypeOK, Shape, Registered, Files
      <3>2. Messages'
        BY <1>7 DEF Leave, TypeOK, Shape, Messages
      <3> QED BY <3>1, <3>2
    <2> QED BY <2>1, <2>2, <2>3 DEF IInv
  <1> QED BY <1>1, <1>2, <1>3, <1>4, <1>5, <1>6, <1>7

\* The users.
LEMMA UserSteps ==
  ASSUME IInv, NEW u \in Users, User(u)
  PROVE  IInv'
  <1> USE BoundAssumption DEF IInv, registered, users
  <1>1. CASE OpenStart(u)
    BY <1>1 DEF OpenStart, OwnerRefs,
      TypeOK, Shape, Registered, Prepared, Files, Messages
  <1>2. CASE OpenHandler(u)
    BY <1>2 DEF OpenHandler, OwnerRefs,
      TypeOK, Shape, Registered, Prepared, Files, Messages
  <1>3. CASE WriteMsg(u)
    <2>1. TypeOK' /\ Shape'
      BY <1>3 DEF WriteMsg, TypeOK, Shape
    <2>2. Registered' /\ Prepared'
      BY <1>3 DEF WriteMsg, TypeOK, Shape, Registered, Prepared
    <2>3. Files' /\ Messages'
      BY <1>3 DEF WriteMsg, TypeOK, Shape, Registered, Prepared, Files, Messages
    <2> QED BY <2>1, <2>2, <2>3 DEF IInv
  <1>4. CASE ReadMsg(u)
    BY <1>4 DEF ReadMsg,
      TypeOK, Shape, Registered, Prepared, Files, Messages
  <1>5. CASE ReleaseHandler(u)
    BY <1>5 DEF ReleaseHandler,
      TypeOK, Shape, Registered, Prepared, Files, Messages
  <1>6. CASE CloseEnd(u)
    BY <1>6 DEF CloseEnd, OwnerRefs,
      TypeOK, Shape, Registered, Prepared, Files, Messages
  <1> QED BY <1>1, <1>2, <1>3, <1>4, <1>5, <1>6 DEF User

\* Every step preserves the invariant.
LEMMA NextIInv == IInv /\ [Next]_vars => IInv'
  <1> SUFFICES ASSUME IInv, [Next]_vars PROVE IInv'
    OBVIOUS
  <1>1. CASE Loader
    BY <1>1, InitSteps, ExitSteps DEF Loader
  <1>2. CASE UNCHANGED vars
    BY <1>2 DEF IInv, TypeOK, Shape, Registered, Prepared, Files, Messages, vars, registered, users
  <1> QED BY <1>1, <1>2, UserSteps DEF Next

\* The inductive invariant of loading and unloading.
THEOREM Invariant == Spec => []IInv
  BY InitIInv, NextIInv, PTL DEF Spec

\* Every variable keeps its type.
THEOREM TypeCorrect == Spec => []TypeOK
  <1>1. IInv => TypeOK
    BY DEF IInv
  <1> QED BY <1>1, Invariant, PTL

\* m2m_init undoes exactly what it has done on each of its error paths, and
\* both exit functions undo everything.
THEOREM UnloadLeavesNothing == Spec => []NothingLeft
  <1>1. IInv => NothingLeft
    BY DEF IInv, TypeOK, Shape, Registered, Messages, NothingLeft
  <1> QED BY <1>1, Invariant, PTL

\* Only globalvar, and only during its init, is entered before it is ready.
THEOREM HandlersReady == Spec => []FieldsReady
  <1>1. IInv => FieldsReady
    BY DEF IInv, TypeOK, Shape, Prepared, Files, FieldsReady
  <1> QED BY <1>1, Invariant, PTL

\* rmmod never takes a module away from a process that has its device open.
THEOREM NotFreedInUse == Spec => []ModuleInUseStays
  <1>1. IInv => ModuleInUseStays
    BY DEF IInv, TypeOK, Files, ModuleInUseStays
  <1> QED BY <1>1, Invariant, PTL

---------------------------------------------------------------------------
(* The ring buffer of globalvar.                                           *)

USE GlobalVarAssumption
USE DEF Goto, Return, Min2, ReadLen, WriteLen, Wrap, OutqWoken, Pcs

\* Inside the ring, the lengths of globalvar_read and globalvar_write keep
\* the copy inside the ring.
LEMMA LengthsFit ==
  ASSUME rd \in 0..(MAXNUM - 1), wr \in 0..(MAXNUM - 1), NEW n \in Nat
  PROVE  /\ ReadLen(n) \in Nat /\ rd + ReadLen(n) <= MAXNUM
         /\ WriteLen(n) \in Nat /\ wr + WriteLen(n) <= MAXNUM
         /\ wr < rd => wr + WriteLen(n) < rd
  OBVIOUS

\* The types of the ring through every step.
LEMMA RingTypeStep == RingTypeOK /\ [RingNext]_ringVars => RingTypeOK'
<1>. SUFFICES ASSUME RingTypeOK, [RingNext]_ringVars PROVE RingTypeOK'
  OBVIOUS
<1>1. ASSUME NEW p \in Procs, NEW n \in Lens, Read(p, n) PROVE RingTypeOK'
  BY <1>1 DEF Read, RingTypeOK
<1>2. ASSUME NEW p \in Procs, NEW n \in Lens, Write(p, n) PROVE RingTypeOK'
  BY <1>2 DEF Write, RingTypeOK
<1>3. ASSUME NEW p \in Procs, RdWait(p) PROVE RingTypeOK'
  BY <1>3 DEF RdWait, RingTypeOK
<1>4. ASSUME NEW p \in Procs, RdCond(p) PROVE RingTypeOK'
  BY <1>4 DEF RdCond, RingTypeOK
<1>5. ASSUME NEW p \in Procs, RdSignal(p) PROVE RingTypeOK'
  BY <1>5 DEF RdSignal, RingTypeOK
<1>6. ASSUME NEW p \in Procs, DownSignal(p) PROVE RingTypeOK'
  BY <1>6 DEF DownSignal, RingTypeOK
<1>7. ASSUME NEW p \in Procs, RdSection(p) PROVE RingTypeOK'
  <2>. HIDE DEF ReadLen
  <2>1. ReadLen(len[p]) \in Nat /\ rd + ReadLen(len[p]) <= MAXNUM
    BY LengthsFit DEF RingTypeOK
  <2>. QED
    BY <1>7, <2>1 DEF RdSection, RingTypeOK
<1>8. ASSUME NEW p \in Procs, WrSection(p) PROVE RingTypeOK'
  <2>. HIDE DEF WriteLen
  <2>1. WriteLen(len[p]) \in Nat /\ wr + WriteLen(len[p]) <= MAXNUM
    BY LengthsFit DEF RingTypeOK
  <2>. QED
    BY <1>8, <2>1 DEF WrSection, RingTypeOK
<1>9. ASSUME NEW p \in Procs, WrFlag(p) PROVE RingTypeOK'
  BY <1>9 DEF WrFlag, RingTypeOK
<1>10. ASSUME NEW p \in Procs, WrWake(p) PROVE RingTypeOK'
  BY <1>10 DEF WrWake, RingTypeOK
<1>11. CASE UNCHANGED ringVars
  BY <1>11 DEF ringVars, RingTypeOK
<1>. QED
  BY <1>1, <1>2, <1>3, <1>4, <1>5, <1>6, <1>7, <1>8, <1>9, <1>10, <1>11 DEF RingNext

\* Both pointers of the ring stay inside it, whatever the order of the calls.
THEOREM RingTypeCorrect == RingSpec => []RingTypeOK
<1>1. RingInit => RingTypeOK
  BY DEF RingInit, RingTypeOK
<1>. QED
  BY <1>1, RingTypeStep, PTL DEF RingSpec

\* No copy of globalvar_read or globalvar_write leaves the ring.
THEOREM CopiesCorrect == RingSpec => []CopiesInRing
<1>1. RingTypeOK => CopiesInRing
  BY LengthsFit DEF RingTypeOK, CopiesInRing
<1>. QED
  BY <1>1, RingTypeCorrect, PTL

\* No wake-up of a sleeping reader is lost, although globalvar_write sets the
\* flag outside the semaphore.
THEOREM SleeperWakeUp == RingSpec => []SleeperNotStranded
<1>1. RingInit => SleeperNotStranded
  BY DEF RingInit, SleeperNotStranded
<1>2. RingTypeOK /\ SleeperNotStranded /\ [RingNext]_ringVars => SleeperNotStranded'
  <2>. SUFFICES ASSUME RingTypeOK, SleeperNotStranded, [RingNext]_ringVars PROVE SleeperNotStranded'
    OBVIOUS
  <2>0. pc \in [Procs -> Pcs]
    BY DEF RingTypeOK
  <2>1. ASSUME NEW p \in Procs, NEW n \in Lens, Read(p, n) \/ Write(p, n) PROVE SleeperNotStranded'
    BY <2>0, <2>1 DEF Read, Write, SleeperNotStranded
  <2>2. ASSUME NEW p \in Procs, RdWait(p) \/ RdCond(p) \/ RdSignal(p) \/ DownSignal(p)
        PROVE  SleeperNotStranded'
    BY <2>0, <2>2 DEF RdWait, RdCond, RdSignal, DownSignal, SleeperNotStranded
  <2>3. ASSUME NEW p \in Procs, RdSection(p) PROVE SleeperNotStranded'
    BY <2>0, <2>3 DEF RdSection, SleeperNotStranded
  <2>4. ASSUME NEW p \in Procs, WrSection(p) PROVE SleeperNotStranded'
    BY <2>0, <2>4 DEF WrSection, SleeperNotStranded
  <2>5. ASSUME NEW p \in Procs, WrFlag(p) PROVE SleeperNotStranded'
    BY <2>0, <2>5 DEF WrFlag, SleeperNotStranded
  <2>6. ASSUME NEW p \in Procs, WrWake(p) PROVE SleeperNotStranded'
    BY <2>0, <2>6 DEF WrWake, SleeperNotStranded
  <2>7. CASE UNCHANGED ringVars
    BY <2>7 DEF ringVars, SleeperNotStranded
  <2>. QED
    BY <2>1, <2>2, <2>3, <2>4, <2>5, <2>6, <2>7 DEF RingNext
<1>. QED
  BY <1>1, <1>2, RingTypeCorrect, PTL DEF RingSpec
=============================================================================
