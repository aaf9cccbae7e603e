--------------------------- MODULE SysHookProofs ----------------------------
(***************************************************************************)
(* Theorems about SysHook, for any number of CPUs, callers and loads.      *)
(***************************************************************************)
EXTENDS SysHook, TLAPS

\* Which program points init and exit have, and what the kernel holds at boot.
Shape ==
  /\ boot["table"] = "gettimeofday" /\ boot["other"] \in {"zero", "data"}
  /\ step = "idle" <=> state \in {"out", "live"}
  /\ step = "save" => state = "coming"
  /\ addr = "null" => step \in {"idle", "check", "done"}

\* The word at addr is hello from the store of init to the store of exit, and
\* the boot value at all other times; between them it is kept in old.
Hooked ==
  \/ state = "live"
  \/ state = "coming" /\ step \in {"restore", "done"}
  \/ state = "going" /\ step \in {"check", "readcr0", "clear", "write"}

Unhooked ==
  \/ state = "out"
  \/ state = "coming" /\ step \in {"check", "save", "readcr0", "clear", "write"}
  \/ state = "going" /\ step \in {"restore", "done"}

Entry ==
  /\ \A a \in {"table", "other"} : a # addr => mem[a] = boot[a]
  /\ addr # "null" /\ boot[addr] # "zero" =>
       /\ Hooked => mem[addr] = "hello" /\ old = boot[addr]
       /\ Unhooked => mem[addr] = boot[addr]
       /\ state = "coming" /\ step \in {"readcr0", "clear", "write"} => old = boot[addr]

\* CR0.WP as long as the process has not been moved in a window: cleared on
\* its own CPU between clear_wp and restore_wp, set everywhere else.
Wp ==
  ~moved =>
    /\ step \notin {"write", "restore", "oops"} => \A c \in Cpus : wp[c]
    /\ step \in Window => oldcr0
    /\ step \in {"write", "restore"} => ~wp[cpu] /\ \A c \in Cpus \ {cpu} : wp[c]
    /\ step = "oops" => addr # "table"

IInv == TypeOK /\ Shape /\ Entry /\ Wp /\ RightCallee

---------------------------------------------------------------------------

\* The initial states satisfy the invariant.
LEMMA InitIInv == Init => IInv
  <1> SUFFICES ASSUME Init PROVE IInv
    OBVIOUS
  <1>1. PICK word \in {"zero", "data"} :
          boot = [a \in {"table", "other"} |-> IF a = "table" THEN "gettimeofday" ELSE word]
    BY DEF Init
  <1>2. wp \in [Cpus -> BOOLEAN] /\ (\A c \in Cpus : wp[c]) /\ moved \in BOOLEAN /\ oldcr0 \in BOOLEAN
    BY Zenon DEF Init
  <1>3. TypeOK
    BY <1>1, <1>2, CpuAssumption DEF Init, TypeOK, Words
  <1>4. Shape /\ Entry /\ RightCallee
    BY <1>1 DEF Init, Shape, Entry, Hooked, Unhooked, RightCallee
  <1>5. Wp
    BY <1>2 DEF Init, Wp, Window
  <1> QED BY <1>3, <1>4, <1>5 DEF IInv

\* insmod and rmmod, the early returns and the return of init and exit.
LEMMA ModuleSteps ==
  ASSUME IInv, Insmod \/ Rmmod \/ Check \/ Done
  PROVE  IInv'
  <1> USE CpuAssumption DEF IInv, TypeOK, Shape, Entry, Hooked, Unhooked, Wp, RightCallee, Words, Window
  <1>1. CASE Insmod
    BY <1>1 DEF Insmod
  <1>2. CASE Rmmod
    BY <1>2 DEF Rmmod
  <1>3. CASE Check
    BY <1>3 DEF Check, NothingToDo
  <1>4. CASE Done
    BY <1>4 DEF Done
  <1> QED BY <1>1, <1>2, <1>3, <1>4

\* Saving and replacing the entry.
LEMMA EntrySteps ==
  ASSUME IInv, Save \/ WriteEntry
  PROVE  IInv'
  <1> USE CpuAssumption DEF IInv, TypeOK, Shape, Entry, Hooked, Unhooked, Wp, RightCallee, Words, Window
  <1>1. CASE Save
    BY <1>1 DEF Save, Saved
  <1>2. CASE WriteEntry
    BY <1>2 DEF WriteEntry, Stored
  <1> QED BY <1>1, <1>2

\* CR0, and the scheduler.
LEMMA Cr0Steps ==
  ASSUME IInv, ReadCr0 \/ ClearWp \/ RestoreWp \/ Migrate
  PROVE  IInv'
  <1> USE CpuAssumption DEF IInv, TypeOK, Shape, Entry, Hooked, Unhooked, Wp, RightCallee, Words, Window
  <1>1. CASE ReadCr0
    BY <1>1 DEF ReadCr0
  <1>2. CASE ClearWp
    BY <1>2 DEF ClearWp
  <1>3. CASE RestoreWp
    BY <1>3 DEF RestoreWp, Cr0Restored
  <1>4. CASE Migrate
    BY <1>4 DEF Migrate
  <1> QED BY <1>1, <1>2, <1>3, <1>4

\* The callers.
LEMMA CallerSteps ==
  ASSUME IInv, NEW p \in Callers, Call(p) \/ Return(p) \/ Crash(p)
  PROVE  IInv'
  <1> USE DEF IInv, TypeOK, Shape, Entry, Hooked, Unhooked, Wp, RightCallee, Words, Window, hook
  <1>1. CASE Call(p)
    BY <1>1 DEF Call
  <1>2. CASE Return(p)
    BY <1>2 DEF Return
  <1>3. CASE Crash(p)
    BY <1>3 DEF Crash
  <1> QED BY <1>1, <1>2, <1>3

\* Every step preserves the invariant.
LEMMA NextIInv == IInv /\ [Next]_vars => IInv'
  <1> SUFFICES ASSUME IInv, [Next]_vars PROVE IInv'
    OBVIOUS
  <1>1. CASE UNCHANGED vars
    BY <1>1 DEF IInv, TypeOK, Shape, Entry, Hooked, Unhooked, Wp, RightCallee, vars, hook
  <1> QED BY <1>1, ModuleSteps, EntrySteps, Cr0Steps, CallerSteps DEF Next

\* The inductive invariant of the hook.
THEOREM Invariant == Spec => []IInv
  BY InitIInv, NextIInv, PTL DEF Spec

\* Every variable keeps its type.
THEOREM TypeCorrect == Spec => []TypeOK
  <1>1. IInv => TypeOK
    BY DEF IInv
  <1> QED BY <1>1, Invariant, PTL

\* restore_syscall puts back what modify_syscall has replaced, after any
\* number of loads and moves between CPUs, but for a word that was 0.
THEOREM UnloadRestores == Spec => []EntryRestored
  <1>1. IInv => EntryRestored
    BY DEF IInv, TypeOK, Entry, Unhooked, EntryRestored
  <1> QED BY <1>1, Invariant, PTL

\* System call 96 runs the original while the module is out and hello while
\* it is loaded at the right address.
THEOREM CalleeCorrect == Spec => []RightCallee
  <1>1. IInv => RightCallee
    BY DEF IInv
  <1> QED BY <1>1, Invariant, PTL

\* clear_wp and restore_wp are harmless unless the process is moved between
\* them, on any number of CPUs.
THEOREM WpCorrect == Spec => []WpRestored
  <1>1. IInv => WpRestored
    BY DEF IInv, Wp, WpRestored
  <1> QED BY <1>1, Invariant, PTL
=============================================================================
