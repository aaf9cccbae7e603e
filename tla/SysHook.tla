------------------------------ MODULE SysHook -------------------------------
(***************************************************************************)
(* The system call hook, 3lab/modify_syscall/modify_syscall.c, and the     *)
(* programs that call system call 96 (modify_old_syscall.c and             *)
(* modify_new_syscall.c).                                                  *)
(*                                                                         *)
(* insmod and rmmod run the module's init and exit as an ordinary process: *)
(* on one CPU at a time, and moved to another one at any point.  CR0 is a  *)
(* register of each CPU.  p_sys_call_table is compiled in, while the kernel*)
(* places the table at every boot: the address is right ("table"), hits    *)
(* another word or no memory at all ("other"), or is 0 ("null").           *)
(***************************************************************************)
EXTENDS Naturals

CONSTANTS
  Cpus,      \* the CPUs
  Callers,   \* processes that execute system call 96
  MaxLoads   \* bound: how often the module is loaded

ASSUME CpuAssumption == Cpus # {} /\ MaxLoads \in Nat

VARIABLES
  addr,        \* what p_sys_call_table points to
  boot, mem,   \* the words at the two addresses: at boot, and now
  old,         \* old_sys_call_func
  state,       \* the module: "out", "coming", "live" or "going"
  step, cpu,   \* program point of init or exit, and the CPU it runs on
  wp, oldcr0,  \* CR0.WP of every CPU; the WP bit saved by clear_wp
  moved,       \* the process was moved while WP was cleared, in some load
  loads,
  call, begun  \* what a caller executes, and the module's state when it began

hook == <<addr, boot, mem, old, state, step, cpu, wp, oldcr0, moved, loads>>
vars == <<hook, call, begun>>

Init ==
  /\ addr \in {"null", "table", "other"}
  /\ \E word \in {"zero", "data"} :
       boot = [a \in {"table", "other"} |-> IF a = "table" THEN "gettimeofday" ELSE word]
  /\ mem = boot /\ old = "zero"
  /\ state = "out" /\ step = "idle" /\ cpu \in Cpus
  /\ wp = [c \in Cpus |-> TRUE] /\ oldcr0 = TRUE /\ moved = FALSE
  /\ loads = 0
  /\ call = [p \in Callers |-> "idle"] /\ begun = [p \in Callers |-> "out"]

---------------------------------------------------------------------------
(* init and exit.                                                          *)

\* insmod: the module's variables start afresh.
Insmod ==
  /\ state = "out" /\ loads < MaxLoads
  /\ state' = "coming" /\ step' = "check" /\ loads' = loads + 1
  /\ old' = "zero"
  /\ UNCHANGED <<addr, boot, mem, cpu, wp, oldcr0, moved, call, begun>>

\* rmmod: nothing counts the callers that are in hello.
Rmmod ==
  /\ state = "live"
  /\ state' = "going" /\ step' = "check"
  /\ UNCHANGED <<addr, boot, mem, old, cpu, wp, oldcr0, moved, loads, call, begun>>

\* The early returns of modify_syscall and of restore_syscall.
NothingToDo == addr = "null" \/ (state = "going" /\ old = "zero")

\* mymodule_init returns 0 also when modify_syscall did not.
Check ==
  /\ step = "check"
  /\ step' = IF NothingToDo THEN "done" ELSE IF state = "coming" THEN "save" ELSE "readcr0"
  /\ UNCHANGED <<addr, boot, mem, old, state, cpu, wp, oldcr0, moved, loads, call, begun>>

\* Faulty: the entry is saved after it has been replaced.
SavedLate == "hello"

\* *(sys_call_addr) before it is replaced.
Saved == mem[addr]

\* old_sys_call_func = *(sys_call_addr); an address without memory faults,
\* which ends insmod and leaves the module loading for good.
Save ==
  /\ step = "save"
  /\ \/ old' = Saved /\ step' = "readcr0"
     \/ addr = "other" /\ step' = "oops" /\ UNCHANGED old
  /\ UNCHANGED <<addr, boot, mem, state, cpu, wp, oldcr0, moved, loads, call, begun>>

\* clear_wp: the two moves.
ReadCr0 ==
  /\ step = "readcr0"
  /\ oldcr0' = wp[cpu] /\ step' = "clear"
  /\ UNCHANGED <<addr, boot, mem, old, state, cpu, wp, moved, loads, call, begun>>

ClearWp ==
  /\ step = "clear"
  /\ wp' = [wp EXCEPT ![cpu] = FALSE] /\ step' = "write"
  /\ UNCHANGED <<addr, boot, mem, old, state, cpu, oldcr0, moved, loads, call, begun>>

\* What is stored: &hello by init, the saved entry by exit.
Stored == IF state = "coming" THEN "hello" ELSE old

\* The store.  Where WP is set it faults: the table is read-only, another
\* word may be.
WriteEntry ==
  /\ step = "write"
  /\ \/ /\ ~wp[cpu] \/ addr = "other"
        /\ mem' = [mem EXCEPT ![addr] = Stored] /\ step' = "restore"
     \/ wp[cpu] /\ step' = "oops" /\ UNCHANGED mem
  /\ UNCHANGED <<addr, boot, old, state, cpu, wp, oldcr0, moved, loads, call, begun>>

\* Faulty: CR0 is written back as it is now.
Cr0Kept == wp[cpu]

\* The argument of restore_wp.
Cr0Restored == oldcr0

RestoreWp ==
  /\ step = "restore"
  /\ wp' = [wp EXCEPT ![cpu] = Cr0Restored] /\ step' = "done"
  /\ UNCHANGED <<addr, boot, mem, old, state, cpu, oldcr0, moved, loads, call, begun>>

\* init or exit returns.
Done ==
  /\ step = "done"
  /\ state' = (IF state = "coming" THEN "live" ELSE "out") /\ step' = "idle"
  /\ UNCHANGED <<addr, boot, mem, old, cpu, wp, oldcr0, moved, loads, call, begun>>

\* Between clear_wp and restore_wp nothing keeps the process on its CPU.
Window == {"clear", "write", "restore"}

\* The scheduler moves the process; the next insmod or rmmod runs anywhere.
Migrate ==
  /\ step # "oops"
  /\ cpu' \in Cpus \ {cpu}
  /\ moved' = (moved \/ step \in Window)
  /\ UNCHANGED <<addr, boot, mem, old, state, step, wp, oldcr0, loads, call, begun>>

---------------------------------------------------------------------------
(* The callers.                                                            *)

\* The kernel loads the entry and jumps to it.
Call(p) ==
  /\ call[p] = "idle"
  /\ call' = [call EXCEPT ![p] = mem["table"]]
  /\ begun' = [begun EXCEPT ![p] = state]
  /\ UNCHANGED hook

Return(p) ==
  /\ call[p] \in {"gettimeofday", "hello"}
  /\ call[p] = "hello" => state # "out"
  /\ call' = [call EXCEPT ![p] = "idle"]
  /\ UNCHANGED <<hook, begun>>

\* hello has been freed below the caller.
Crash(p) ==
  /\ call[p] = "hello" /\ state = "out"
  /\ call' = [call EXCEPT ![p] = "crashed"]
  /\ UNCHANGED <<hook, begun>>

Next ==
  \/ Insmod \/ Rmmod \/ Check \/ Save \/ ReadCr0 \/ ClearWp \/ WriteEntry \/ RestoreWp \/ Done
  \/ Migrate
  \/ \E p \in Callers : Call(p) \/ Return(p) \/ Crash(p)

Spec == Init /\ [][Next]_vars

---------------------------------------------------------------------------
(* Properties.                                                             *)

Words == {"zero", "data", "gettimeofday", "hello"}

\* Every variable has its type.
TypeOK ==
  /\ addr \in {"null", "table", "other"}
  /\ boot \in [{"table", "other"} -> Words] /\ mem \in [{"table", "other"} -> Words]
  /\ old \in Words
  /\ state \in {"out", "coming", "live", "going"}
  /\ step \in {"idle", "check", "save", "readcr0", "clear", "write", "restore", "done", "oops"}
  /\ cpu \in Cpus /\ wp \in [Cpus -> BOOLEAN] /\ oldcr0 \in BOOLEAN /\ moved \in BOOLEAN
  /\ loads \in 0..MaxLoads
  /\ call \in [Callers -> {"idle", "crashed"} \cup Words]
  /\ begun \in [Callers -> {"out", "coming", "live", "going"}]

\* Unloading puts back what loading has replaced, however often the module is
\* loaded and wherever init and exit run.  The one word that is not put back
\* is a 0 that was taken for the table: old_sys_call_func = 0 also stands for
\* "nothing was replaced".
EntryRestored ==
  state = "out" => \A a \in {"table", "other"} : mem[a] = boot[a] \/ boot[a] = "zero"

\* A caller that begins while the module is out runs the original call, and
\* one that begins while it is loaded with the right address runs hello; only
\* a caller that began before the module was out may find hello freed.
RightCallee ==
  \A p \in Callers : call[p] # "idle" =>
    /\ begun[p] = "out" => call[p] = "gettimeofday"
    /\ begun[p] = "live" /\ addr = "table" => call[p] \in {"hello", "crashed"}

\* Only a move between clear_wp and restore_wp harms: without one CR0.WP is
\* set again on every CPU when init and exit have returned, and no store into
\* the table faults.
WpRestored ==
  ~moved =>
    /\ step = "idle" => \A c \in Cpus : wp[c]
    /\ step = "oops" => addr # "table"
=============================================================================
