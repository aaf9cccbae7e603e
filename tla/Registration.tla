---------------------------- MODULE Registration ----------------------------
(***************************************************************************)
(* Loading and unloading of the two character devices of lab 3:            *)
(*   "m2m"        m2m_init and m2m_exit of 3lab/dev/glo_pro.c;             *)
(*   "globalvar"  globalvar_init and globalvar_exit of 3lab/dev/globalvar.c*)
(* with the processes that open and close the device meanwhile.  cdev_add  *)
(* makes the device usable at once: the node may have been made by mknod.  *)
(*                                                                         *)
(* The kernel's side, read off its use: a module reference is taken for    *)
(* the cdev's owner and for the owner of its file_operations before open   *)
(* is called, and refused once the module is going; rmmod needs that no    *)
(* reference is held; an init that fails frees the module whoever uses it. *)
(***************************************************************************)
EXTENDS Integers

CONSTANTS
  Users,     \* processes that open the device, one file at a time
  MaxLoads,  \* bound: how often the module is loaded
  MaxMsgs    \* bound: messages written in one load

ASSUME BoundAssumption == MaxLoads \in Nat /\ MaxMsgs \in Nat

VARIABLES
  driver,
  state, step,                 \* the module; program point of init or exit
  region, cdev, class, device, \* what is registered
  fields,                      \* lock, queue and wait queues are initialised
  queued,                      \* messages in msg_list (m2m)
  file, since,                 \* a user's file; the module's state when it was opened
  refs,                        \* the module's references: <<user, what for>>
  outcome,                     \* how the last load ended
  loads

registered == <<region, cdev, class, device>>
users == <<file, since, refs>>
vars == <<driver, state, step, registered, fields, queued, users, outcome, loads>>

Init ==
  /\ driver \in {"m2m", "globalvar"}
  /\ state = "out" /\ step = "idle"
  /\ region = FALSE /\ cdev = FALSE /\ class = FALSE /\ device = FALSE
  /\ fields = FALSE /\ queued = 0
  /\ file = [u \in Users |-> "none"] /\ since = [u \in Users |-> "out"]
  /\ refs = {}
  /\ outcome = "none" /\ loads = 0

---------------------------------------------------------------------------
(* init.                                                                   *)

\* Faulty: m2m_init does not prepare the device.
FirstStepRegion == "region"

\* m2m_init prepares the device first, globalvar_init after cdev_add.
FirstStep == IF driver = "m2m" THEN "fields" ELSE "region"

\* insmod.  A file left from a load that failed has lost its module: what it
\* does to the next one is not modelled.
Insmod ==
  /\ state = "out" /\ loads < MaxLoads /\ \A u \in Users : file[u] = "none"
  /\ state' = "coming" /\ loads' = loads + 1
  /\ step' = FirstStep
  /\ fields' = FALSE /\ queued' = 0 /\ refs' = {}
  /\ UNCHANGED <<driver, registered, file, since, outcome>>

\* The preparation of lock, queue and wait queues.
InitFields ==
  /\ step = "fields"
  /\ fields' = TRUE /\ step' = IF driver = "m2m" THEN "region" ELSE "class"
  /\ UNCHANGED <<driver, state, registered, queued, users, outcome, loads>>

\* alloc_chrdev_region or register_chrdev_region.
RegisterRegion ==
  /\ step = "region"
  /\ \/ region' = TRUE /\ step' = "cdev"
     \/ step' = "fail" /\ UNCHANGED region
  /\ UNCHANGED <<driver, state, cdev, class, device, fields, queued, users, outcome, loads>>

\* cdev_add.  globalvar_init only prints that it failed.
AddCdev ==
  /\ step = "cdev"
  /\ \/ cdev' = TRUE /\ step' = IF driver = "m2m" THEN "class" ELSE "fields"
     \/ step' = (IF driver = "m2m" THEN "undo_region" ELSE "class") /\ UNCHANGED cdev
  /\ UNCHANGED <<driver, state, region, class, device, fields, queued, users, outcome, loads>>

\* Faulty: the cdev stays when the class cannot be created.
ClassFailedCdevLeft == IF driver = "m2m" THEN "undo_region" ELSE "oops"

\* m2m_init undoes what it has done; globalvar_init hands the error on to
\* device_create, which dereferences it: insmod dies in init.
ClassFailed == IF driver = "m2m" THEN "undo_cdev" ELSE "oops"

\* class_create.
CreateClass ==
  /\ step = "class"
  /\ \/ class' = TRUE /\ step' = "device"
     \/ step' = ClassFailed /\ UNCHANGED class
  /\ UNCHANGED <<driver, state, region, cdev, device, fields, queued, users, outcome, loads>>

\* device_create.  globalvar_init does not look at the result.
CreateDevice ==
  /\ step = "device"
  /\ \/ device' = TRUE /\ step' = "done"
     \/ step' = (IF driver = "m2m" THEN "undo_class" ELSE "done") /\ UNCHANGED device
  /\ UNCHANGED <<driver, state, region, cdev, class, fields, queued, users, outcome, loads>>

\* init returns 0.
InitDone ==
  /\ step = "done"
  /\ state' = "live" /\ step' = "idle"
  /\ UNCHANGED <<driver, registered, fields, queued, users, outcome, loads>>

---------------------------------------------------------------------------
(* exit, and the error paths of m2m_init.                                  *)

\* rmmod.
Rmmod ==
  /\ state = "live" /\ refs = {}
  /\ state' = "going" /\ step' = "undo_device"
  /\ UNCHANGED <<driver, registered, fields, queued, users, outcome, loads>>

\* device_destroy.
DestroyDevice ==
  /\ step = "undo_device"
  /\ device' = FALSE /\ step' = "undo_class"
  /\ UNCHANGED <<driver, state, region, cdev, class, fields, queued, users, outcome, loads>>

\* class_destroy.
DestroyClass ==
  /\ step = "undo_class"
  /\ class' = FALSE /\ step' = "undo_cdev"
  /\ UNCHANGED <<driver, state, region, cdev, device, fields, queued, users, outcome, loads>>

\* cdev_del: the device cannot be opened any more; open files stay.
DelCdev ==
  /\ step = "undo_cdev"
  /\ cdev' = FALSE /\ step' = "undo_region"
  /\ UNCHANGED <<driver, state, region, class, device, fields, queued, users, outcome, loads>>

\* unregister_chrdev_region, the last step but for the messages.
UnregisterRegion ==
  /\ step = "undo_region"
  /\ region' = FALSE
  /\ step' = IF state = "coming" THEN "fail" ELSE IF driver = "m2m" THEN "drain" ELSE "exit"
  /\ UNCHANGED <<driver, state, cdev, class, device, fields, queued, users, outcome, loads>>

\* The rest of m2m_exit: list_for_each_safe ... msg_free.
FreeMessages ==
  /\ step = "drain"
  /\ queued' = 0 /\ step' = "exit"
  /\ UNCHANGED <<driver, state, registered, fields, users, outcome, loads>>

\* init returns its error, or exit returns: the module is freed.
Leave ==
  /\ step \in {"fail", "exit"}
  /\ state' = "out" /\ step' = "idle"
  /\ outcome' = IF step = "fail" THEN "failed" ELSE "unloaded"
  /\ UNCHANGED <<driver, registered, fields, queued, users, loads>>

---------------------------------------------------------------------------
(* The users.  A process whose module is out is not followed further.      *)

\* Faulty: devm.owner is not set.
OwnerRefsUnset(u) == IF driver = "m2m" THEN {<<u, "fops">>} ELSE {}

\* devm.owner is set by both drivers, .owner of the operations by m2m only.
OwnerRefs(u) == {<<u, "cdev">>} \cup (IF driver = "m2m" THEN {<<u, "fops">>} ELSE {})

\* The kernel finds the cdev and takes its references.
OpenStart(u) ==
  /\ file[u] = "none" /\ cdev /\ state \in {"coming", "live"}
  /\ file' = [file EXCEPT ![u] = "opening"] /\ since' = [since EXCEPT ![u] = state]
  /\ refs' = refs \cup OwnerRefs(u)
  /\ UNCHANGED <<driver, state, step, registered, fields, queued, outcome, loads>>

\* globalvar_open takes one more; m2m_open allocates the context, or fails.
OpenHandler(u) ==
  /\ file[u] = "opening" /\ state # "out"
  /\ \/ /\ file' = [file EXCEPT ![u] = "open"]
        /\ refs' = refs \cup (IF driver = "m2m" THEN {} ELSE {<<u, "open">>})
     \/ /\ driver = "m2m"
        /\ file' = [file EXCEPT ![u] = "none"]
        /\ refs' = refs \ OwnerRefs(u)
  /\ UNCHANGED <<driver, state, step, registered, fields, queued, since, outcome, loads>>

\* m2m_write: another message in the list (m2m_read is the other way round).
WriteMsg(u) ==
  /\ driver = "m2m" /\ file[u] = "open" /\ state # "out" /\ queued < MaxMsgs
  /\ queued' = queued + 1
  /\ UNCHANGED <<driver, state, step, registered, fields, users, outcome, loads>>

ReadMsg(u) ==
  /\ driver = "m2m" /\ file[u] = "open" /\ state # "out" /\ queued > 0
  /\ queued' = queued - 1
  /\ UNCHANGED <<driver, state, step, registered, fields, users, outcome, loads>>

\* globalvar_release drops its reference while it is still running.
ReleaseHandler(u) ==
  /\ file[u] = "open" /\ state # "out"
  /\ file' = [file EXCEPT ![u] = "closing"]
  /\ refs' = refs \ {<<u, "open">>}
  /\ UNCHANGED <<driver, state, step, registered, fields, queued, since, outcome, loads>>

\* It has returned, and the kernel drops the others.
CloseEnd(u) ==
  /\ file[u] = "closing" /\ state # "out"
  /\ file' = [file EXCEPT ![u] = "none"]
  /\ refs' = refs \ OwnerRefs(u)
  /\ UNCHANGED <<driver, state, step, registered, fields, queued, since, outcome, loads>>

---------------------------------------------------------------------------

Loader ==
  \/ Insmod \/ InitFields \/ RegisterRegion \/ AddCdev \/ CreateClass \/ CreateDevice \/ InitDone
  \/ Rmmod \/ DestroyDevice \/ DestroyClass \/ DelCdev \/ UnregisterRegion \/ FreeMessages \/ Leave

User(u) ==
  OpenStart(u) \/ OpenHandler(u) \/ WriteMsg(u) \/ ReadMsg(u) \/ ReleaseHandler(u) \/ CloseEnd(u)

Next == Loader \/ \E u \in Users : User(u)

Spec == Init /\ [][Next]_vars

---------------------------------------------------------------------------
(* Properties.                                                             *)

\* Every variable has its type.
TypeOK ==
  /\ driver \in {"m2m", "globalvar"}
  /\ state \in {"out", "coming", "live", "going"}
  /\ step \in {"idle", "fields", "region", "cdev", "class", "device", "done", "undo_device",
               "undo_class", "undo_cdev", "undo_region", "drain", "fail", "exit", "oops"}
  /\ region \in BOOLEAN /\ cdev \in BOOLEAN /\ class \in BOOLEAN /\ device \in BOOLEAN
  /\ fields \in BOOLEAN /\ queued \in 0..MaxMsgs
  /\ file \in [Users -> {"none", "opening", "open", "closing"}]
  /\ since \in [Users -> {"out", "coming", "live"}]
  /\ refs \subseteq Users \X {"cdev", "fops", "open"}
  /\ outcome \in {"none", "failed", "unloaded"} /\ loads \in 0..MaxLoads

\* A module that is out has left nothing behind: no region, cdev, class or
\* device, on whichever path it went, and after m2m_exit no message.  Messages
\* written while an m2m_init ran that then failed are not freed.
NothingLeft ==
  state = "out" =>
    /\ ~region /\ ~cdev /\ ~class /\ ~device
    /\ queued > 0 => outcome = "failed"

\* No process is in a handler of an unprepared device, but for globalvar
\* while its init is still running: cdev_add precedes sema_init there.
FieldsReady ==
  (\E u \in Users : file[u] # "none") /\ ~fields => driver = "globalvar" /\ state = "coming"

\* The module stays while a process is in one of its handlers or has a file of
\* it open, although globalvar_release drops a reference while it runs.  The
\* one exception: a file opened while m2m_init was running, which then failed.
ModuleInUseStays ==
  \A u \in Users : file[u] # "none" =>
    \/ state \in {"coming", "live"}
    \/ state = "out" /\ driver = "m2m" /\ since[u] = "coming" /\ outcome = "failed"
=============================================================================
