-------------------------------- MODULE M2M --------------------------------
(***************************************************************************)
(* The /dev/m2mchardev message queue of 3lab/dev/glo_pro.c: one device,    *)
(* opened by several processes that read, write and poll it concurrently.  *)
(*                                                                         *)
(* Granularity.  A process moves from one program point (pc) to the next   *)
(* in one step.  A critical section of dev->lock that only reads is one    *)
(* step, taken while the mutex is free; one that changes both msg_list and *)
(* queued_bytes is two steps, with the mutex held in between, because      *)
(* wait_event_interruptible evaluates its condition without the mutex.     *)
(* wait_event_interruptible is three program points: x_wait (fast test of  *)
(* the condition, then the task is put on the wait queue), x_cond (test    *)
(* again) and x_sleep.  wake_up_interruptible takes every task off the     *)
(* wait queue: none of the waiters is exclusive.                           *)
(***************************************************************************)
EXTENDS Integers, Sequences, FiniteSets

CONSTANTS
  Procs,      \* processes, each with one open file of the device
  Readers,    \* the processes that call read()
  Writers,    \* the processes that call write()
  Pollers,    \* the processes that call poll()
  NoProc,     \* no owner of the mutex
  MAX_BYTES,  \* limit on the bytes queued (64 KiB in the code)
  MAX_MSG,    \* limit on one message (4 KiB in the code)
  Counts,     \* the byte counts passed to read() and write()
  MaxWrites   \* bound on the number of write() calls of a behaviour

ASSUME ProcsAssumption ==
  /\ IsFiniteSet(Procs)
  /\ Readers \subseteq Procs /\ Writers \subseteq Procs /\ Pollers \subseteq Procs
  /\ Writers # {}
  /\ NoProc \notin Procs

ASSUME SizesAssumption ==
  /\ MAX_BYTES \in Nat /\ MAX_MSG \in Nat
  /\ Counts \subseteq Nat
  /\ MaxWrites \in Nat

VARIABLES
  loaded,        \* the module is in the kernel
  msg_list,      \* dev->msg_list
  queued_bytes,  \* dev->queued_bytes
  lock,          \* dev->lock: its owner
  readq, writeq, \* tasks waiting on dev->readq, dev->writeq
  nreaders, nwriters, \* dev->readers, dev->writers
  file,          \* the file of each process: closed, or its blocking mode
  pc,            \* program point of each process
  count,         \* the count argument of the call in progress
  events,        \* the events a poll() in progress waits for
  m,             \* the message a read() has taken off the list
  ret,           \* what the last call returned
  writes,        \* write() calls so far (bounded by MaxWrites)
  bytes_in, bytes_out  \* history: bytes ever put on, and taken off, msg_list

devVars  == <<msg_list, queued_bytes, lock, bytes_in, bytes_out>>
waitVars == <<readq, writeq>>
fileVars == <<loaded, nreaders, nwriters, file>>
callVars == <<count, events, m, writes>>
vars == <<devVars, waitVars, fileVars, callVars, pc, ret>>

EAGAIN == -11
ENOMEM == -12
EFAULT == -14
EMSGSIZE == -90
ERESTARTSYS == -512

\* struct msg: its payload is told apart by its writer; "at" is a ghost, the
\* number of bytes ever queued before it.
Msg == [from : Procs, len : Nat, at : Nat]
NoMsg == [from |-> NoProc, len |-> 0, at |-> 0]

ReadPcs  == {"rd_try", "rd_wait", "rd_cond", "rd_sleep", "rd_lock", "rd_bytes", "rd_copy"}
WritePcs == {"wr_check", "wr_wait", "wr_cond", "wr_sleep", "wr_alloc", "wr_lock",
             "wr_bytes", "wr_wake"}
PollPcs  == {"pl_check", "pl_sleep"}
Pcs == {"idle"} \cup ReadPcs \cup WritePcs \cup PollPcs

Min2(a, b) == IF a <= b THEN a ELSE b

Goto(p, l) == pc' = [pc EXCEPT ![p] = l]

\* Enter the kernel at program point l; the call has no result yet.
Enter(p, l) == Goto(p, l) /\ ret' = [ret EXCEPT ![p] = 0]

\* Back to user space with value v; the locals of the call are gone.
Return(p, v) ==
  /\ pc' = [pc EXCEPT ![p] = "idle"]
  /\ ret' = [ret EXCEPT ![p] = v]
  /\ count' = [count EXCEPT ![p] = 0]
  /\ m' = [m EXCEPT ![p] = NoMsg]
  /\ events' = [events EXCEPT ![p] = {}]
  /\ UNCHANGED writes

Init ==
  /\ loaded = TRUE
  /\ msg_list = <<>> /\ queued_bytes = 0 /\ lock = NoProc
  /\ readq = {} /\ writeq = {}
  /\ nreaders = 0 /\ nwriters = 0
  /\ file = [p \in Procs |-> "closed"]
  /\ pc = [p \in Procs |-> "idle"]
  /\ count = [p \in Procs |-> 0]
  /\ events = [p \in Procs |-> {}]
  /\ m = [p \in Procs |-> NoMsg]
  /\ ret = [p \in Procs |-> 0]
  /\ writes = 0
  /\ bytes_in = 0 /\ bytes_out = 0

---------------------------------------------------------------------------
(* Module load and unload, open and release.                               *)

\* m2m_init on a module that was unloaded: every field is set afresh; the
\* registration may fail at any of its four stages, which are then undone.
M2MInit ==
  /\ ~loaded
  /\ loaded' \in BOOLEAN
  /\ msg_list' = <<>> /\ queued_bytes' = 0 /\ lock' = NoProc
  /\ readq' = {} /\ writeq' = {}
  /\ nreaders' = 0 /\ nwriters' = 0
  /\ bytes_in' = 0 /\ bytes_out' = 0
  /\ UNCHANGED <<file, callVars, pc, ret>>

\* m2m_exit.  fops.owner pins the module while a file is open.
M2MExit ==
  /\ loaded /\ lock = NoProc
  /\ \A p \in Procs : file[p] = "closed"
  /\ loaded' = FALSE
  /\ msg_list' = <<>>
  /\ bytes_out' = bytes_in
  /\ UNCHANGED <<queued_bytes, lock, bytes_in, waitVars, nreaders, nwriters, file,
                 callVars, pc, ret>>

\* m2m_open; kzalloc may fail.
Open(p, mode) ==
  /\ loaded /\ file[p] = "closed" /\ pc[p] = "idle"
  /\ \/ /\ file' = [file EXCEPT ![p] = mode]
        /\ nreaders' = nreaders + 1 /\ nwriters' = nwriters + 1
        /\ Return(p, 0)
     \/ /\ Return(p, ENOMEM)
        /\ UNCHANGED <<file, nreaders, nwriters>>
  /\ UNCHANGED <<loaded, devVars, waitVars>>

\* Faulty: the count of writers is not decremented.
OneLessReader(n, role) == IF role = "writer" THEN n ELSE n - 1

\* atomic_dec of the count of readers, or of writers.
OneLess(n, role) == n - 1

\* m2m_release runs when the last use of the file is over.
Release(p) ==
  /\ file[p] # "closed" /\ pc[p] = "idle"
  /\ file' = [file EXCEPT ![p] = "closed"]
  /\ nreaders' = OneLess(nreaders, "reader") /\ nwriters' = OneLess(nwriters, "writer")
  /\ Return(p, 0)
  /\ UNCHANGED <<loaded, devVars, waitVars>>

---------------------------------------------------------------------------
(* m2m_read.                                                               *)

Read(p, n) ==
  /\ file[p] # "closed" /\ pc[p] = "idle"
  /\ Enter(p, IF file[p] = "nonblock" THEN "rd_try" ELSE "rd_wait")
  /\ count' = [count EXCEPT ![p] = n]
  /\ UNCHANGED <<devVars, waitVars, fileVars, events, m, writes>>

\* O_NONBLOCK: -EAGAIN on an empty list, decided under the mutex.
RdTry(p) ==
  /\ pc[p] = "rd_try" /\ lock = NoProc
  /\ \/ /\ msg_list = <<>>
        /\ Return(p, EAGAIN)
     \/ /\ msg_list # <<>>
        /\ Goto(p, "rd_wait")
        /\ UNCHANGED <<callVars, ret>>
  /\ UNCHANGED <<devVars, waitVars, fileVars>>

RdWait(p) ==
  /\ \/ pc[p] = "rd_wait"
     \/ pc[p] = "rd_sleep" /\ p \notin readq
  /\ \/ /\ msg_list # <<>>
        /\ Goto(p, "rd_lock")
        /\ UNCHANGED readq
     \/ /\ msg_list = <<>>
        /\ Goto(p, "rd_cond")
        /\ readq' = readq \cup {p}
  /\ UNCHANGED <<devVars, writeq, fileVars, callVars, ret>>

RdCond(p) ==
  /\ pc[p] = "rd_cond"
  /\ \/ /\ msg_list # <<>>
        /\ Goto(p, "rd_lock")
        /\ readq' = readq \ {p}
     \/ /\ msg_list = <<>>
        /\ Goto(p, "rd_sleep")
        /\ UNCHANGED readq
  /\ UNCHANGED <<devVars, writeq, fileVars, callVars, ret>>

\* A signal wakes the sleeper: -ERESTARTSYS unless the condition holds now.
RdSignal(p) ==
  /\ pc[p] = "rd_sleep"
  /\ readq' = readq \ {p}
  /\ \/ /\ msg_list # <<>>
        /\ Goto(p, "rd_lock")
        /\ UNCHANGED <<callVars, ret>>
     \/ /\ msg_list = <<>>
        /\ Return(p, ERESTARTSYS)
  /\ UNCHANGED <<devVars, writeq, fileVars>>

\* Second test, under the mutex; list_del of the first entry.
RdLock(p) ==
  /\ pc[p] = "rd_lock" /\ lock = NoProc
  /\ \/ /\ msg_list = <<>>
        /\ Return(p, EAGAIN)
        /\ UNCHANGED devVars
     \/ /\ msg_list # <<>>
        /\ lock' = p
        /\ m' = [m EXCEPT ![p] = Head(msg_list)]
        /\ msg_list' = Tail(msg_list)
        /\ bytes_out' = bytes_out + Head(msg_list).len
        /\ Goto(p, "rd_bytes")
        /\ UNCHANGED <<queued_bytes, bytes_in, count, events, writes, ret>>
  /\ UNCHANGED <<waitVars, fileVars>>

\* Faulty: only the bytes copied to the caller are given back.
BytesCopied(p) == Min2(count[p], m[p].len)

\* The bytes a read gives back: the whole message, however short the buffer.
BytesFreed(p) == m[p].len

\* queued_bytes -= m->len; mutex_unlock.
RdBytes(p) ==
  /\ pc[p] = "rd_bytes"
  /\ queued_bytes' = queued_bytes - BytesFreed(p)
  /\ lock' = NoProc
  /\ Goto(p, "rd_copy")
  /\ UNCHANGED <<msg_list, bytes_in, bytes_out, waitVars, fileVars, callVars, ret>>

\* Faulty: the -EFAULT path forgets the wake-up.
WriteqUnlessFault(v) == IF v = EFAULT THEN writeq ELSE {}

\* wake_up_interruptible(writeq) by a read that returns v.
WriteqWoken(v) == {}

\* copy_to_user (which may fail), msg_free and, on both paths, the wake-up.
RdCopy(p) ==
  /\ pc[p] = "rd_copy"
  /\ \E v \in {Min2(count[p], m[p].len), EFAULT} :
       Return(p, v) /\ writeq' = WriteqWoken(v)
  /\ UNCHANGED <<devVars, readq, fileVars>>

---------------------------------------------------------------------------
(* m2m_write.                                                              *)

Write(p, n) ==
  /\ file[p] # "closed" /\ pc[p] = "idle" /\ writes < MaxWrites
  /\ IF n = 0 THEN Return(p, 0)
     ELSE IF n > MAX_MSG THEN Return(p, EMSGSIZE)
     ELSE /\ Enter(p, "wr_check")
          /\ count' = [count EXCEPT ![p] = n]
          /\ writes' = writes + 1
          /\ UNCHANGED <<events, m>>
  /\ UNCHANGED <<devVars, waitVars, fileVars>>

\* Faulty back-pressure test: the new message is not counted.
FitsWithoutCount(p) == queued_bytes <= MAX_BYTES

Fits(p) == queued_bytes + count[p] <= MAX_BYTES

\* Top of the loop: room for the message?  The mutex is released again.
WrCheck(p) ==
  /\ pc[p] = "wr_check" /\ lock = NoProc
  /\ \/ /\ Fits(p)
        /\ Goto(p, "wr_alloc")
        /\ UNCHANGED <<callVars, ret>>
     \/ /\ ~Fits(p) /\ file[p] = "nonblock"
        /\ Return(p, EAGAIN)
     \/ /\ ~Fits(p) /\ file[p] # "nonblock"
        /\ Goto(p, "wr_wait")
        /\ UNCHANGED <<callVars, ret>>
  /\ UNCHANGED <<devVars, waitVars, fileVars>>

WrWait(p) ==
  /\ \/ pc[p] = "wr_wait"
     \/ pc[p] = "wr_sleep" /\ p \notin writeq
  /\ \/ /\ Fits(p)
        /\ Goto(p, "wr_check")
        /\ UNCHANGED writeq
     \/ /\ ~Fits(p)
        /\ Goto(p, "wr_cond")
        /\ writeq' = writeq \cup {p}
  /\ UNCHANGED <<devVars, readq, fileVars, callVars, ret>>

WrCond(p) ==
  /\ pc[p] = "wr_cond"
  /\ \/ /\ Fits(p)
        /\ Goto(p, "wr_check")
        /\ writeq' = writeq \ {p}
     \/ /\ ~Fits(p)
        /\ Goto(p, "wr_sleep")
        /\ UNCHANGED writeq
  /\ UNCHANGED <<devVars, readq, fileVars, callVars, ret>>

WrSignal(p) ==
  /\ pc[p] = "wr_sleep"
  /\ writeq' = writeq \ {p}
  /\ \/ /\ Fits(p)
        /\ Goto(p, "wr_check")
        /\ UNCHANGED <<callVars, ret>>
     \/ /\ ~Fits(p)
        /\ Return(p, ERESTARTSYS)
  /\ UNCHANGED <<devVars, readq, fileVars>>

\* msg_alloc and copy_from_user; either may fail.
WrAlloc(p) ==
  /\ pc[p] = "wr_alloc"
  /\ \/ Return(p, ENOMEM)
     \/ Return(p, EFAULT)
     \/ /\ Goto(p, "wr_lock")
        /\ UNCHANGED <<callVars, ret>>
  /\ UNCHANGED <<devVars, waitVars, fileVars>>

\* The message of writer p, as it goes on the list.
NewMsg(p) == [from |-> p, len |-> count[p], at |-> bytes_in]

\* Faulty: list_add instead of list_add_tail.
AddHead(p) == <<NewMsg(p)>> \o msg_list

AddTail(p) == Append(msg_list, NewMsg(p))

\* list_add_tail under the mutex; the room is not tested again.
WrLock(p) ==
  /\ pc[p] = "wr_lock" /\ lock = NoProc
  /\ lock' = p
  /\ msg_list' = AddTail(p)
  /\ bytes_in' = bytes_in + count[p]
  /\ Goto(p, "wr_bytes")
  /\ UNCHANGED <<queued_bytes, bytes_out, waitVars, fileVars, callVars, ret>>

\* Faulty: queued_bytes is not updated.
BytesForgotten(p) == queued_bytes

BytesAdded(p) == queued_bytes + count[p]

\* queued_bytes += m->len; mutex_unlock.
WrBytes(p) ==
  /\ pc[p] = "wr_bytes"
  /\ queued_bytes' = BytesAdded(p)
  /\ lock' = NoProc
  /\ Goto(p, "wr_wake")
  /\ UNCHANGED <<msg_list, bytes_in, bytes_out, waitVars, fileVars, callVars, ret>>

\* Faulty: returns without waking anybody.
ReadqKept == readq

\* wake_up_interruptible(readq) by a write.
ReadqWoken == {}

WrWake(p) ==
  /\ pc[p] = "wr_wake"
  /\ readq' = ReadqWoken
  /\ Return(p, count[p])
  /\ UNCHANGED <<devVars, writeq, fileVars>>

---------------------------------------------------------------------------
(* m2m_poll, called by the poll() loop of the kernel (external): register  *)
(* on both queues, compute the mask, sleep while it has no wanted event,   *)
(* and call again when either queue is woken.                              *)

Mask == (IF msg_list # <<>> THEN {"POLLIN"} ELSE {})
          \cup (IF queued_bytes < MAX_BYTES THEN {"POLLOUT"} ELSE {})

Poll(p, ev) ==
  /\ file[p] # "closed" /\ pc[p] = "idle"
  /\ events' = [events EXCEPT ![p] = ev]
  /\ readq' = readq \cup {p} /\ writeq' = writeq \cup {p}
  /\ Enter(p, "pl_check")
  /\ UNCHANGED <<devVars, fileVars, count, m, writes>>

PlCheck(p) ==
  /\ pc[p] = "pl_check" /\ lock = NoProc
  /\ \/ /\ Mask \cap events[p] # {}
        /\ Return(p, 1)
        /\ readq' = readq \ {p} /\ writeq' = writeq \ {p}
     \/ /\ Mask \cap events[p] = {}
        /\ Goto(p, "pl_sleep")
        /\ UNCHANGED <<waitVars, callVars, ret>>
  /\ UNCHANGED <<devVars, fileVars>>

PlWoken(p) ==
  /\ pc[p] = "pl_sleep" /\ ~(p \in readq /\ p \in writeq)
  /\ readq' = readq \cup {p} /\ writeq' = writeq \cup {p}
  /\ Goto(p, "pl_check")
  /\ UNCHANGED <<devVars, fileVars, callVars, ret>>

\* A signal or the timeout ends the poll() with no event.
PlSignal(p) ==
  /\ pc[p] = "pl_sleep"
  /\ readq' = readq \ {p} /\ writeq' = writeq \ {p}
  /\ Return(p, 0)
  /\ UNCHANGED <<devVars, fileVars>>

---------------------------------------------------------------------------

Call(p) ==
  \/ \E mode \in {"block", "nonblock"} : Open(p, mode)
  \/ Release(p)
  \/ \E n \in Counts : p \in Readers /\ Read(p, n)
  \/ \E n \in Counts : p \in Writers /\ Write(p, n)
  \/ \E ev \in {{"POLLIN"}, {"POLLOUT"}} : p \in Pollers /\ Poll(p, ev)

Signal(p) == RdSignal(p) \/ WrSignal(p) \/ PlSignal(p)

\* The steps that have to get the mutex.
LockStep(p) == RdTry(p) \/ RdLock(p) \/ WrCheck(p) \/ WrLock(p) \/ PlCheck(p)

RunStep(p) ==
  \/ RdWait(p) \/ RdCond(p) \/ RdBytes(p) \/ RdCopy(p)
  \/ WrWait(p) \/ WrCond(p) \/ WrAlloc(p) \/ WrBytes(p) \/ WrWake(p)
  \/ PlWoken(p)

Next ==
  \/ M2MInit
  \/ M2MExit
  \/ \E p \in Procs : Call(p) \/ Signal(p) \/ LockStep(p) \/ RunStep(p)

Spec == Init /\ [][Next]_vars

---------------------------------------------------------------------------
(* Fairness.  A task in the kernel keeps running (weak fairness of its own *)
(* steps) and gets the mutex it queues for, since struct mutex hands the   *)
(* lock to its waiters in order (strong fairness).  Calls, signals and     *)
(* module load are the environment's choice, except that the readers run   *)
(* the loop of 3lab/dev/read.c: they open the device and read for ever.    *)

ReadLoop(p) == \E n \in Counts : Read(p, n)

FairSpec ==
  /\ Spec
  /\ WF_vars(M2MInit)
  /\ \A p \in Procs : WF_vars(RunStep(p)) /\ SF_vars(LockStep(p))
  /\ \A p \in Readers : SF_vars(Open(p, "block")) /\ SF_vars(ReadLoop(p))

---------------------------------------------------------------------------
(* Properties.                                                             *)

\* The types of the device and of its open files.
DevTypeOK ==
  /\ loaded \in BOOLEAN
  /\ msg_list \in Seq(Msg)
  /\ queued_bytes \in Nat
  /\ lock \in Procs \cup {NoProc}
  /\ readq \subseteq Procs /\ writeq \subseteq Procs
  /\ nreaders \in Int /\ nwriters \in Int
  /\ file \in [Procs -> {"closed", "block", "nonblock"}]
  /\ bytes_in \in Nat /\ bytes_out \in Nat

\* The types of the calls in progress.
CallTypeOK ==
  /\ pc \in [Procs -> Pcs]
  /\ count \in [Procs -> Nat]
  /\ events \in [Procs -> SUBSET {"POLLIN", "POLLOUT"}]
  /\ m \in [Procs -> Msg \cup {NoMsg}]
  /\ ret \in [Procs -> Int]
  /\ writes \in Nat

\* Every variable has its type.  queued_bytes is a size_t: that it stays in
\* Nat says the subtraction in m2m_read never wraps around.
TypeOK == DevTypeOK /\ CallTypeOK

\* The two-step critical sections exclude each other: the mutex is held by
\* exactly the process between its list operation and its byte count.
MutexHeld ==
  \A p \in Procs : pc[p] \in {"rd_bytes", "wr_bytes"} <=> lock = p

\* The messages on the list are exactly the bytes accepted and not yet read,
\* in the order they were accepted, with no gap and no overlap: nothing is
\* lost, duplicated or reordered by concurrent m2m_read and m2m_write.
StreamInOrder ==
  LET End(i) == msg_list[i].at + msg_list[i].len
  IN  /\ \A i \in 1..Len(msg_list) : End(i) <= bytes_in
      /\ \A i \in 1..(Len(msg_list) - 1) : msg_list[i+1].at = End(i)
      /\ msg_list = <<>> => bytes_out = bytes_in
      /\ msg_list # <<>> => /\ msg_list[1].at = bytes_out
                            /\ End(Len(msg_list)) = bytes_in

\* queued_bytes is the number of bytes on the list whenever the mutex is
\* free, and off by exactly the message in hand while it is held.
BytesExact ==
  loaded =>
    /\ lock = NoProc => queued_bytes = bytes_in - bytes_out
    /\ \A p \in Procs :
         /\ pc[p] = "rd_bytes" => queued_bytes = bytes_in - bytes_out + m[p].len
         /\ pc[p] = "wr_bytes" => queued_bytes = bytes_in - bytes_out - count[p]

\* The writers that passed the test of m2m_write and have not queued yet.
InFlight == {p \in Procs : pc[p] \in {"wr_alloc", "wr_lock", "wr_bytes"}}

\* What the capacity test is really worth: it is made before the mutex is
\* released and never repeated, so MAX_BYTES can be exceeded, but by less
\* than one message for each other writer.
SoftCapacity ==
  queued_bytes <= MAX_BYTES + (Cardinality(Writers) - 1) * MAX_MSG

\* Why SoftCapacity holds: count every writer in flight as a full message.
\* The last one to pass the test left room for its own.
CapacityReserve ==
  LET used == queued_bytes + Cardinality(InFlight) * MAX_MSG
      cap  == MAX_BYTES + Cardinality(Writers) * MAX_MSG
  IN  \/ used <= cap - MAX_MSG
      \/ \E p \in InFlight : used <= cap - count[p]

\* A call in progress has an open file, an open file pins the module, and a
\* write in progress has a legal count.
CallsInProgress ==
  \A p \in Procs :
    /\ pc[p] # "idle" => file[p] # "closed"
    /\ file[p] # "closed" => loaded
    /\ pc[p] \in WritePcs => p \in Writers /\ count[p] \in 1..MAX_MSG

\* No lost wake-up for m2m_read: a reader asleep on readq while there is a
\* message is about to be woken by the writer that queued it.
ReaderNotStranded ==
  \A p \in Procs :
    pc[p] = "rd_sleep" /\ p \in readq /\ msg_list # <<>>
      => \E w \in Procs : pc[w] \in {"wr_bytes", "wr_wake"}

\* No lost wake-up for m2m_write: a writer asleep on writeq although its
\* message fits is about to be woken by the reader that made room, also when
\* that reader's copy_to_user fails.
WriterNotStranded ==
  \A p \in Procs :
    pc[p] = "wr_sleep" /\ p \in writeq /\ Fits(p)
      => \E r \in Procs : pc[r] = "rd_copy"

\* No lost wake-up for poll(): a poller asleep although an event it waits for
\* has happened is about to be woken by whoever caused it.
PollerNotStranded ==
  \A p \in Procs :
    pc[p] = "pl_sleep" /\ p \in readq /\ p \in writeq
      => /\ "POLLIN" \in events[p] /\ msg_list # <<>>
           => \E w \in Procs : pc[w] \in {"wr_bytes", "wr_wake"}
         /\ "POLLOUT" \in events[p] /\ queued_bytes < MAX_BYTES
           => \E r \in Procs : pc[r] = "rd_copy"

\* The inductive invariant behind the safety properties.
IInv ==
  /\ TypeOK /\ CallsInProgress /\ MutexHeld /\ StreamInOrder /\ BytesExact
  /\ CapacityReserve
  /\ ReaderNotStranded /\ WriterNotStranded /\ PollerNotStranded

\* The reader and writer counts of m2m_open and m2m_release are the number
\* of open files, and no file outlives the module.
OpenCounts ==
  LET open == {p \in Procs : file[p] # "closed"}
  IN  /\ nreaders = Cardinality(open) /\ nwriters = Cardinality(open)
      /\ open # {} => loaded

\* With a reader in the loop of read.c, every write() returns, whatever the
\* other writers do: the back-pressure of m2m_write never strands a writer.
WriteReturns == \A p \in Writers : pc[p] \in WritePcs ~> pc[p] = "idle"

\* A reader that sleeps while there is a message wakes up.
SleeperWakes ==
  \A p \in Readers : (pc[p] = "rd_sleep" /\ msg_list # <<>>) ~> pc[p] # "rd_sleep"

\* 3lab/README.md: m2m_read "returns -EAGAIN if the queue is empty and the
\* file is nonblocking", so a nonblocking read never sleeps.
NonblockNeverSleeps ==
  \A p \in Procs : file[p] = "nonblock" => pc[p] # "rd_sleep"
=============================================================================
