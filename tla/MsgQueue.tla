------------------------------ MODULE MsgQueue ------------------------------
(***************************************************************************)
(* What the character device promises its callers: a FIFO queue of         *)
(* messages.  Each call takes effect at one instant between its beginning  *)
(* and its end, or fails and has no effect; the one exception is a read    *)
(* whose user buffer faults after the message was taken (the message is    *)
(* gone).  Capacity is not part of the promise: see M2M!SoftCapacity.      *)
(***************************************************************************)
EXTENDS Integers, Sequences

CONSTANTS
  Procs,     \* the callers
  Lens,      \* lengths of messages and of read buffers
  MaxLen,    \* longest message
  Fault,     \* result of a read whose buffer faults
  Failures,  \* results of reads and writes that had no effect
  Results    \* results of the calls that never touch the queue

VARIABLES queue, st, arg, got, ret
vars == <<queue, st, arg, got, ret>>

Init ==
  /\ queue = <<>>
  /\ st = [p \in Procs |-> "idle"]
  /\ arg = [p \in Procs |-> 0]
  /\ got = [p \in Procs |-> 0]
  /\ ret = [p \in Procs |-> 0]

Begin(p, op, n) ==
  /\ st[p] = "idle"
  /\ op = "writing" => n \in 1..MaxLen
  /\ st' = [st EXCEPT ![p] = op]
  /\ arg' = [arg EXCEPT ![p] = n]
  /\ ret' = [ret EXCEPT ![p] = 0]
  /\ UNCHANGED <<queue, got>>

Put(p) ==
  /\ st[p] = "writing"
  /\ queue' = Append(queue, [from |-> p, len |-> arg[p]])
  /\ st' = [st EXCEPT ![p] = "put"]
  /\ UNCHANGED <<arg, got, ret>>

Take(p) ==
  /\ st[p] = "reading" /\ queue # <<>>
  /\ got' = [got EXCEPT ![p] = Head(queue).len]
  /\ queue' = Tail(queue)
  /\ st' = [st EXCEPT ![p] = "took"]
  /\ UNCHANGED <<arg, ret>>

End(p, v) ==
  /\ st' = [st EXCEPT ![p] = "idle"]
  /\ arg' = [arg EXCEPT ![p] = 0]
  /\ got' = [got EXCEPT ![p] = 0]
  /\ ret' = [ret EXCEPT ![p] = v]
  /\ UNCHANGED queue

\* A successful write returns its length; a successful read the length of
\* the message it took, cut to the buffer.
EndPut(p)  == st[p] = "put" /\ End(p, arg[p])
EndTake(p) ==
  /\ st[p] = "took"
  /\ End(p, Fault) \/ End(p, IF arg[p] <= got[p] THEN arg[p] ELSE got[p])
Fail(p)    == st[p] \in {"reading", "writing"} /\ \E v \in Failures : End(p, v)

\* Calls that never touch the queue (open, close, poll, empty writes).
Other(p) ==
  /\ st[p] = "idle"
  /\ \E v \in Results : ret' = [ret EXCEPT ![p] = v]
  /\ UNCHANGED <<queue, st, arg, got>>

\* Unloading the module empties the queue; nobody has the device open then.
Discard ==
  /\ \A p \in Procs : st[p] = "idle"
  /\ queue' = <<>>
  /\ UNCHANGED <<st, arg, got, ret>>

Next ==
  \/ Discard
  \/ \E p \in Procs :
       \/ \E op \in {"reading", "writing"}, n \in Lens : Begin(p, op, n)
       \/ Put(p) \/ Take(p) \/ EndPut(p) \/ EndTake(p) \/ Fail(p) \/ Other(p)

Spec == Init /\ [][Next]_vars
=============================================================================
