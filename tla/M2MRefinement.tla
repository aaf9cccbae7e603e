---------------------------- MODULE M2MRefinement ---------------------------
(***************************************************************************)
(* The driver implements the message queue of MsgQueue.  A write takes     *)
(* effect at its list_add_tail and a read at its list_del, both under the  *)
(* mutex; everything before that step may still fail without effect.       *)
(***************************************************************************)
EXTENDS M2M

\* How far a call at program point l has come, as its caller may think of it.
CallState(l) ==
  CASE l \in {"rd_try", "rd_wait", "rd_cond", "rd_sleep", "rd_lock"} -> "reading"
    [] l \in {"rd_bytes", "rd_copy"} -> "took"
    [] l \in {"wr_check", "wr_wait", "wr_cond", "wr_sleep", "wr_alloc", "wr_lock"} -> "writing"
    [] l \in {"wr_bytes", "wr_wake"} -> "put"
    [] OTHER -> "idle"

\* The messages of list l without the ghost position.
Contents(l) == [i \in 1..Len(l) |-> [from |-> l[i].from, len |-> l[i].len]]

Queue == INSTANCE MsgQueue WITH
  Lens     <- Counts,
  MaxLen   <- MAX_MSG,
  Fault    <- EFAULT,
  Failures <- {EAGAIN, ENOMEM, EFAULT, ERESTARTSYS},
  Results  <- {0, 1, ENOMEM, EMSGSIZE},
  queue    <- Contents(msg_list),
  st       <- [p \in Procs |-> CallState(pc[p])],
  arg      <- count,
  got      <- [p \in Procs |-> m[p].len],
  ret      <- ret

\* The driver is a FIFO queue: concurrent calls take effect one at a time, a
\* call that reports an error other than a fault of the reader's buffer had no
\* effect, and a message goes to one reader, in the order of the writes.
ImplementsQueue == Queue!Spec
=============================================================================
