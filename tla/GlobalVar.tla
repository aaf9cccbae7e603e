----------------------------- MODULE GlobalVar ------------------------------
(***************************************************************************)
(* The ring-buffer driver of 3lab/dev/globalvar.c (the predecessor of the  *)
(* message queue; the Makefile no longer builds it).  rd and wr are        *)
(* offsets into buffer, and end is offset MAXNUM.                          *)
(*                                                                         *)
(* Granularity.  rd and wr are only used between down and up of sem, so a  *)
(* critical section is one step.  flag is also used outside: by the reader *)
(* that tests it before it gets sem, and by the writer that sets it, and   *)
(* then wakes the readers, after it has given sem up.                      *)
(***************************************************************************)
EXTENDS Integers

CONSTANTS
  Procs,      \* processes with the device open
  Readers, Writers,
  MAXNUM,     \* bytes of the ring (100 in the code)
  Lens,       \* the len arguments of read() and write()
  MaxWrites   \* bound on the number of write() calls of a behaviour

ASSUME GlobalVarAssumption ==
  /\ Readers \subseteq Procs /\ Writers \subseteq Procs
  /\ MAXNUM \in Nat \ {0} /\ Lens \subseteq Nat /\ MaxWrites \in Nat

VARIABLES
  rd, wr, flag,
  outq,    \* tasks on the wait queue
  pc, len, \* program point and argument of each process
  writes   \* write() calls so far

ringVars == <<rd, wr, flag, outq, pc, len, writes>>

Min2(a, b) == IF a <= b THEN a ELSE b

Goto(p, l) == pc' = [pc EXCEPT ![p] = l]

\* Back to user space, with a length or an error.
Return(p) == Goto(p, "idle") /\ len' = [len EXCEPT ![p] = 0]

\* globalvar_init.
RingInit ==
  /\ rd = 0 /\ wr = 0 /\ flag = 0 /\ outq = {}
  /\ pc = [p \in Procs |-> "idle"] /\ len = [p \in Procs |-> 0]
  /\ writes = 0

---------------------------------------------------------------------------
(* globalvar_read.                                                         *)

Read(p, n) ==
  /\ pc[p] = "idle" /\ Goto(p, "rd_wait")
  /\ len' = [len EXCEPT ![p] = n]
  /\ UNCHANGED <<rd, wr, flag, outq, writes>>

\* wait_event_interruptible: fast test, then on the queue, then tested again.
RdWait(p) ==
  /\ \/ pc[p] = "rd_wait"
     \/ pc[p] = "rd_sleep" /\ p \notin outq
  /\ \/ flag # 0 /\ Goto(p, "rd_down") /\ UNCHANGED outq
     \/ flag = 0 /\ Goto(p, "rd_cond") /\ outq' = outq \cup {p}
  /\ UNCHANGED <<rd, wr, flag, len, writes>>

RdCond(p) ==
  /\ pc[p] = "rd_cond"
  /\ \/ flag # 0 /\ Goto(p, "rd_down") /\ outq' = outq \ {p}
     \/ flag = 0 /\ Goto(p, "rd_sleep") /\ UNCHANGED outq
  /\ UNCHANGED <<rd, wr, flag, len, writes>>

\* A signal wakes the sleeper: the condition is tested once more.
RdSignal(p) ==
  /\ pc[p] = "rd_sleep"
  /\ outq' = outq \ {p}
  /\ \/ flag # 0 /\ Goto(p, "rd_down") /\ UNCHANGED len
     \/ flag = 0 /\ Return(p)
  /\ UNCHANGED <<rd, wr, flag, writes>>

\* A signal during down_interruptible, of a reader or of a writer.
DownSignal(p) ==
  /\ pc[p] \in {"rd_down", "wr_down"}
  /\ Return(p)
  /\ UNCHANGED <<rd, wr, flag, outq, writes>>

\* Faulty: the end of the array, not of the ring, is the limit.
ReadLenPastEnd(n) == IF rd < wr THEN Min2(n, wr - rd) ELSE Min2(n, MAXNUM + 1 - rd)

\* The bytes a read copies from rd on; the flag, not the pointers, tells a
\* full ring from an empty one.
ReadLen(n) == IF rd < wr THEN Min2(n, wr - rd) ELSE Min2(n, MAXNUM - rd)

\* Faulty: no wrap-around.
NoWrap(x) == x

Wrap(x) == IF x = MAXNUM THEN 0 ELSE x

\* Between down and up: the flag is reset, the bytes copied (which may fail).
RdSection(p) ==
  /\ pc[p] = "rd_down"
  /\ flag' = 0
  /\ \/ UNCHANGED rd
     \/ rd' = Wrap(rd + ReadLen(len[p]))
  /\ Return(p)
  /\ UNCHANGED <<wr, outq, writes>>

---------------------------------------------------------------------------
(* globalvar_write.                                                        *)

Write(p, n) ==
  /\ pc[p] = "idle" /\ writes < MaxWrites /\ Goto(p, "wr_down")
  /\ len' = [len EXCEPT ![p] = n]
  /\ writes' = writes + 1
  /\ UNCHANGED <<rd, wr, flag, outq>>

WriteLen(n) == IF rd <= wr THEN Min2(n, MAXNUM - wr) ELSE Min2(n, rd - wr - 1)

WrSection(p) ==
  /\ pc[p] = "wr_down"
  /\ \/ /\ Return(p)
        /\ UNCHANGED wr
     \/ /\ wr' = Wrap(wr + WriteLen(len[p]))
        /\ len' = [len EXCEPT ![p] = WriteLen(len[p])]
        /\ Goto(p, "wr_flag")
  /\ UNCHANGED <<rd, flag, outq, writes>>

\* sem has been given up.
WrFlag(p) ==
  /\ pc[p] = "wr_flag"
  /\ flag' = 1
  /\ Goto(p, "wr_wake")
  /\ UNCHANGED <<rd, wr, outq, len, writes>>

\* Faulty: nobody is woken.
OutqKept == outq

OutqWoken == {}

WrWake(p) ==
  /\ pc[p] = "wr_wake"
  /\ outq' = OutqWoken
  /\ Return(p)
  /\ UNCHANGED <<rd, wr, flag, writes>>

---------------------------------------------------------------------------

RingNext == \E p \in Procs :
  \/ p \in Readers /\ \E n \in Lens : Read(p, n)
  \/ p \in Writers /\ \E n \in Lens : Write(p, n)
  \/ RdWait(p) \/ RdCond(p) \/ RdSignal(p) \/ RdSection(p)
  \/ DownSignal(p) \/ WrSection(p) \/ WrFlag(p) \/ WrWake(p)

RingSpec == RingInit /\ [][RingNext]_ringVars

---------------------------------------------------------------------------
(* Properties.                                                             *)

Pcs == {"idle", "rd_wait", "rd_cond", "rd_sleep", "rd_down",
        "wr_down", "wr_flag", "wr_wake"}

\* Every variable has its type; both pointers stay inside the ring.
RingTypeOK ==
  /\ rd \in 0..(MAXNUM - 1) /\ wr \in 0..(MAXNUM - 1)
  /\ flag \in {0, 1} /\ outq \subseteq Procs
  /\ pc \in [Procs -> Pcs] /\ len \in [Procs -> Nat]
  /\ writes \in Nat

\* Whatever the order of reads and writes, the next copy stays inside the
\* ring, its unsigned length does not wrap around, and a write behind rd does
\* not reach it.
CopiesInRing ==
  \A n \in Lens :
    /\ ReadLen(n) \in Nat /\ rd + ReadLen(n) <= MAXNUM
    /\ WriteLen(n) \in Nat /\ wr + WriteLen(n) <= MAXNUM
    /\ wr < rd => wr + WriteLen(n) < rd

\* No lost wake-up: a reader asleep on outq although flag is set is about to
\* be woken by the writer that set it.
SleeperNotStranded ==
  \A p \in Procs :
    pc[p] = "rd_sleep" /\ p \in outq /\ flag # 0 => \E w \in Procs : pc[w] = "wr_wake"
=============================================================================
