------------------------------ MODULE Signals -------------------------------
(***************************************************************************)
(* The signal programs of 2lab/1: a parent waits for SIGINT, SIGQUIT or    *)
(* the end of a delay, sends signal 16 to its first child and 17 to its    *)
(* second, and waits for both to end.  1-1.c is the first version; in      *)
(* 1-2.c the children report through a pipe that they are ready; 1-3.c     *)
(* waits with alarm() and pause() instead of sleep().                      *)
(*                                                                         *)
(* Granularity.  A handler runs between two steps of its process.  pause() *)
(* is two program points: before the call ("pause") and asleep in it       *)
(* ("paused"); a signal handled at the first does not end the call.        *)
(* signal() restarts interrupted calls, so read() and wait() go on.        *)
(***************************************************************************)
EXTENDS Integers

CONSTANTS
  MaxWait,  \* seconds waiting() sleeps (5 in the code)
  MaxKeys   \* bound on the signals typed at the terminal

ASSUME SignalsAssumption == MaxWait \in Nat /\ MaxKeys \in Nat

VARIABLES
  program,         \* the file that runs
  pc,
  pending,         \* signals sent to a process and not yet handled
  handler,         \* the children whose child_signal_handler is installed
  parent_recv_sig, child_recv_sig,
  ready, ready_count, \* bytes in the pipe; bytes the parent has read
  waited,          \* seconds waiting() has slept
  alarm,           \* the timer of alarm(): "off", "set" or "fired"
  status,          \* how a child ended, as wait() reports it
  reaped,          \* the children wait() has reported
  said,            \* the line the parent printed after waiting()
  keys,            \* signals typed so far (bounded by MaxKeys)
  handled, sent    \* history: signals the parent handled; children signalled

pipeVars   == <<ready, ready_count>>
parentVars == <<parent_recv_sig, waited, alarm, reaped, said>>
vars == <<program, pc, pending, handler, child_recv_sig, status, keys, handled, sent,
          pipeVars, parentVars>>

SIGINT  == 2
SIGQUIT == 3
SIGALRM == 14

Parent   == "parent"
Children == {"child1", "child2"}
Procs    == Children \cup {Parent}

\* The signal a child is killed with.
SigOf(c) == IF c = "child1" THEN 16 ELSE 17

Goto(p, l) == pc' = [pc EXCEPT ![p] = l]

Alive(p) == pc[p] \notin {"unborn", "ended"}

\* main has installed its handlers, which the children inherit.
Init ==
  /\ program \in {"1-1", "1-2", "1-3"}
  /\ pc = [p \in Procs |-> IF p = Parent THEN "fork1" ELSE "unborn"]
  /\ pending = [p \in Procs |-> {}]
  /\ handler = {} /\ parent_recv_sig = 0 /\ child_recv_sig = [c \in Children |-> 0]
  /\ ready = 0 /\ ready_count = 0 /\ waited = 0 /\ alarm = "off"
  /\ status = [c \in Children |-> "running"]
  /\ reaped = {} /\ said = "nothing" /\ keys = 0 /\ handled = {} /\ sent = {}

---------------------------------------------------------------------------
(* Signals.                                                                *)

\* ^C or ^\ at the terminal goes to every process of the group.
Key(s) ==
  /\ keys < MaxKeys /\ keys' = keys + 1
  /\ pending' = [p \in Procs |-> IF Alive(p) THEN pending[p] \cup {s} ELSE pending[p]]
  /\ UNCHANGED <<program, pc, handler, child_recv_sig, status, handled, sent,
                 pipeVars, parentVars>>

AlarmFires ==
  /\ alarm = "set" /\ alarm' = "fired"
  /\ pending' = [pending EXCEPT ![Parent] = IF Alive(Parent) THEN @ \cup {SIGALRM} ELSE @]
  /\ UNCHANGED <<program, pc, handler, child_recv_sig, status, keys, handled, sent, pipeVars,
                 parent_recv_sig, waited, reaped, said>>

\* A handled signal ends pause().
AfterSignal(p) == IF pc[p] = "paused" THEN "test" ELSE pc[p]

\* inter_handler, in the parent.
ParentHandles(s) ==
  /\ Alive(Parent) /\ s \in pending[Parent]
  /\ pending' = [pending EXCEPT ![Parent] = @ \ {s}]
  /\ parent_recv_sig' = s /\ handled' = handled \cup {s}
  /\ Goto(Parent, AfterSignal(Parent))
  /\ UNCHANGED <<program, handler, child_recv_sig, status, keys, sent, pipeVars,
                 waited, alarm, reaped, said>>

\* Faulty: inter_handler is installed for the child's own signal too.
SetsNothing(c, s) == child_recv_sig[c]

\* What a handler leaves in child_recv_sig: child_signal_handler sets it,
\* the inherited inter_handler sets the child's copy of parent_recv_sig,
\* which nothing reads.
ChildRecv(c, s) == IF s = SigOf(c) THEN s ELSE child_recv_sig[c]

ChildHandles(c, s) ==
  /\ Alive(c) /\ s \in pending[c]
  /\ pending' = [pending EXCEPT ![c] = @ \ {s}]
  /\ child_recv_sig' = [child_recv_sig EXCEPT ![c] = ChildRecv(c, s)]
  /\ Goto(c, AfterSignal(c))
  /\ UNCHANGED <<program, handler, status, keys, handled, sent, pipeVars, parentVars>>

---------------------------------------------------------------------------
(* The children.                                                           *)

InstallHandler(c) ==
  /\ pc[c] = "start"
  /\ handler' = handler \cup {c}
  /\ Goto(c, IF program = "1-1" THEN "test" ELSE "report")
  /\ UNCHANGED <<program, pending, child_recv_sig, status, keys, handled, sent, pipeVars, parentVars>>

ReportReady(c) ==
  /\ pc[c] = "report"
  /\ ready' = ready + 1
  /\ Goto(c, "test")
  /\ UNCHANGED <<program, pending, handler, child_recv_sig, status, keys, handled, sent,
                 ready_count, parentVars>>

ChildTest(c) ==
  /\ pc[c] = "test"
  /\ \/ /\ child_recv_sig[c] = 0
        /\ Goto(c, "pause")
        /\ UNCHANGED status
     \/ /\ child_recv_sig[c] # 0
        /\ Goto(c, "ended")
        /\ status' = [status EXCEPT ![c] = "exited"]
  /\ UNCHANGED <<program, pending, handler, child_recv_sig, keys, handled, sent, pipeVars, parentVars>>

\* The call itself; a signal that is pending ends it at once.
Pause(p) ==
  /\ pc[p] = "pause" /\ Goto(p, "paused")
  /\ UNCHANGED <<program, pending, handler, child_recv_sig, status, keys, handled, sent,
                 pipeVars, parentVars>>

---------------------------------------------------------------------------
(* The parent.                                                             *)

\* fork() is repeated until it succeeds.
Fork(l, c, next) ==
  /\ pc[Parent] = l
  /\ pc' = [pc EXCEPT ![Parent] = next, ![c] = "start"]
  /\ UNCHANGED <<program, pending, handler, child_recv_sig, status, keys, handled, sent,
                 pipeVars, parentVars>>

\* Faulty: one report is enough.
OneReady == 1

ReadyNeeded == 2

\* read() of one byte from the pipe.
ReadReady ==
  /\ pc[Parent] = "ready" /\ ready > 0
  /\ ready' = ready - 1 /\ ready_count' = ready_count + 1
  /\ Goto(Parent, IF ready_count + 1 < ReadyNeeded THEN "ready"
                  ELSE IF program = "1-3" THEN "alarm" ELSE "test")
  /\ UNCHANGED <<program, pending, handler, child_recv_sig, status, keys, handled, sent, parentVars>>

SetAlarm ==
  /\ pc[Parent] = "alarm"
  /\ alarm' = "set"
  /\ Goto(Parent, "test")
  /\ UNCHANGED <<program, pending, handler, child_recv_sig, status, keys, handled, sent, pipeVars,
                 parent_recv_sig, waited, reaped, said>>

\* Faulty: one second too few.
SleepsOnTooShort == waited + 1 < MaxWait

\* The seconds of waiting() are not over; the version with alarm() counts none.
SleepsOn == waited < MaxWait

\* The loop of waiting().
WaitTest ==
  /\ pc[Parent] = "test"
  /\ \/ parent_recv_sig = 0 /\ program = "1-3" /\ Goto(Parent, "pause")
     \/ parent_recv_sig = 0 /\ program # "1-3" /\ SleepsOn /\ Goto(Parent, "sleep")
     \/ /\ parent_recv_sig # 0 \/ (program # "1-3" /\ ~SleepsOn)
        /\ Goto(Parent, "say")
  /\ UNCHANGED <<program, pending, handler, child_recv_sig, status, keys, handled, sent,
                 pipeVars, parentVars>>

\* sleep(1) ends after a second or with a signal.
Sleep ==
  /\ pc[Parent] = "sleep"
  /\ waited' = waited + 1
  /\ Goto(Parent, "test")
  /\ UNCHANGED <<program, pending, handler, child_recv_sig, status, keys, handled, sent, pipeVars,
                 parent_recv_sig, alarm, reaped, said>>

\* The report on parent_recv_sig; 1-3.c reads the variable a second time when
\* it was not SIGINT.
Say ==
  /\ \/ /\ pc[Parent] = "say" /\ program # "1-3"
        /\ said' = (IF parent_recv_sig # 0 THEN "signal" ELSE "none")
        /\ Goto(Parent, "kill1")
     \/ /\ pc[Parent] = "say" /\ program = "1-3" /\ parent_recv_sig = SIGINT
        /\ said' = "signal"
        /\ Goto(Parent, "kill1")
     \/ /\ pc[Parent] = "say" /\ program = "1-3" /\ parent_recv_sig # SIGINT
        /\ Goto(Parent, "say2")
        /\ UNCHANGED said
     \/ /\ pc[Parent] = "say2"
        /\ said' = (IF parent_recv_sig = SIGQUIT THEN "signal" ELSE "alarm")
        /\ Goto(Parent, "kill1")
  /\ UNCHANGED <<program, pending, handler, child_recv_sig, status, keys, handled, sent, pipeVars,
                 parent_recv_sig, waited, alarm, reaped>>

\* kill().  Without a handler 16 ends the child, and 17, which is SIGCHLD, is
\* ignored by default.
Kill(l, c, next) ==
  /\ pc[Parent] = l
  /\ sent' = sent \cup {c}
  /\ \/ /\ c \in handler /\ Alive(c)
        /\ pending' = [pending EXCEPT ![c] = @ \cup {SigOf(c)}]
        /\ Goto(Parent, next)
        /\ UNCHANGED status
     \/ /\ c \notin handler /\ SigOf(c) = 16
        /\ pc' = [pc EXCEPT ![Parent] = next, ![c] = "ended"]
        /\ status' = [status EXCEPT ![c] = "killed"]
        /\ UNCHANGED pending
     \/ /\ c \notin handler /\ SigOf(c) = 17
        /\ Goto(Parent, next)
        /\ UNCHANGED <<pending, status>>
  /\ UNCHANGED <<program, handler, child_recv_sig, keys, handled, pipeVars, parentVars>>

\* wait() reports one child; with none left it fails and main returns.
Wait ==
  /\ pc[Parent] = "wait"
  /\ \/ /\ \E c \in Children \ reaped :
             status[c] # "running" /\ reaped' = reaped \cup {c}
        /\ UNCHANGED pc
     \/ /\ reaped = Children
        /\ Goto(Parent, "ended")
        /\ UNCHANGED reaped
  /\ UNCHANGED <<program, pending, handler, child_recv_sig, status, keys, handled, sent, pipeVars,
                 parent_recv_sig, waited, alarm, said>>

---------------------------------------------------------------------------

ChildStep(c) ==
  \/ InstallHandler(c) \/ ReportReady(c) \/ ChildTest(c) \/ Pause(c)
  \/ \E s \in {SIGINT, SIGQUIT, SigOf(c)} : ChildHandles(c, s)

ParentStep ==
  \/ Fork("fork1", "child1", "fork2")
  \/ Fork("fork2", "child2", IF program = "1-1" THEN "test" ELSE "ready")
  \/ ReadReady \/ SetAlarm \/ WaitTest \/ Sleep \/ Pause(Parent) \/ Say
  \/ Kill("kill1", "child1", "kill2") \/ Kill("kill2", "child2", "wait") \/ Wait
  \/ \E s \in {SIGINT, SIGQUIT, SIGALRM} : ParentHandles(s)

Next ==
  \/ \E s \in {SIGINT, SIGQUIT} : Key(s)
  \/ AlarmFires
  \/ ParentStep
  \/ \E c \in Children : ChildStep(c)

Spec == Init /\ [][Next]_vars

\* Every process runs on and the timer runs out; nobody has to type anything.
FairSpec == Spec /\ WF_vars(ParentStep) /\ WF_vars(AlarmFires)
                 /\ \A c \in Children : WF_vars(ChildStep(c))

---------------------------------------------------------------------------
(* Properties.                                                             *)

ParentPcs == {"fork1", "fork2", "ready", "alarm", "test", "sleep", "pause", "paused",
              "say", "say2", "kill1", "kill2", "wait", "ended"}
ChildPcs  == {"unborn", "start", "report", "test", "pause", "paused", "ended"}

\* Every variable has its type; waiting() never sleeps longer than it says.
TypeOK ==
  /\ program \in {"1-1", "1-2", "1-3"}
  /\ pc \in [Procs -> ParentPcs \cup ChildPcs]
  /\ pc[Parent] \in ParentPcs /\ \A c \in Children : pc[c] \in ChildPcs
  /\ pending \in [Procs -> SUBSET {SIGINT, SIGQUIT, SIGALRM, 16, 17}]
  /\ handler \subseteq Children /\ reaped \subseteq Children /\ sent \subseteq Children
  /\ parent_recv_sig \in {0, SIGINT, SIGQUIT, SIGALRM}
  /\ child_recv_sig \in [Children -> {0, 16, 17}]
  /\ ready \in 0..2 /\ ready_count \in 0..2 /\ waited \in 0..MaxWait
  /\ alarm \in {"off", "set", "fired"}
  /\ status \in [Children -> {"running", "exited", "killed"}]
  /\ said \in {"nothing", "none", "signal", "alarm"}
  /\ keys \in 0..MaxKeys /\ handled \subseteq {SIGINT, SIGQUIT, SIGALRM}

\* What the pipe of 1-2.c and 1-3.c is for: whenever the parent sends its
\* signal, the child has its handler.  No child dies of the signal and no
\* signal is ignored, in whatever order the two children get ready.
HandshakeDelivers ==
  program # "1-1" =>
    \A c \in Children :
      /\ status[c] # "killed"
      /\ c \in sent => SigOf(c) \in pending[c] \/ child_recv_sig[c] = SigOf(c)

\* The variables have their types, and the parent reports what happened.
\* "none" follows the whole delay, and "signal" a key.  "alarm" follows
\* SIGALRM, or a key that arrived between the two reads of parent_recv_sig by
\* 1-3.c, after the other key.
ReportTruthful ==
  /\ TypeOK
  /\ said = "none" => waited = MaxWait
  /\ said = "signal" => handled \cap {SIGINT, SIGQUIT} # {}
  /\ said = "alarm" => SIGALRM \in handled \/ {SIGINT, SIGQUIT} \subseteq handled

\* A process sleeps in pause() although the signal it waits for was handled:
\* it came between the test of the loop and the call.
Stranded ==
  \/ pc[Parent] = "paused" /\ parent_recv_sig # 0
  \/ \E c \in Children : pc[c] = "paused" /\ child_recv_sig[c] # 0

\* The second child of 1-1.c was signalled before it had a handler.
SignalIgnored ==
  program = "1-1" /\ "child2" \in sent /\ SigOf("child2") \notin pending["child2"]
    /\ child_recv_sig["child2"] = 0

\* Everybody ends, unless a signal is lost in one of these two ways; nothing
\* else keeps the parent from collecting both children.
EndsUnlessSignalLost ==
  <>(pc[Parent] = "ended") \/ []<>(Stranded \/ SignalIgnored)
=============================================================================
