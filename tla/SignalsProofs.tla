--------------------------- MODULE SignalsProofs ----------------------------
(***************************************************************************)
(* Theorems about Signals, for every delay and every number of keys.       *)
(***************************************************************************)
EXTENDS Signals, TLAPS

\* 1 when child c has reported through the pipe.
Reported(c) == IF pc[c] \in {"test", "pause", "paused", "ended"} THEN 1 ELSE 0

\* Which program points belong to which programs, and who is born when.
Flow ==
  /\ pc[Parent] = "fork1" => \A c \in Children : pc[c] = "unborn"
  /\ pc[Parent] = "fork2" => pc["child2"] = "unborn"
  /\ program = "1-1" => /\ ready = 0 /\ ready_count = 0 /\ pc[Parent] # "ready"
                        /\ \A c \in Children : pc[c] # "report"
  /\ pc[Parent] \in {"alarm", "pause", "paused", "say2"} => program = "1-3"
  /\ pc[Parent] = "sleep" => program # "1-3"

\* A byte per child that is past its report is in the pipe or was read, the
\* parent leaves its read loop with both, and a child past its start has a
\* handler.
Handshake ==
  program # "1-1" =>
    /\ ready + ready_count = Reported("child1") + Reported("child2")
    /\ pc[Parent] \notin {"fork1", "fork2", "ready"} => ready_count = 2
    /\ \A c \in Children : pc[c] \notin {"unborn", "start"} => c \in handler

\* What parent_recv_sig and the clock say before the report: a signal that was
\* handled, SIGALRM in 1-3.c only, or the whole delay.
Evidence ==
  /\ parent_recv_sig # 0 => parent_recv_sig \in handled
  /\ program # "1-3" => alarm = "off" /\ SIGALRM \notin pending[Parent] /\ SIGALRM \notin handled
  /\ pc[Parent] = "sleep" => waited < MaxWait
  /\ pc[Parent] = "say" /\ parent_recv_sig = 0 => program # "1-3" /\ waited = MaxWait
  /\ pc[Parent] = "say2" => parent_recv_sig # 0 /\ handled \cap {SIGQUIT, SIGALRM} # {}

IInv == TypeOK /\ Flow /\ Handshake /\ HandshakeDelivers /\ Evidence /\ ReportTruthful

USE SignalsAssumption
USE DEF Parent, Children, Procs, SIGINT, SIGQUIT, SIGALRM, SigOf, Goto, pipeVars, parentVars

---------------------------------------------------------------------------
(* One lemma per conjunct of IInv.                                         *)

\* IInv holds at the start.
LEMMA InitIInv == Init => IInv
  BY DEF Init, IInv, TypeOK, Flow, Handshake, HandshakeDelivers, Evidence, ReportTruthful, Reported,
         ParentPcs, ChildPcs

\* Every step keeps the types; the pipe never holds more than two bytes.
LEMMA TypeStep == IInv /\ [Next]_vars => TypeOK'
<1>. SUFFICES ASSUME IInv, [Next]_vars PROVE TypeOK'
  OBVIOUS
<1>0. /\ TypeOK /\ Flow /\ ready + ready_count <= 2
      /\ pc[Parent] = "sleep" => waited < MaxWait
      /\ \A c \in Children : pc[c] = "report" => ready + ready_count <= 1
  BY DEF IInv, TypeOK, Flow, Handshake, Reported, Evidence
<1>1. CASE \E s \in {SIGINT, SIGQUIT} : Key(s)
  BY <1>0, <1>1 DEF Key, Alive, TypeOK, ParentPcs, ChildPcs
<1>2. CASE AlarmFires
  BY <1>0, <1>2 DEF AlarmFires, Alive, TypeOK, ParentPcs, ChildPcs
<1>3. CASE Fork("fork1", "child1", "fork2")
  BY <1>0, <1>3 DEF Fork, TypeOK, ParentPcs, ChildPcs
<1>4. CASE Fork("fork2", "child2", IF program = "1-1" THEN "test" ELSE "ready")
  BY <1>0, <1>4 DEF Fork, TypeOK, ParentPcs, ChildPcs
<1>5. CASE ReadReady
  BY <1>0, <1>5 DEF ReadReady, ReadyNeeded, Reported, TypeOK, ParentPcs, ChildPcs
<1>6. CASE SetAlarm
  BY <1>0, <1>6 DEF SetAlarm, TypeOK, ParentPcs, ChildPcs
<1>7. CASE WaitTest
  BY <1>0, <1>7 DEF WaitTest, SleepsOn, TypeOK, ParentPcs, ChildPcs
<1>8. CASE Sleep
  BY <1>0, <1>8 DEF Sleep, TypeOK, ParentPcs, ChildPcs
<1>9. CASE Pause(Parent)
  BY <1>0, <1>9 DEF Pause, TypeOK, ParentPcs, ChildPcs
<1>10. CASE Say
  BY <1>0, <1>10 DEF Say, TypeOK, ParentPcs, ChildPcs
<1>11. CASE Kill("kill1", "child1", "kill2")
  BY <1>0, <1>11 DEF Kill, Alive, TypeOK, ParentPcs, ChildPcs
<1>12. CASE Kill("kill2", "child2", "wait")
  BY <1>0, <1>12 DEF Kill, Alive, TypeOK, ParentPcs, ChildPcs
<1>13. CASE Wait
  BY <1>0, <1>13 DEF Wait, TypeOK, ParentPcs, ChildPcs
<1>14. CASE \E s \in {SIGINT, SIGQUIT, SIGALRM} : ParentHandles(s)
  BY <1>0, <1>14 DEF ParentHandles, AfterSignal, Alive, TypeOK, ParentPcs, ChildPcs
<1>15. ASSUME NEW c \in Children, InstallHandler(c) PROVE TypeOK'
  BY <1>0, <1>15 DEF InstallHandler, TypeOK, ParentPcs, ChildPcs
<1>16. ASSUME NEW c \in Children, ReportReady(c) PROVE TypeOK'
  BY <1>0, <1>16 DEF ReportReady, TypeOK, ParentPcs, ChildPcs
<1>17. ASSUME NEW c \in Children, ChildTest(c) PROVE TypeOK'
  BY <1>0, <1>17 DEF ChildTest, TypeOK, ParentPcs, ChildPcs
<1>18. ASSUME NEW c \in Children, Pause(c) PROVE TypeOK'
  BY <1>0, <1>18 DEF Pause, TypeOK, ParentPcs, ChildPcs
<1>19. ASSUME NEW c \in Children, \E s \in {SIGINT, SIGQUIT, SigOf(c)} : ChildHandles(c, s) PROVE TypeOK'
  BY <1>0, <1>19 DEF ChildHandles, AfterSignal, ChildRecv, Alive, TypeOK, ParentPcs, ChildPcs
<1>20. CASE UNCHANGED vars
  BY <1>0, <1>20 DEF vars, TypeOK, ParentPcs, ChildPcs
<1>. QED
  BY <1>1, <1>2, <1>3, <1>4, <1>5, <1>6, <1>7, <1>8, <1>9, <1>10, <1>11, <1>12, <1>13, <1>14, <1>15, <1>16, <1>17, <1>18, <1>19, <1>20
     DEF Next, ParentStep, ChildStep

\* Program points and births.
LEMMA FlowStep == IInv /\ [Next]_vars => Flow'
<1>. SUFFICES ASSUME IInv, [Next]_vars PROVE Flow'
  OBVIOUS
<1>0. TypeOK /\ Flow
  BY DEF IInv
<1>1. CASE \E s \in {SIGINT, SIGQUIT} : Key(s)
  BY <1>0, <1>1 DEF Key, Alive, Flow, TypeOK, ParentPcs, ChildPcs
<1>2. CASE AlarmFires
  BY <1>0, <1>2 DEF AlarmFires, Alive, Flow, TypeOK, ParentPcs, ChildPcs
<1>3. CASE Fork("fork1", "child1", "fork2")
  BY <1>0, <1>3 DEF Fork, Flow, TypeOK, ParentPcs, ChildPcs
<1>4. CASE Fork("fork2", "child2", IF program = "1-1" THEN "test" ELSE "ready")
  BY <1>0, <1>4 DEF Fork, Flow, TypeOK, ParentPcs, ChildPcs
<1>5. CASE ReadReady
  BY <1>0, <1>5 DEF ReadReady, ReadyNeeded, Reported, Flow, TypeOK, ParentPcs, ChildPcs
<1>6. CASE SetAlarm
  BY <1>0, <1>6 DEF SetAlarm, Flow, TypeOK, ParentPcs, ChildPcs
<1>7. CASE WaitTest
  BY <1>0, <1>7 DEF WaitTest, SleepsOn, Flow, TypeOK, ParentPcs, ChildPcs
<1>8. CASE Sleep
  BY <1>0, <1>8 DEF Sleep, Flow, TypeOK, ParentPcs, ChildPcs
<1>9. CASE Pause(Parent)
  BY <1>0, <1>9 DEF Pause, Flow, TypeOK, ParentPcs, ChildPcs
<1>10. CASE Say
  BY <1>0, <1>10 DEF Say, Flow, TypeOK, ParentPcs, ChildPcs
<1>11. CASE Kill("kill1", "child1", "kill2")
  BY <1>0, <1>11 DEF Kill, Alive, Flow, TypeOK, ParentPcs, ChildPcs
<1>12. CASE Kill("kill2", "child2", "wait")
  BY <1>0, <1>12 DEF Kill, Alive, Flow, TypeOK, ParentPcs, ChildPcs
<1>13. CASE Wait
  BY <1>0, <1>13 DEF Wait, Flow, TypeOK, ParentPcs, ChildPcs
<1>14. CASE \E s \in {SIGINT, SIGQUIT, SIGALRM} : ParentHandles(s)
  BY <1>0, <1>14 DEF ParentHandles, AfterSignal, Alive, Flow, TypeOK, ParentPcs, ChildPcs
<1>15. ASSUME NEW c \in Children, InstallHandler(c) PROVE Flow'
  BY <1>0, <1>15 DEF InstallHandler, Flow, TypeOK, ParentPcs, ChildPcs
<1>16. ASSUME NEW c \in Children, ReportReady(c) PROVE Flow'
  BY <1>0, <1>16 DEF ReportReady, Flow, TypeOK, ParentPcs, ChildPcs
<1>17. ASSUME NEW c \in Children, ChildTest(c) PROVE Flow'
  BY <1>0, <1>17 DEF ChildTest, Flow, TypeOK, ParentPcs, ChildPcs
<1>18. ASSUME NEW c \in Children, Pause(c) PROVE Flow'
  BY <1>0, <1>18 DEF Pause, Flow, TypeOK, ParentPcs, ChildPcs
<1>19. ASSUME NEW c \in Children, \E s \in {SIGINT, SIGQUIT, SigOf(c)} : ChildHandles(c, s) PROVE Flow'
  BY <1>0, <1>19 DEF ChildHandles, AfterSignal, ChildRecv, Alive, Flow, TypeOK, ParentPcs, ChildPcs
<1>20. CASE UNCHANGED vars
  BY <1>0, <1>20 DEF vars, Flow, TypeOK, ParentPcs, ChildPcs
<1>. QED
  BY <1>1, <1>2, <1>3, <1>4, <1>5, <1>6, <1>7, <1>8, <1>9, <1>10, <1>11, <1>12, <1>13, <1>14, <1>15, <1>16, <1>17, <1>18, <1>19, <1>20
     DEF Next, ParentStep, ChildStep

\* The bytes in the pipe.
LEMMA HandshakeStep == IInv /\ [Next]_vars => Handshake'
<1>. SUFFICES ASSUME IInv, [Next]_vars PROVE Handshake'
  OBVIOUS
<1>0. TypeOK /\ Flow /\ Handshake
  BY DEF IInv
<1>1. CASE \E s \in {SIGINT, SIGQUIT} : Key(s)
  BY <1>0, <1>1 DEF Key, Alive, Flow, TypeOK, Handshake, Reported, ParentPcs, ChildPcs
<1>2. CASE AlarmFires
  BY <1>0, <1>2 DEF AlarmFires, Alive, Flow, TypeOK, Handshake, Reported, ParentPcs, ChildPcs
<1>3. CASE Fork("fork1", "child1", "fork2")
  BY <1>0, <1>3 DEF Fork, Flow, TypeOK, Handshake, Reported, ParentPcs, ChildPcs
<1>4. CASE Fork("fork2", "child2", IF program = "1-1" THEN "test" ELSE "ready")
  BY <1>0, <1>4 DEF Fork, Flow, TypeOK, Handshake, Reported, ParentPcs, ChildPcs
<1>5. CASE ReadReady
  BY <1>0, <1>5 DEF ReadReady, ReadyNeeded, Reported, Flow, TypeOK, Handshake, Reported, ParentPcs, ChildPcs
<1>6. CASE SetAlarm
  BY <1>0, <1>6 DEF SetAlarm, Flow, TypeOK, Handshake, Reported, ParentPcs, ChildPcs
<1>7. CASE WaitTest
  BY <1>0, <1>7 DEF WaitTest, SleepsOn, Flow, TypeOK, Handshake, Reported, ParentPcs, ChildPcs
<1>8. CASE Sleep
  BY <1>0, <1>8 DEF Sleep, Flow, TypeOK, Handshake, Reported, ParentPcs, ChildPcs
<1>9. CASE Pause(Parent)
  BY <1>0, <1>9 DEF Pause, Flow, TypeOK, Handshake, Reported, ParentPcs, ChildPcs
<1>10. CASE Say
  BY <1>0, <1>10 DEF Say, Flow, TypeOK, Handshake, Reported, ParentPcs, ChildPcs
<1>11. CASE Kill("kill1", "child1", "kill2")
  BY <1>0, <1>11 DEF Kill, Alive, Flow, TypeOK, Handshake, Reported, ParentPcs, ChildPcs
<1>12. CASE Kill("kill2", "child2", "wait")
  BY <1>0, <1>12 DEF Kill, Alive, Flow, TypeOK, Handshake, Reported, ParentPcs, ChildPcs
<1>13. CASE Wait
  BY <1>0, <1>13 DEF Wait, Flow, TypeOK, Handshake, Reported, ParentPcs, ChildPcs
<1>14. CASE \E s \in {SIGINT, SIGQUIT, SIGALRM} : ParentHandles(s)
  BY <1>0, <1>14 DEF ParentHandles, AfterSignal, Alive, Flow, TypeOK, Handshake, Reported, ParentPcs, ChildPcs
<1>15. ASSUME NEW c \in Children, InstallHandler(c) PROVE Handshake'
  BY <1>0, <1>15 DEF InstallHandler, Flow, TypeOK, Handshake, Reported, ParentPcs, ChildPcs
<1>16. ASSUME NEW c \in Children, ReportReady(c) PROVE Handshake'
  BY <1>0, <1>16 DEF ReportReady, Flow, TypeOK, Handshake, Reported, ParentPcs, ChildPcs
<1>17. ASSUME NEW c \in Children, ChildTest(c) PROVE Handshake'
  BY <1>0, <1>17 DEF ChildTest, Flow, TypeOK, Handshake, Reported, ParentPcs, ChildPcs
<1>18. ASSUME NEW c \in Children, Pause(c) PROVE Handshake'
  BY <1>0, <1>18 DEF Pause, Flow, TypeOK, Handshake, Reported, ParentPcs, ChildPcs
<1>19. ASSUME NEW c \in Children, \E s \in {SIGINT, SIGQUIT, SigOf(c)} : ChildHandles(c, s) PROVE Handshake'
  BY <1>0, <1>19 DEF ChildHandles, AfterSignal, ChildRecv, Alive, Flow, TypeOK, Handshake, Reported, ParentPcs, ChildPcs
<1>20. CASE UNCHANGED vars
  BY <1>0, <1>20 DEF vars, Flow, TypeOK, Handshake, Reported, ParentPcs, ChildPcs
<1>. QED
  BY <1>1, <1>2, <1>3, <1>4, <1>5, <1>6, <1>7, <1>8, <1>9, <1>10, <1>11, <1>12, <1>13, <1>14, <1>15, <1>16, <1>17, <1>18, <1>19, <1>20
     DEF Next, ParentStep, ChildStep

\* A signal sent to a child with a handler stays pending until the handler runs.
LEMMA DeliversStep == IInv /\ [Next]_vars => HandshakeDelivers'
<1>. SUFFICES ASSUME IInv, [Next]_vars PROVE HandshakeDelivers'
  OBVIOUS
<1>0. TypeOK /\ Handshake /\ HandshakeDelivers
  BY DEF IInv
<1>1. CASE \E s \in {SIGINT, SIGQUIT} : Key(s)
  BY <1>0, <1>1 DEF Key, Alive, HandshakeDelivers, Handshake, Reported, TypeOK, ParentPcs, ChildPcs
<1>2. CASE AlarmFires
  BY <1>0, <1>2 DEF AlarmFires, Alive, HandshakeDelivers, Handshake, Reported, TypeOK, ParentPcs, ChildPcs
<1>3. CASE Fork("fork1", "child1", "fork2")
  BY <1>0, <1>3 DEF Fork, HandshakeDelivers, Handshake, Reported, TypeOK, ParentPcs, ChildPcs
<1>4. CASE Fork("fork2", "child2", IF program = "1-1" THEN "test" ELSE "ready")
  BY <1>0, <1>4 DEF Fork, HandshakeDelivers, Handshake, Reported, TypeOK, ParentPcs, ChildPcs
<1>5. CASE ReadReady
  BY <1>0, <1>5 DEF ReadReady, ReadyNeeded, Reported, HandshakeDelivers, Handshake, Reported, TypeOK, ParentPcs, ChildPcs
<1>6. CASE SetAlarm
  BY <1>0, <1>6 DEF SetAlarm, HandshakeDelivers, Handshake, Reported, TypeOK, ParentPcs, ChildPcs
<1>7. CASE WaitTest
  BY <1>0, <1>7 DEF WaitTest, SleepsOn, HandshakeDelivers, Handshake, Reported, TypeOK, ParentPcs, ChildPcs
<1>8. CASE Sleep
  BY <1>0, <1>8 DEF Sleep, HandshakeDelivers, Handshake, Reported, TypeOK, ParentPcs, ChildPcs
<1>9. CASE Pause(Parent)
  BY <1>0, <1>9 DEF Pause, HandshakeDelivers, Handshake, Reported, TypeOK, ParentPcs, ChildPcs
<1>10. CASE Say
  BY <1>0, <1>10 DEF Say, HandshakeDelivers, Handshake, Reported, TypeOK, ParentPcs, ChildPcs
<1>11. CASE Kill("kill1", "child1", "kill2")
  BY <1>0, <1>11 DEF Kill, Alive, HandshakeDelivers, Handshake, Reported, TypeOK, ParentPcs, ChildPcs
<1>12. CASE Kill("kill2", "child2", "wait")
  BY <1>0, <1>12 DEF Kill, Alive, HandshakeDelivers, Handshake, Reported, TypeOK, ParentPcs, ChildPcs
<1>13. CASE Wait
  BY <1>0, <1>13 DEF Wait, HandshakeDelivers, Handshake, Reported, TypeOK, ParentPcs, ChildPcs
<1>14. CASE \E s \in {SIGINT, SIGQUIT, SIGALRM} : ParentHandles(s)
  BY <1>0, <1>14 DEF ParentHandles, AfterSignal, Alive, HandshakeDelivers, Handshake, Reported, TypeOK, ParentPcs, ChildPcs
<1>15. ASSUME NEW c \in Children, InstallHandler(c) PROVE HandshakeDelivers'
  BY <1>0, <1>15 DEF InstallHandler, HandshakeDelivers, Handshake, Reported, TypeOK, ParentPcs, ChildPcs
<1>16. ASSUME NEW c \in Children, ReportReady(c) PROVE HandshakeDelivers'
  BY <1>0, <1>16 DEF ReportReady, HandshakeDelivers, Handshake, Reported, TypeOK, ParentPcs, ChildPcs
<1>17. ASSUME NEW c \in Children, ChildTest(c) PROVE HandshakeDelivers'
  BY <1>0, <1>17 DEF ChildTest, HandshakeDelivers, Handshake, Reported, TypeOK, ParentPcs, ChildPcs
<1>18. ASSUME NEW c \in Children, Pause(c) PROVE HandshakeDelivers'
  BY <1>0, <1>18 DEF Pause, HandshakeDelivers, Handshake, Reported, TypeOK, ParentPcs, ChildPcs
<1>19. ASSUME NEW c \in Children, \E s \in {SIGINT, SIGQUIT, SigOf(c)} : ChildHandles(c, s) PROVE HandshakeDelivers'
  BY <1>0, <1>19 DEF ChildHandles, AfterSignal, ChildRecv, Alive, HandshakeDelivers, Handshake, Reported, TypeOK, ParentPcs, ChildPcs
<1>20. CASE UNCHANGED vars
  BY <1>0, <1>20 DEF vars, HandshakeDelivers, Handshake, Reported, TypeOK, ParentPcs, ChildPcs
<1>. QED
  BY <1>1, <1>2, <1>3, <1>4, <1>5, <1>6, <1>7, <1>8, <1>9, <1>10, <1>11, <1>12, <1>13, <1>14, <1>15, <1>16, <1>17, <1>18, <1>19, <1>20
     DEF Next, ParentStep, ChildStep

\* What the parent can rely on before it reports.
LEMMA EvidenceStep == IInv /\ [Next]_vars => Evidence'
<1>. SUFFICES ASSUME IInv, [Next]_vars PROVE Evidence'
  OBVIOUS
<1>0. TypeOK /\ Flow /\ Evidence
  BY DEF IInv
<1>1. CASE \E s \in {SIGINT, SIGQUIT} : Key(s)
  BY <1>0, <1>1 DEF Key, Alive, Evidence, Flow, TypeOK, ParentPcs, ChildPcs
<1>2. CASE AlarmFires
  BY <1>0, <1>2 DEF AlarmFires, Alive, Evidence, Flow, TypeOK, ParentPcs, ChildPcs
<1>3. CASE Fork("fork1", "child1", "fork2")
  BY <1>0, <1>3 DEF Fork, Evidence, Flow, TypeOK, ParentPcs, ChildPcs
<1>4. CASE Fork("fork2", "child2", IF program = "1-1" THEN "test" ELSE "ready")
  BY <1>0, <1>4 DEF Fork, Evidence, Flow, TypeOK, ParentPcs, ChildPcs
<1>5. CASE ReadReady
  BY <1>0, <1>5 DEF ReadReady, ReadyNeeded, Reported, Evidence, Flow, TypeOK, ParentPcs, ChildPcs
<1>6. CASE SetAlarm
  BY <1>0, <1>6 DEF SetAlarm, Evidence, Flow, TypeOK, ParentPcs, ChildPcs
<1>7. CASE WaitTest
  BY <1>0, <1>7 DEF WaitTest, SleepsOn, Evidence, Flow, TypeOK, ParentPcs, ChildPcs
<1>8. CASE Sleep
  BY <1>0, <1>8 DEF Sleep, Evidence, Flow, TypeOK, ParentPcs, ChildPcs
<1>9. CASE Pause(Parent)
  BY <1>0, <1>9 DEF Pause, Evidence, Flow, TypeOK, ParentPcs, ChildPcs
<1>10. CASE Say
  BY <1>0, <1>10 DEF Say, Evidence, Flow, TypeOK, ParentPcs, ChildPcs
<1>11. CASE Kill("kill1", "child1", "kill2")
  BY <1>0, <1>11 DEF Kill, Alive, Evidence, Flow, TypeOK, ParentPcs, ChildPcs
<1>12. CASE Kill("kill2", "child2", "wait")
  BY <1>0, <1>12 DEF Kill, Alive, Evidence, Flow, TypeOK, ParentPcs, ChildPcs
<1>13. CASE Wait
  BY <1>0, <1>13 DEF Wait, Evidence, Flow, TypeOK, ParentPcs, ChildPcs
<1>14. CASE \E s \in {SIGINT, SIGQUIT, SIGALRM} : ParentHandles(s)
  BY <1>0, <1>14 DEF ParentHandles, AfterSignal, Alive, Evidence, Flow, TypeOK, ParentPcs, ChildPcs
<1>15. ASSUME NEW c \in Children, InstallHandler(c) PROVE Evidence'
  BY <1>0, <1>15 DEF InstallHandler, Evidence, Flow, TypeOK, ParentPcs, ChildPcs
<1>16. ASSUME NEW c \in Children, ReportReady(c) PROVE Evidence'
  BY <1>0, <1>16 DEF ReportReady, Evidence, Flow, TypeOK, ParentPcs, ChildPcs
<1>17. ASSUME NEW c \in Children, ChildTest(c) PROVE Evidence'
  BY <1>0, <1>17 DEF ChildTest, Evidence, Flow, TypeOK, ParentPcs, ChildPcs
<1>18. ASSUME NEW c \in Children, Pause(c) PROVE Evidence'
  BY <1>0, <1>18 DEF Pause, Evidence, Flow, TypeOK, ParentPcs, ChildPcs
<1>19. ASSUME NEW c \in Children, \E s \in {SIGINT, SIGQUIT, SigOf(c)} : ChildHandles(c, s) PROVE Evidence'
  BY <1>0, <1>19 DEF ChildHandles, AfterSignal, ChildRecv, Alive, Evidence, Flow, TypeOK, ParentPcs, ChildPcs
<1>20. CASE UNCHANGED vars
  BY <1>0, <1>20 DEF vars, Evidence, Flow, TypeOK, ParentPcs, ChildPcs
<1>. QED
  BY <1>1, <1>2, <1>3, <1>4, <1>5, <1>6, <1>7, <1>8, <1>9, <1>10, <1>11, <1>12, <1>13, <1>14, <1>15, <1>16, <1>17, <1>18, <1>19, <1>20
     DEF Next, ParentStep, ChildStep

\* The report, once printed, stays true.
LEMMA ReportStep == IInv /\ [Next]_vars => ReportTruthful'
<1>. SUFFICES ASSUME IInv, [Next]_vars PROVE ReportTruthful'
  OBVIOUS
<1>0. TypeOK /\ Flow /\ Evidence /\ ReportTruthful /\ TypeOK'
  BY TypeStep DEF IInv
<1>1. CASE \E s \in {SIGINT, SIGQUIT} : Key(s)
  BY <1>0, <1>1 DEF Key, Alive, ReportTruthful, Evidence, Flow, TypeOK
<1>2. CASE AlarmFires
  BY <1>0, <1>2 DEF AlarmFires, Alive, ReportTruthful, Evidence, Flow, TypeOK
<1>3. CASE Fork("fork1", "child1", "fork2")
  BY <1>0, <1>3 DEF Fork, ReportTruthful, Evidence, Flow, TypeOK
<1>4. CASE Fork("fork2", "child2", IF program = "1-1" THEN "test" ELSE "ready")
  BY <1>0, <1>4 DEF Fork, ReportTruthful, Evidence, Flow, TypeOK
<1>5. CASE ReadReady
  BY <1>0, <1>5 DEF ReadReady, ReadyNeeded, Reported, ReportTruthful, Evidence, Flow, TypeOK
<1>6. CASE SetAlarm
  BY <1>0, <1>6 DEF SetAlarm, ReportTruthful, Evidence, Flow, TypeOK
<1>7. CASE WaitTest
  BY <1>0, <1>7 DEF WaitTest, SleepsOn, ReportTruthful, Evidence, Flow, TypeOK
<1>8. CASE Sleep
  BY <1>0, <1>8 DEF Sleep, ReportTruthful, Evidence, Flow, TypeOK
<1>9. CASE Pause(Parent)
  BY <1>0, <1>9 DEF Pause, ReportTruthful, Evidence, Flow, TypeOK
<1>10. CASE Say
  BY <1>0, <1>10 DEF Say, ReportTruthful, Evidence, Flow, TypeOK
<1>11. CASE Kill("kill1", "child1", "kill2")
  BY <1>0, <1>11 DEF Kill, Alive, ReportTruthful, Evidence, Flow, TypeOK
<1>12. CASE Kill("kill2", "child2", "wait")
  BY <1>0, <1>12 DEF Kill, Alive, ReportTruthful, Evidence, Flow, TypeOK
<1>13. CASE Wait
  BY <1>0, <1>13 DEF Wait, ReportTruthful, Evidence, Flow, TypeOK
<1>14. CASE \E s \in {SIGINT, SIGQUIT, SIGALRM} : ParentHandles(s)
  BY <1>0, <1>14 DEF ParentHandles, AfterSignal, Alive, ReportTruthful, Evidence, Flow, TypeOK
<1>15. ASSUME NEW c \in Children, InstallHandler(c) PROVE ReportTruthful'
  BY <1>0, <1>15 DEF InstallHandler, ReportTruthful, Evidence, Flow, TypeOK
<1>16. ASSUME NEW c \in Children, ReportReady(c) PROVE ReportTruthful'
  BY <1>0, <1>16 DEF ReportReady, ReportTruthful, Evidence, Flow, TypeOK
<1>17. ASSUME NEW c \in Children, ChildTest(c) PROVE ReportTruthful'
  BY <1>0, <1>17 DEF ChildTest, ReportTruthful, Evidence, Flow, TypeOK
<1>18. ASSUME NEW c \in Children, Pause(c) PROVE ReportTruthful'
  BY <1>0, <1>18 DEF Pause, ReportTruthful, Evidence, Flow, TypeOK
<1>19. ASSUME NEW c \in Children, \E s \in {SIGINT, SIGQUIT, SigOf(c)} : ChildHandles(c, s) PROVE ReportTruthful'
  BY <1>0, <1>19 DEF ChildHandles, AfterSignal, ChildRecv, Alive, ReportTruthful, Evidence, Flow, TypeOK
<1>20. CASE UNCHANGED vars
  BY <1>0, <1>20 DEF vars, ReportTruthful, Evidence, Flow, TypeOK
<1>. QED
  BY <1>1, <1>2, <1>3, <1>4, <1>5, <1>6, <1>7, <1>8, <1>9, <1>10, <1>11, <1>12, <1>13, <1>14, <1>15, <1>16, <1>17, <1>18, <1>19, <1>20
     DEF Next, ParentStep, ChildStep

---------------------------------------------------------------------------
(* The theorems.                                                           *)

\* The inductive invariant of the three programs.
THEOREM Invariant == Spec => []IInv
<1>1. IInv /\ [Next]_vars => IInv'
  BY TypeStep, FlowStep, HandshakeStep, DeliversStep, EvidenceStep, ReportStep DEF IInv
<1>. QED
  BY <1>1, InitIInv, PTL DEF Spec

\* The pipe of 1-2.c and 1-3.c does its work: every signal of the parent finds
\* a handler, and no child dies of it.
THEOREM HandshakeCorrect == Spec => []HandshakeDelivers
<1>1. IInv => HandshakeDelivers
  BY DEF IInv
<1>. QED
  BY <1>1, Invariant, PTL

\* What the parent prints after waiting() is what happened, for every delay.
THEOREM ReportCorrect == Spec => []ReportTruthful
<1>1. IInv => ReportTruthful
  BY DEF IInv
<1>. QED
  BY <1>1, Invariant, PTL
=============================================================================
