-------------------------- MODULE ReplacementQueue --------------------------
(***************************************************************************)
(* What a page replacement policy is, without frames, pointers or clocks:  *)
(* the resident pages in a queue whose head is the next victim.  A fault   *)
(* puts its page at the end.  A hit leaves the queue alone under FIFO and  *)
(* moves the page to the end under LRU.                                    *)
(***************************************************************************)
EXTENDS Integers, Sequences, SequencesExt

CONSTANTS Pages, Capacities

VARIABLES queue, capacity, policy, faults
vars == <<queue, capacity, policy, faults>>

Init ==
  /\ queue = <<>> /\ faults = 0
  /\ capacity \in Capacities /\ policy \in {"FIFO", "LRU"}

Hit(p) ==
  /\ \E i \in DOMAIN queue :
       /\ queue[i] = p
       /\ queue' = (IF policy = "LRU" THEN Append(RemoveAt(queue, i), p) ELSE queue)
  /\ UNCHANGED <<capacity, policy, faults>>

Fault(p) ==
  /\ \A i \in DOMAIN queue : queue[i] # p
  /\ queue' = Append(IF Len(queue) = capacity THEN Tail(queue) ELSE queue, p)
  /\ faults' = faults + 1
  /\ UNCHANGED <<capacity, policy>>

Next == \E p \in Pages : Hit(p) \/ Fault(p)

Spec == Init /\ [][Next]_vars
=============================================================================
