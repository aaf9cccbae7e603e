----------------------------- MODULE PagingPair -----------------------------
(***************************************************************************)
(* Two runs of the simulator of 2lab/4/4.c on one reference string: the    *)
(* one of Paging, and one with an additional frame (where there is one).   *)
(***************************************************************************)
EXTENDS Paging

VARIABLES n2, frames2, ptr2, used2, faults2, since2

large == <<n2, frames2, ptr2, used2, faults2, since2>>

Large == INSTANCE Paging WITH
  frame_count <- n2, frames <- frames2, fifo_ptr <- ptr2, last_used <- used2,
  page_faults <- faults2, since <- since2

PairInit ==
  /\ Init /\ n2 = (IF frame_count < MAX_FRAMES THEN frame_count + 1 ELSE frame_count)
  /\ Large!Init

PairNext ==
  \/ \E page \in pages : \/ FifoServe(page) /\ Large!FifoServe(page)
                         \/ LruServe(page) /\ Large!LruServe(page)
  \/ Done /\ UNCHANGED large

PairSpec == PairInit /\ [][PairNext]_<<vars, large>>

\* simulate_lru has the inclusion property: what is resident with n frames is
\* resident with n + 1, so more frames never cause more faults (no anomaly of
\* Belady's kind), whatever slots the two runs use.  simulate_fifo has not.
Inclusion ==
  algo_mode = "LRU" =>
    /\ \A i \in Slots : frames[i] # EMPTY => \E j \in Large!Slots : frames2[j] = frames[i]
    /\ faults2 <= page_faults
=============================================================================
