------------------------------- MODULE Paging -------------------------------
(***************************************************************************)
(* The page replacement simulator of 2lab/4/4.c: main reads the algorithm, *)
(* the number of frames and a reference string, then simulate_fifo or      *)
(* simulate_lru serves the string one request at a time.  The string is    *)
(* chosen as it is served.                                                 *)
(***************************************************************************)
EXTENDS Integers, Sequences, FiniteSets

CONSTANTS
  MAX_SEQ,      \* longest reference string (1000 in the code)
  MAX_FRAMES,   \* most frames (100 in the code)
  DefaultFrames,\* frames when the number entered is out of range (3 in the code)
  FrameInputs,  \* numbers entered for the frames
  PageInputs,   \* page numbers entered by hand
  MaxPages      \* numbers entered as max_page for a random string

ASSUME PagingAssumption ==
  /\ MAX_SEQ \in Nat /\ MAX_FRAMES \in Nat /\ DefaultFrames \in 1..MAX_FRAMES
  /\ FrameInputs \subseteq Int /\ PageInputs \subseteq Int /\ MaxPages \subseteq Int

VARIABLES
  algo_mode, frame_count, seq_len,
  pages,        \* the pages the reference string is made of
  step,         \* requests served; also time_counter of simulate_lru
  frames, fifo_ptr, last_used, page_faults,
  since         \* history: the step that brought in the page of each frame

inputs == <<algo_mode, frame_count, seq_len, pages>>
vars == <<inputs, step, frames, fifo_ptr, last_used, page_faults, since>>

EMPTY == -1

Slots == 0..(frame_count - 1)

\* The frames main simulates for the number entered.
FrameCount(n) == IF n <= 0 \/ n > MAX_FRAMES THEN DefaultFrames ELSE n

\* read_manual_sequence: any page number.  gen_random_sequence: rand() %
\* max_page, where max_page is at least 2.
PageSets == {PageInputs} \cup {0..((IF mp < 2 THEN 2 ELSE mp) - 1) : mp \in MaxPages}

\* A length of 0 stands for the input that fails: nothing is simulated.
Init ==
  /\ algo_mode \in {"FIFO", "LRU"}
  /\ frame_count \in {FrameCount(n) : n \in FrameInputs}
  /\ seq_len \in 0..MAX_SEQ
  /\ pages \in PageSets
  /\ step = 0 /\ page_faults = 0 /\ fifo_ptr = 0
  /\ frames = [i \in Slots |-> EMPTY]
  /\ last_used = [i \in Slots |-> -1]
  /\ since = [i \in Slots |-> 0]

---------------------------------------------------------------------------

\* The first slot that holds page, in the order of the search loops.
SlotOf(page) == CHOOSE i \in Slots : frames[i] = page /\ \A j \in 0..(i-1) : frames[j] # page

\* Faulty: the search loops stop one frame early.
HoldsButLast(page) == \E i \in 0..(frame_count - 2) : frames[i] = page

Holds(page) == \E i \in Slots : frames[i] = page

\* Put page in slot i, counting a fault.
Load(page, i) ==
  /\ frames' = [frames EXCEPT ![i] = page]
  /\ since' = [since EXCEPT ![i] = step + 1]
  /\ page_faults' = page_faults + 1

Request(page) ==
  /\ step < seq_len /\ page \in pages
  /\ step' = step + 1
  /\ UNCHANGED inputs

FifoHit(page) ==
  /\ algo_mode = "FIFO" /\ Request(page) /\ Holds(page)
  /\ UNCHANGED <<frames, fifo_ptr, last_used, page_faults, since>>

\* Faulty: the pointer stays at the slot just filled.
NextSlotSame(i) == i

NextSlot(i) == (i + 1) % frame_count

FifoPlace(page) ==
  /\ algo_mode = "FIFO" /\ Request(page) /\ ~Holds(page) /\ Holds(EMPTY)
  /\ Load(page, SlotOf(EMPTY))
  /\ fifo_ptr' = NextSlot(SlotOf(EMPTY))
  /\ UNCHANGED last_used

FifoReplace(page) ==
  /\ algo_mode = "FIFO" /\ Request(page) /\ ~Holds(page) /\ ~Holds(EMPTY)
  /\ Load(page, fifo_ptr)
  /\ fifo_ptr' = NextSlot(fifo_ptr)
  /\ UNCHANGED last_used

\* Faulty: a hit does not renew the time of use.
HitTimeOld(i) == last_used[i]

\* The time of use a hit in slot i records.
HitTime(i) == step + 1

LruHit(page) ==
  /\ algo_mode = "LRU" /\ Request(page) /\ Holds(page)
  /\ last_used' = [last_used EXCEPT ![SlotOf(page)] = HitTime(SlotOf(page))]
  /\ UNCHANGED <<frames, fifo_ptr, page_faults, since>>

LruPlace(page) ==
  /\ algo_mode = "LRU" /\ Request(page) /\ ~Holds(page) /\ Holds(EMPTY)
  /\ Load(page, SlotOf(EMPTY))
  /\ last_used' = [last_used EXCEPT ![SlotOf(EMPTY)] = step + 1]
  /\ UNCHANGED fifo_ptr

\* The first slot with the least time of use.
lru_index ==
  CHOOSE i \in Slots : \A j \in Slots :
    last_used[i] < last_used[j] \/ (last_used[i] = last_used[j] /\ i <= j)

LruReplace(page) ==
  /\ algo_mode = "LRU" /\ Request(page) /\ ~Holds(page) /\ ~Holds(EMPTY)
  /\ Load(page, lru_index)
  /\ last_used' = [last_used EXCEPT ![lru_index] = step + 1]
  /\ UNCHANGED fifo_ptr

\* The string is served: main prints the examples and returns.
Done == step = seq_len /\ UNCHANGED vars

FifoServe(page) == FifoHit(page) \/ FifoPlace(page) \/ FifoReplace(page)
LruServe(page)  == LruHit(page) \/ LruPlace(page) \/ LruReplace(page)

Next == (\E page \in pages : FifoServe(page) \/ LruServe(page)) \/ Done

Spec == Init /\ [][Next]_vars

---------------------------------------------------------------------------
(* Properties.                                                             *)

\* Every variable has its type; fifo_ptr is always a frame.
TypeOK ==
  /\ algo_mode \in {"FIFO", "LRU"} /\ frame_count \in 1..MAX_FRAMES /\ seq_len \in 0..MAX_SEQ
  /\ pages \in PageSets /\ step \in 0..seq_len
  /\ frames \in [Slots -> pages \cup {EMPTY}]
  /\ fifo_ptr \in Slots
  /\ last_used \in [Slots -> -1..seq_len]
  /\ page_faults \in 0..step
  /\ since \in [Slots -> 0..seq_len]

\* The variables have their types, a page occupies one frame, the frames fill
\* from the left, and exactly the frames that were ever loaded hold a page:
\* none is emptied again.
FramesConsistent ==
  /\ TypeOK
  /\ \A i, j \in Slots : i # j /\ frames[i] = frames[j] => frames[i] = EMPTY
  /\ \A i, j \in Slots : i < j /\ frames[i] = EMPTY => frames[j] = EMPTY
  /\ \A i \in Slots : frames[i] # EMPTY <=> since[i] > 0

\* What the policy orders the resident pages by: arrival, or last use.
Age == IF algo_mode = "FIFO" THEN since ELSE last_used

Resident == {i \in Slots : frames[i] # EMPTY}

\* The slots, and with them the pages, in the order the policy evicts them.
EvictionSlots ==
  CHOOSE s \in [1..Cardinality(Resident) -> Resident] :
    \A j, k \in DOMAIN s : j < k => Age[s[j]] < Age[s[k]]

EvictionOrder == [k \in DOMAIN EvictionSlots |-> frames[EvictionSlots[k]]]

Queue == INSTANCE ReplacementQueue WITH
  Pages      <- UNION PageSets,
  Capacities <- 1..MAX_FRAMES,
  queue      <- EvictionOrder,
  capacity   <- frame_count,
  policy     <- algo_mode,
  faults     <- page_faults

\* Both simulations are their policy, request by request and fault by fault:
\* the circular pointer is a FIFO queue and the times of use an LRU list.
ImplementsPolicy == Queue!Spec
=============================================================================
