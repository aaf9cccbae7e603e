---------------------------- MODULE PagingProofs ----------------------------
(***************************************************************************)
(* Theorems about the simulator of 2lab/4/4.c, for every number of frames, *)
(* every reference string and every set of pages that leaves out EMPTY:    *)
(* the code marks an empty frame with -1, so a string with the page number *)
(* -1 is served wrongly and the theorems say nothing of it.                *)
(***************************************************************************)
EXTENDS PagingPair, FiniteSetTheorems, WellFoundedInduction, TLAPS

---------------------------------------------------------------------------
(* The search loops find what they look for.                               *)

\* A set of naturals that is not empty has a least element.
LEMMA LeastElement ==
  ASSUME NEW T \in SUBSET Nat, T # {}
  PROVE  \E x \in T : \A y \in T : x <= y
<1>1. IsWellFoundedOn(OpToRel(<, Nat), Nat)
  BY NatLessThanWellFounded
<1>2. PICK x \in T : \A y \in T : ~(<<y, x>> \in OpToRel(<, Nat))
  BY <1>1, WFMin
<1>3. \A y \in T : <<y, x>> \in OpToRel(<, Nat) <=> y < x
  BY DEF OpToRel
<1>4. \A y \in T : ~(y < x)
  BY <1>2, <1>3, Zenon
<1>5. \A y \in T : x <= y
  BY <1>4
<1>. QED
  BY <1>5

\* A loop over n frames stops at the first that passes its test.
LEMMA FirstFrame ==
  ASSUME NEW n \in Nat, NEW T \in SUBSET (0..(n-1)), T # {}
  PROVE  \E i \in T : \A j \in 0..(i-1) : j \notin T
<1>1. T \in SUBSET Nat
  OBVIOUS
<1>2. PICK x \in T : \A y \in T : x <= y
  BY <1>1, LeastElement
<1>. QED
  BY <1>2

\* The first of n frames with the least time of use.
LEMMA FirstLeast ==
  ASSUME NEW n \in Nat \ {0}, NEW lu \in [0..(n-1) -> Int], \A i \in 0..(n-1) : lu[i] >= -1
  PROVE  \E i \in 0..(n-1) : \A j \in 0..(n-1) :
           lu[i] < lu[j] \/ (lu[i] = lu[j] /\ i <= j)
<1>. DEFINE T == {lu[i] + 1 : i \in 0..(n-1)}
<1>1. T \in SUBSET Nat /\ lu[0] + 1 \in T
  OBVIOUS
<1>2. PICK x \in T : \A y \in T : x <= y
  BY <1>1, LeastElement
<1>3. PICK k \in 0..(n-1) : lu[k] + 1 = x
  BY <1>2
<1>4. \A j \in 0..(n-1) : lu[k] <= lu[j]
  <2>. TAKE j \in 0..(n-1)
  <2>1. lu[j] + 1 \in T
    OBVIOUS
  <2>2. x <= lu[j] + 1
    BY <1>2, <2>1
  <2>. QED
    BY <1>3, <2>2
<1>5. PICK i \in 0..(n-1) : lu[i] = lu[k] /\ \A j \in 0..(i-1) : lu[j] # lu[k]
  <2>. DEFINE U == {i \in 0..(n-1) : lu[i] = lu[k]}
  <2>1. U \in SUBSET (0..(n-1)) /\ U # {}
    OBVIOUS
  <2>2. PICK i \in U : \A j \in 0..(i-1) : j \notin U
    BY <2>1, FirstFrame
  <2>. QED
    BY <2>2
<1>6. ASSUME NEW j \in 0..(n-1) PROVE lu[i] < lu[j] \/ (lu[i] = lu[j] /\ i <= j)
  <2>1. lu[k] <= lu[j] /\ (lu[j] = lu[k] => ~(j \in 0..(i-1)))
    BY <1>4, <1>5
  <2>. QED
    BY <1>5, <2>1
<1>. QED
  BY <1>6

\* The slot a request for page is served from or loaded into, in a simulation
\* with n frames: where the page is; else the first empty frame; else any.
ServedIn(n, fr, page, s) ==
  /\ s \in 0..(n-1)
  /\ \/ fr[s] = page
     \/ /\ \A i \in 0..(n-1) : fr[i] # page
        /\ fr[s] = EMPTY /\ \A j \in 0..(s-1) : fr[j] # EMPTY
     \/ \A i \in 0..(n-1) : fr[i] # page /\ fr[i] # EMPTY

\* The search of the simulation that is modelled.
LEMMA SlotFound ==
  ASSUME frame_count \in Nat, NEW page, Holds(page)
  PROVE  /\ SlotOf(page) \in Slots /\ frames[SlotOf(page)] = page
         /\ \A j \in 0..(SlotOf(page) - 1) : frames[j] # page
<1>1. \E i \in Slots : frames[i] = page /\ \A j \in 0..(i-1) : frames[j] # page
  <2>. DEFINE T == {i \in Slots : frames[i] = page}
  <2>1. T \in SUBSET (0..(frame_count - 1)) /\ T # {}
    BY DEF Holds, Slots
  <2>2. PICK i \in T : \A j \in 0..(i-1) : j \notin T
    BY <2>1, FirstFrame
  <2>. QED
    BY <2>2 DEF Slots
<1>. QED
  BY <1>1 DEF SlotOf

\* The search for the least recently used page.
LEMMA LruFound ==
  ASSUME frame_count \in Nat \ {0}, last_used \in [Slots -> Int], \A i \in Slots : last_used[i] >= -1
  PROVE  lru_index \in Slots /\ \A j \in Slots : last_used[lru_index] <= last_used[j]
<1>. DEFINE Least(i) == \A j \in Slots :
              last_used[i] < last_used[j] \/ (last_used[i] = last_used[j] /\ i <= j)
<1>1. \E i \in Slots : Least(i)
  BY FirstLeast DEF Slots
<1>2. lru_index = CHOOSE i \in Slots : Least(i)
  BY DEF lru_index
<1>. HIDE DEF Least
<1>3. lru_index \in Slots /\ Least(lru_index)
  BY <1>1, <1>2, Zenon
<1>. QED
  BY <1>3 DEF Least

---------------------------------------------------------------------------
(* The frames of one simulation.                                           *)

\* What any request does to the frames: nothing, or a load where ServedIn
\* allows it.
LEMMA Serves ==
  ASSUME TypeOK, PagingAssumption, NEW page, FifoServe(page) \/ LruServe(page)
  PROVE  /\ Request(page)
         /\ \/ UNCHANGED <<frames, since, page_faults>>
            \/ \E s \in Slots : /\ ServedIn(frame_count, frames, page, s) /\ ~Holds(page)
                               /\ Load(page, s)
<1>1. /\ frame_count \in Nat \ {0} /\ fifo_ptr \in Slots /\ last_used \in [Slots -> Int]
      /\ \A i \in Slots : last_used[i] >= -1
  BY PagingAssumption DEF TypeOK
<1>2. CASE FifoHit(page) \/ LruHit(page)
  BY <1>2 DEF FifoHit, LruHit
<1>3. CASE FifoPlace(page) \/ LruPlace(page)
  <2>1. Holds(EMPTY) /\ ~Holds(page) /\ Load(page, SlotOf(EMPTY)) /\ Request(page)
    BY <1>3 DEF FifoPlace, LruPlace
  <2>2. /\ SlotOf(EMPTY) \in Slots /\ frames[SlotOf(EMPTY)] = EMPTY
        /\ \A j \in 0..(SlotOf(EMPTY) - 1) : frames[j] # EMPTY
    BY <1>1, <2>1, SlotFound
  <2>3. ServedIn(frame_count, frames, page, SlotOf(EMPTY))
    BY <2>1, <2>2 DEF ServedIn, Holds, Slots
  <2>. QED
    BY <2>1, <2>2, <2>3
<1>4. CASE FifoReplace(page) \/ LruReplace(page)
  <2>1. PICK s \in Slots : Load(page, s)
    BY <1>1, <1>4, LruFound DEF FifoReplace, LruReplace
  <2>2. ~Holds(EMPTY) /\ ~Holds(page) /\ Request(page)
    BY <1>4 DEF FifoReplace, LruReplace
  <2>3. ServedIn(frame_count, frames, page, s)
    BY <2>2 DEF ServedIn, Holds, Slots
  <2>. QED
    BY <2>1, <2>2, <2>3
<1>. QED
  BY <1>2, <1>3, <1>4 DEF FifoServe, LruServe

\* Whatever is entered, main simulates between 1 and MAX_FRAMES frames, and a
\* string without -1 never asks for EMPTY.
LEMMA Inputs ==
  /\ \A n \in FrameInputs : FrameCount(n) \in 1..MAX_FRAMES
  /\ EMPTY \notin PageInputs => \A P \in PageSets : EMPTY \notin P
<1>1. \A n \in FrameInputs : FrameCount(n) \in 1..MAX_FRAMES
  BY PagingAssumption DEF FrameCount
<1>2. ASSUME EMPTY \notin PageInputs, NEW P \in PageSets PROVE EMPTY \notin P
  <2>1. CASE P = PageInputs
    BY <1>2, <2>1
  <2>2. ASSUME NEW mp \in MaxPages, P = 0..((IF mp < 2 THEN 2 ELSE mp) - 1)
        PROVE  EMPTY \notin P
    BY <2>2, PagingAssumption DEF EMPTY
  <2>. QED
    BY <1>2, <2>1, <2>2 DEF PageSets
<1>. QED
  BY <1>1, <1>2

\* Page numbers are integers, entered by hand or random.
LEMMA PagesAreInts == \A P \in PageSets : P \subseteq Int
  BY PagingAssumption DEF PageSets

\* The types at the start.
LEMMA InitType == Init => TypeOK
<1>. SUFFICES ASSUME Init PROVE TypeOK
  OBVIOUS
<1>1. frame_count \in 1..MAX_FRAMES /\ MAX_FRAMES \in Nat /\ MAX_SEQ \in Nat
  BY Inputs, PagingAssumption DEF Init
<1>. QED
  BY <1>1 DEF Init, TypeOK, Slots, EMPTY

\* The types through every request.
LEMMA TypeStep == TypeOK /\ [Next]_vars => TypeOK'
<1>. SUFFICES ASSUME TypeOK, [Next]_vars PROVE TypeOK'
  OBVIOUS
<1>0. MAX_FRAMES \in Nat /\ MAX_SEQ \in Nat
  BY PagingAssumption
<1>1. ASSUME NEW page, FifoServe(page) \/ LruServe(page) PROVE TypeOK'
  <2>1. Request(page) /\ step' \in 1..seq_len /\ UNCHANGED inputs /\ step' = step + 1 /\ page \in pages
    BY <1>1, Serves, PagingAssumption DEF Request, TypeOK
  <2>2. Slots' = Slots /\ frame_count \in 1..MAX_FRAMES
    BY <2>1 DEF inputs, Slots, TypeOK
  <2>3. /\ frames' \in [Slots -> pages \cup {EMPTY}] /\ since' \in [Slots -> 0..seq_len]
        /\ page_faults' \in 0..step'
    BY <1>0, <1>1, <2>1, Serves, PagingAssumption DEF TypeOK, Load
  <2>4. last_used' \in [Slots -> -1..seq_len]
    <3>1. CASE UNCHANGED last_used
      BY <3>1 DEF TypeOK
    <3>2. ASSUME NEW i, last_used' = [last_used EXCEPT ![i] = step + 1]
          PROVE  last_used' \in [Slots -> -1..seq_len]
      <4>1. step + 1 \in -1..seq_len
        BY <1>0, <2>1 DEF TypeOK
      <4>2. last_used \in [Slots -> -1..seq_len]
        BY DEF TypeOK
      <4>. QED
        BY <3>2, <4>1, <4>2
    <3>. QED
      BY <1>1, <3>1, <3>2 DEF FifoServe, LruServe, FifoHit, FifoPlace, FifoReplace, LruHit,
                              LruPlace, LruReplace, HitTime
  <2>5. fifo_ptr' \in Slots
    <3>1. \A i \in Int : NextSlot(i) \in Slots
      BY <1>0, <2>2 DEF NextSlot, Slots
    <3>2. CASE UNCHANGED fifo_ptr
      BY <3>2 DEF TypeOK
    <3>3. CASE FifoPlace(page)
      <4>1. SlotOf(EMPTY) \in Slots
        BY <1>0, <2>2, <3>3, SlotFound DEF FifoPlace
      <4>2. SlotOf(EMPTY) \in Int
        BY <1>0, <2>2, <4>1 DEF Slots
      <4>. QED
        BY <3>1, <3>3, <4>2 DEF FifoPlace
    <3>4. CASE FifoReplace(page)
      <4>1. fifo_ptr \in Int
        BY <1>0, <2>2 DEF TypeOK, Slots
      <4>. QED
        BY <3>1, <3>4, <4>1 DEF FifoReplace
    <3>. QED
      BY <1>1, <3>2, <3>3, <3>4 DEF FifoServe, LruServe, FifoHit, LruHit, LruPlace, LruReplace
  <2>. QED
    BY <2>1, <2>2, <2>3, <2>4, <2>5 DEF TypeOK, inputs
<1>2. CASE UNCHANGED vars
  BY <1>2 DEF TypeOK, vars, inputs, Slots
<1>. QED
  BY <1>1, <1>2 DEF Next, Done

\* The frames through every request: a load repeats no page, leaves no gap
\* and never empties a frame.
LEMMA FramesStep ==
  ASSUME EMPTY \notin PageInputs
  PROVE  FramesConsistent /\ [Next]_vars => FramesConsistent'
<1>. SUFFICES ASSUME FramesConsistent, [Next]_vars PROVE FramesConsistent'
  OBVIOUS
<1>1. TypeOK /\ TypeOK' /\ EMPTY \notin pages
  BY TypeStep, Inputs DEF FramesConsistent, TypeOK
<1>2. CASE UNCHANGED <<frames, since, frame_count>>
  <2>1. Slots' = Slots
    BY <1>2 DEF Slots
  <2>. QED
    BY <1>1, <1>2, <2>1 DEF FramesConsistent
<1>3. ASSUME NEW page, NEW s \in Slots, ServedIn(frame_count, frames, page, s), ~Holds(page),
             Load(page, s), Request(page)
      PROVE  FramesConsistent'
  <2>0. frame_count \in Int /\ step \in Nat
    BY <1>1, PagingAssumption DEF TypeOK
  <2>1. Slots' = Slots /\ page # EMPTY /\ \A i \in Slots : frames[i] # page
    BY <1>1, <1>3 DEF Request, inputs, Slots, Holds
  <2>2. /\ frames' = [frames EXCEPT ![s] = page] /\ since' = [since EXCEPT ![s] = step + 1]
        /\ frames \in [Slots -> pages \cup {EMPTY}] /\ since \in [Slots -> 0..seq_len]
    BY <1>1, <1>3 DEF Load, TypeOK
  <2>3. \A i \in Slots : i # s => frames'[i] = frames[i] /\ since'[i] = since[i]
    BY <2>2
  <2>4. frames'[s] = page /\ since'[s] = step + 1
    BY <2>2
  <2>5. \A i, j \in Slots : i # j /\ frames'[i] = frames'[j] => frames'[i] = EMPTY
    BY <2>1, <2>3, <2>4 DEF FramesConsistent
  <2>6. \A i, j \in Slots : i < j /\ frames'[i] = EMPTY => frames'[j] = EMPTY
    <3>1. \A i \in Slots : i < s => frames[i] # EMPTY
      BY <1>3, <2>0, <2>1 DEF ServedIn, Slots
    <3>. QED
      BY <2>0, <2>1, <2>3, <2>4, <3>1 DEF FramesConsistent
  <2>7. \A i \in Slots : frames'[i] # EMPTY <=> since'[i] > 0
    BY <2>0, <2>1, <2>3, <2>4 DEF FramesConsistent
  <2>. QED
    BY <1>1, <2>1, <2>5, <2>6, <2>7 DEF FramesConsistent
<1>4. ASSUME NEW page, FifoServe(page) \/ LruServe(page) PROVE FramesConsistent'
  <2>1. Request(page) => UNCHANGED frame_count
    BY DEF Request, inputs
  <2>. QED
    BY <1>1, <1>2, <1>3, <1>4, <2>1, Serves, PagingAssumption
<1>5. UNCHANGED vars => UNCHANGED <<frames, since, frame_count>>
  BY DEF vars, inputs
<1>. QED
  BY <1>2, <1>4, <1>5 DEF Next, Done

\* Whatever string is entered, one with -1 included, every variable keeps its
\* type: fifo_ptr and lru_index are frames and there are at most as many
\* faults as requests.
THEOREM TypeCorrect == Spec => []TypeOK
  BY InitType, TypeStep, PTL DEF Spec

\* The frames hold distinct pages without gaps, in both simulations.
THEOREM FramesCorrect ==
  ASSUME EMPTY \notin PageInputs
  PROVE  Spec => []FramesConsistent
<1>1. Init => FramesConsistent
  <2>. SUFFICES ASSUME Init, TypeOK PROVE FramesConsistent
    BY InitType
  <2>. QED
    BY DEF Init, FramesConsistent
<1>. QED
  BY <1>1, FramesStep, PTL DEF Spec

---------------------------------------------------------------------------
(* The inclusion property of simulate_lru.  The lemmas are about any two   *)
(* LRU simulations, given by the number of frames n, the pages fr and the  *)
(* times of use lu; now is the number of requests served.                  *)

\* One simulation: times of use tell the resident pages apart.
LruState(n, fr, lu, now) ==
  /\ n \in Nat /\ n >= 1 /\ now \in Nat
  /\ fr \in [0..(n-1) -> Int] /\ lu \in [0..(n-1) -> Int]
  /\ \A i \in 0..(n-1) : (fr[i] = EMPTY => lu[i] = -1) /\ (fr[i] # EMPTY => lu[i] \in 1..now)
  /\ \A i, j \in 0..(n-1) :
       i # j /\ fr[i] # EMPTY => fr[i] # fr[j] /\ lu[i] # lu[j]

\* The slot LRU serves a request in.
LruServedIn(n, fr, lu, page, s) ==
  /\ ServedIn(n, fr, page, s)
  /\ fr[s] # page /\ fr[s] # EMPTY => \A j \in 0..(n-1) : lu[s] <= lu[j]

\* The simulation with nl frames has every page of the one with n, with the
\* same time of use; the pages it has besides are older than all of those;
\* and as long as the smaller one has an empty frame, both are alike.
Related(n, fr, lu, nl, fr2, lu2) ==
  /\ n <= nl
  /\ \A i \in 0..(n-1) : fr[i] # EMPTY =>
       \E j \in 0..(nl-1) : fr2[j] = fr[i] /\ lu2[j] = lu[i]
  /\ \A j \in 0..(nl-1) : fr2[j] # EMPTY /\ (\A i \in 0..(n-1) : fr[i] # fr2[j]) =>
       \A i \in 0..(n-1) : lu2[j] < lu[i]
  /\ (\E i \in 0..(n-1) : fr[i] = EMPTY) =>
       \A j \in 0..(nl-1) : fr2[j] = (IF j < n THEN fr[j] ELSE EMPTY)

\* No time of use is less than -1.
LEMMA LruTimes ==
  ASSUME NEW n, NEW fr, NEW lu, NEW now, LruState(n, fr, lu, now)
  PROVE  n \in Nat \ {0} /\ lu \in [0..(n-1) -> Int] /\ \A i \in 0..(n-1) : lu[i] >= -1
<1>1. \A i \in 0..(n-1) : lu[i] = -1 \/ lu[i] \in 1..now
  BY Zenon DEF LruState
<1>2. n \in Nat \ {0} /\ now \in Nat /\ lu \in [0..(n-1) -> Int]
  BY DEF LruState
<1>3. ASSUME NEW i \in 0..(n-1) PROVE lu[i] >= -1
  BY <1>1, <1>2
<1>. QED
  BY <1>2, <1>3

\* One request keeps a simulation in order.
LEMMA LruStateStep ==
  ASSUME NEW n, NEW fr, NEW lu, NEW now, NEW page \in Int, page # EMPTY, NEW s,
         LruState(n, fr, lu, now), LruServedIn(n, fr, lu, page, s)
  PROVE  /\ LruState(n, [fr EXCEPT ![s] = page], [lu EXCEPT ![s] = now + 1], now + 1)
         /\ \A i \in 0..(n-1) : i # s => fr[i] # page
<1>. DEFINE gr == [fr EXCEPT ![s] = page]  gu == [lu EXCEPT ![s] = now + 1]
<1>0. \A i \in 0..(n-1) : (fr[i] = EMPTY => lu[i] = -1) /\ (fr[i] # EMPTY => lu[i] \in 1..now)
  BY Zenon DEF LruState
<1>1. /\ n \in Nat /\ n >= 1 /\ now \in Nat /\ s \in 0..(n-1)
      /\ fr \in [0..(n-1) -> Int] /\ lu \in [0..(n-1) -> Int]
  BY DEF LruState, LruServedIn, ServedIn
<1>2. \A i \in 0..(n-1) : i # s => fr[i] # page
  BY <1>1 DEF LruState, LruServedIn, ServedIn
<1>3. /\ gr \in [0..(n-1) -> Int] /\ gu \in [0..(n-1) -> Int]
      /\ gr[s] = page /\ gu[s] = now + 1
      /\ \A i \in 0..(n-1) : i # s => gr[i] = fr[i] /\ gu[i] = lu[i]
  BY <1>1
<1>. HIDE DEF gr, gu
<1>4. ASSUME NEW i \in 0..(n-1)
      PROVE  (gr[i] = EMPTY => gu[i] = -1) /\ (gr[i] # EMPTY => gu[i] \in 1..(now + 1))
  <2>1. CASE i = s
    BY <1>1, <1>3, <2>1
  <2>2. CASE i # s
    <3>1. gr[i] = fr[i] /\ gu[i] = lu[i]
      BY <1>3, <2>2
    <3>2. 1..now \subseteq 1..(now + 1)
      BY <1>1
    <3>. QED
      BY <1>0, <3>1, <3>2, Zenon
  <2>. QED
    BY <2>1, <2>2
<1>5. \A i, j \in 0..(n-1) : i # j /\ gr[i] # EMPTY => gr[i] # gr[j] /\ gu[i] # gu[j]
  <2>. TAKE i, j \in 0..(n-1)
  <2>. HAVE i # j /\ gr[i] # EMPTY
  <2>1. \A k \in 0..(n-1) : lu[k] < now + 1
    <3>. TAKE k \in 0..(n-1)
    <3>1. lu[k] = -1 \/ lu[k] \in 1..now
      BY <1>0, Zenon
    <3>. QED
      BY <1>1, <3>1
  <2>2. CASE i = s
    BY <1>2, <1>3, <2>1, <2>2
  <2>3. CASE j = s
    BY <1>2, <1>3, <2>1, <2>3
  <2>4. CASE i # s /\ j # s
    BY <1>3, <2>4 DEF LruState
  <2>. QED
    BY <2>2, <2>3, <2>4
<1>6. LruState(n, gr, gu, now + 1)
  BY <1>1, <1>3, <1>4, <1>5 DEF LruState
<1>. QED
  BY <1>2, <1>6 DEF gr, gu

\* A page the larger simulation has not is not in the smaller one.
LEMMA MissesBoth ==
  ASSUME NEW n, NEW fr, NEW lu, NEW nl, NEW fr2, NEW lu2, NEW page \in Int, page # EMPTY, NEW s, NEW t,
         Related(n, fr, lu, nl, fr2, lu2),
         LruServedIn(n, fr, lu, page, s), LruServedIn(nl, fr2, lu2, page, t),
         fr[s] = page
  PROVE  fr2[t] = page
  BY DEF Related, LruServedIn, ServedIn

\* One request, served by both, keeps them related.
LEMMA RelatedStep ==
  ASSUME NEW n, NEW fr, NEW lu, NEW nl, NEW fr2, NEW lu2, NEW now,
         NEW page \in Int, page # EMPTY, NEW s, NEW t,
         LruState(n, fr, lu, now), LruState(nl, fr2, lu2, now),
         Related(n, fr, lu, nl, fr2, lu2),
         LruServedIn(n, fr, lu, page, s), LruServedIn(nl, fr2, lu2, page, t)
  PROVE  Related(n, [fr EXCEPT ![s] = page], [lu EXCEPT ![s] = now + 1],
                 nl, [fr2 EXCEPT ![t] = page], [lu2 EXCEPT ![t] = now + 1])
<1>. DEFINE gr == [fr EXCEPT ![s] = page]    gu == [lu EXCEPT ![s] = now + 1]
            gr2 == [fr2 EXCEPT ![t] = page]  gu2 == [lu2 EXCEPT ![t] = now + 1]
<1>1. /\ n \in Nat /\ nl \in Nat /\ now \in Nat /\ n <= nl
      /\ fr \in [0..(n-1) -> Int] /\ lu \in [0..(n-1) -> Int]
      /\ fr2 \in [0..(nl-1) -> Int] /\ lu2 \in [0..(nl-1) -> Int]
      /\ s \in 0..(n-1) /\ t \in 0..(nl-1)
  BY DEF LruState, Related, LruServedIn, ServedIn
<1>2. /\ gr[s] = page /\ gu[s] = now + 1 /\ gr2[t] = page /\ gu2[t] = now + 1
      /\ \A i \in 0..(n-1) : i # s => gr[i] = fr[i] /\ gu[i] = lu[i]
      /\ \A j \in 0..(nl-1) : j # t => gr2[j] = fr2[j] /\ gu2[j] = lu2[j]
  BY <1>1
<1>. HIDE DEF gr, gu, gr2, gu2
<1>3. /\ \A i \in 0..(n-1) : i # s => fr[i] # page
      /\ \A j \in 0..(nl-1) : j # t => fr2[j] # page
  BY LruStateStep
<1>4. /\ \A i \in 0..(n-1) : fr[i] # EMPTY =>
           \E j \in 0..(nl-1) : fr2[j] = fr[i] /\ lu2[j] = lu[i]
      /\ \A j \in 0..(nl-1) : fr2[j] # EMPTY /\ (\A i \in 0..(n-1) : fr[i] # fr2[j]) =>
           \A i \in 0..(n-1) : lu2[j] < lu[i]
      /\ (\E i \in 0..(n-1) : fr[i] = EMPTY) =>
           \A j \in 0..(nl-1) : fr2[j] = (IF j < n THEN fr[j] ELSE EMPTY)
  BY DEF Related
<1>5. /\ \A i, j \in 0..(n-1) : i # j /\ fr[i] # EMPTY => fr[i] # fr[j] /\ lu[i] # lu[j]
      /\ \A i, j \in 0..(nl-1) : i # j /\ fr2[i] # EMPTY => fr2[i] # fr2[j] /\ lu2[i] # lu2[j]
      /\ \A j \in 0..(nl-1) : lu2[j] < now + 1
  <2>1. \A i \in 0..(nl-1) : (fr2[i] = EMPTY => lu2[i] = -1) /\ (fr2[i] # EMPTY => lu2[i] \in 1..now)
    BY Zenon DEF LruState
  <2>2. \A j \in 0..(nl-1) : lu2[j] < now + 1
    <3>. TAKE j \in 0..(nl-1)
    <3>1. lu2[j] = -1 \/ lu2[j] \in 1..now
      BY <2>1, Zenon
    <3>2. now \in Nat
      BY <1>1, Zenon
    <3>3. CASE lu2[j] = -1
      BY ONLY <3>2, <3>3
    <3>4. CASE lu2[j] \in 1..now
      BY ONLY <3>2, <3>4
    <3>. QED
      BY <3>1, <3>3, <3>4, Zenon
  <2>. QED
    BY <2>2 DEF LruState
\* The page the smaller simulation gives up is its oldest.
<1>6. fr[s] # page /\ fr[s] # EMPTY => \A i \in 0..(n-1) : i # s => lu[s] < lu[i]
  BY <1>1, <1>5 DEF LruServedIn
\* The larger one gives up no page that the smaller one keeps.
<1>7. ASSUME NEW i \in 0..(n-1), i # s, fr[i] # EMPTY PROVE fr2[t] # fr[i]
  <2>1. CASE fr2[t] = page \/ fr2[t] = EMPTY
    BY <1>3, <1>7, <2>1
  <2>2. CASE fr2[t] # page /\ fr2[t] # EMPTY
    <3>1. /\ \A j \in 0..(nl-1) : fr2[j] # page /\ fr2[j] # EMPTY
          /\ \A j \in 0..(nl-1) : lu2[t] <= lu2[j]
      BY <2>2 DEF LruServedIn, ServedIn
    <3>2. fr[s] # page /\ fr[s] # EMPTY
      <4>1. fr[s] = EMPTY => fr2[s] = EMPTY /\ s \in 0..(nl-1)
        BY <1>1, <1>4
      <4>2. fr[s] # EMPTY => \E j \in 0..(nl-1) : fr2[j] = fr[s]
        BY <1>1, <1>4
      <4>. QED
        BY <3>1, <4>1, <4>2
    <3>3. lu[s] < lu[i]
      BY <1>6, <1>7, <3>2
    <3>4. PICK j \in 0..(nl-1) : fr2[j] = fr[s] /\ lu2[j] = lu[s]
      BY <1>1, <1>4, <3>2
    <3>5. PICK k \in 0..(nl-1) : fr2[k] = fr[i] /\ lu2[k] = lu[i]
      BY <1>4, <1>7
    <3>6. lu2[t] <= lu[s]
      BY <3>1, <3>4
    <3>7. k # t
      BY <1>1, <3>3, <3>5, <3>6
    <3>8. fr2[t] # fr2[k]
      BY <1>1, <1>5, <2>2, <3>7
    <3>. QED
      BY <3>5, <3>8
  <2>. QED
    BY <2>1, <2>2
<1>8. ASSUME NEW i \in 0..(n-1), gr[i] # EMPTY
      PROVE  \E j \in 0..(nl-1) : gr2[j] = gr[i] /\ gu2[j] = gu[i]
  <2>1. CASE i = s
    BY <1>1, <1>2, <2>1
  <2>2. CASE i # s
    <3>1. gr[i] = fr[i] /\ gu[i] = lu[i]
      BY <1>2, <2>2
    <3>2. PICK j \in 0..(nl-1) : fr2[j] = fr[i] /\ lu2[j] = lu[i]
      BY <1>4, <1>8, <3>1
    <3>3. j # t
      BY <1>7, <1>8, <2>2, <3>1, <3>2
    <3>. QED
      BY <1>2, <3>1, <3>2, <3>3
  <2>. QED
    BY <2>1, <2>2
<1>9. ASSUME NEW j \in 0..(nl-1), gr2[j] # EMPTY, \A i \in 0..(n-1) : gr[i] # gr2[j],
             NEW i \in 0..(n-1)
      PROVE  gu2[j] < gu[i]
  <2>1. j # t /\ gr2[j] = fr2[j] /\ gu2[j] = lu2[j]
    BY <1>1, <1>2, <1>9
  <2>2. CASE i = s
    BY <1>2, <1>5, <2>1, <2>2
  <2>3. CASE i # s /\ \A k \in 0..(n-1) : fr[k] # fr2[j]
    BY <1>2, <1>4, <1>9, <2>1, <2>3
  <2>4. ASSUME i # s, NEW k \in 0..(n-1), fr[k] = fr2[j] PROVE gu2[j] < gu[i]
    <3>1. k = s /\ fr[s] # page /\ fr[s] # EMPTY
      BY <1>2, <1>9, <2>1, <2>4
    <3>2. lu[s] < lu[i]
      BY <1>6, <2>4, <3>1
    <3>3. PICK l \in 0..(nl-1) : fr2[l] = fr[s] /\ lu2[l] = lu[s]
      BY <1>1, <1>4, <3>1
    <3>4. l = j
      BY <1>5, <2>4, <3>1, <3>3
    <3>. QED
      BY <1>2, <2>1, <2>4, <3>2, <3>3, <3>4
  <2>. QED
    BY <2>2, <2>3, <2>4
<1>10. ASSUME NEW i \in 0..(n-1), gr[i] = EMPTY, NEW j \in 0..(nl-1)
       PROVE  gr2[j] = (IF j < n THEN gr[j] ELSE EMPTY)
  <2>1. fr[i] = EMPTY
    BY <1>2, <1>10
  <2>2. \A k \in 0..(nl-1) : fr2[k] = (IF k < n THEN fr[k] ELSE EMPTY)
    BY <1>4, <2>1
  <2>3. s \in 0..(nl-1) /\ s < n /\ fr2[s] = fr[s]
    BY <1>1, <2>2
  <2>4. s = t
    <3>1. CASE fr[s] = page
      BY <1>3, <2>3, <3>1
    <3>2. CASE fr[s] # page
      <4>1. fr[s] = EMPTY /\ \A k \in 0..(s-1) : fr[k] # EMPTY
        BY <2>1, <3>2 DEF LruServedIn, ServedIn
      <4>2. \A k \in 0..(nl-1) : fr2[k] # page
        BY <1>1, <1>3, <2>2, <3>2
      <4>3. fr2[t] = EMPTY /\ \A k \in 0..(t-1) : fr2[k] # EMPTY
        BY <1>1, <2>3, <4>1, <4>2 DEF LruServedIn, ServedIn
      <4>4. ~(s < t)
        BY <1>1, <2>3, <4>1, <4>3
      <4>5. ~(t < s)
        BY <1>1, <2>2, <4>1, <4>3
      <4>. QED
        BY <1>1, <4>4, <4>5
    <3>. QED
      BY <3>1, <3>2
  <2>. QED
    BY <1>1, <1>2, <2>2, <2>3, <2>4
<1>11. Related(n, gr, gu, nl, gr2, gu2)
  BY <1>1, <1>8, <1>9, <1>10 DEF Related
<1>. QED
  BY <1>11 DEF gr, gu, gr2, gu2

\* The searches of the larger simulation.
LEMMA LargeSlotFound ==
  ASSUME n2 \in Nat, NEW page, Large!Holds(page)
  PROVE  /\ Large!SlotOf(page) \in Large!Slots /\ frames2[Large!SlotOf(page)] = page
         /\ \A j \in 0..(Large!SlotOf(page) - 1) : frames2[j] # page
<1>1. \E i \in Large!Slots : frames2[i] = page /\ \A j \in 0..(i-1) : frames2[j] # page
  <2>. DEFINE T == {i \in Large!Slots : frames2[i] = page}
  <2>1. T \in SUBSET (0..(n2 - 1)) /\ T # {}
    BY DEF Large!Holds, Large!Slots
  <2>2. PICK i \in T : \A j \in 0..(i-1) : j \notin T
    BY <2>1, FirstFrame
  <2>. QED
    BY <2>2 DEF Large!Slots
<1>. QED
  BY <1>1 DEF Large!SlotOf

\* Its least recently used page.
LEMMA LargeLruFound ==
  ASSUME n2 \in Nat \ {0}, used2 \in [Large!Slots -> Int], \A i \in Large!Slots : used2[i] >= -1
  PROVE  Large!lru_index \in Large!Slots /\ \A j \in Large!Slots : used2[Large!lru_index] <= used2[j]
<1>. DEFINE Least(i) == \A j \in Large!Slots : used2[i] < used2[j] \/ (used2[i] = used2[j] /\ i <= j)
<1>1. \E i \in Large!Slots : Least(i)
  BY FirstLeast DEF Large!Slots
<1>2. Large!lru_index = CHOOSE i \in Large!Slots : Least(i)
  BY DEF Large!lru_index
<1>. HIDE DEF Least
<1>3. Large!lru_index \in Large!Slots /\ Least(Large!lru_index)
  BY <1>1, <1>2, Zenon
<1>. QED
  BY <1>3 DEF Least

\* simulate_lru serves a request in the slot LRU prescribes.
LEMMA SmallServes ==
  ASSUME LruState(frame_count, frames, last_used, step), NEW page, page # EMPTY, LruServe(page)
  PROVE  \E s : /\ LruServedIn(frame_count, frames, last_used, page, s)
                /\ frames' = [frames EXCEPT ![s] = page]
                /\ last_used' = [last_used EXCEPT ![s] = step + 1]
                /\ page_faults' = (IF frames[s] = page THEN page_faults ELSE page_faults + 1)
<1>1. /\ frame_count \in Nat /\ frames \in [Slots -> Int] /\ Slots = 0..(frame_count - 1)
  BY DEF LruState, Slots
<1>2. CASE LruHit(page)
  <2>. DEFINE s == SlotOf(page)
  <2>1. Holds(page) /\ last_used' = [last_used EXCEPT ![s] = step + 1] /\ UNCHANGED <<frames, page_faults>>
    BY <1>2 DEF LruHit, HitTime
  <2>2. s \in Slots /\ frames[s] = page
    BY <1>1, <2>1, SlotFound
  <2>. HIDE DEF s
  <2>3. frames' = [frames EXCEPT ![s] = page]
    BY <1>1, <2>1, <2>2
  <2>4. LruServedIn(frame_count, frames, last_used, page, s)
    BY <1>1, <2>2 DEF LruServedIn, ServedIn
  <2>. QED
    BY <2>1, <2>2, <2>3, <2>4
<1>3. CASE LruPlace(page)
  <2>. DEFINE s == SlotOf(EMPTY)
  <2>1. /\ Holds(EMPTY) /\ ~Holds(page) /\ last_used' = [last_used EXCEPT ![s] = step + 1]
        /\ frames' = [frames EXCEPT ![s] = page] /\ page_faults' = page_faults + 1
    BY <1>3 DEF LruPlace, Load, EMPTY, EMPTY
  <2>2. s \in Slots /\ frames[s] = EMPTY /\ \A j \in 0..(s - 1) : frames[j] # EMPTY
    BY <1>1, <2>1, SlotFound
  <2>. HIDE DEF s
  <2>3. LruServedIn(frame_count, frames, last_used, page, s)
    BY <1>1, <2>1, <2>2 DEF LruServedIn, ServedIn, Holds
  <2>. QED
    BY <2>1, <2>2, <2>3
<1>4. CASE LruReplace(page)
  <2>. DEFINE s == lru_index
  <2>1. /\ ~Holds(EMPTY) /\ ~Holds(page) /\ last_used' = [last_used EXCEPT ![s] = step + 1]
        /\ frames' = [frames EXCEPT ![s] = page] /\ page_faults' = page_faults + 1
    BY <1>4 DEF LruReplace, Load, EMPTY, EMPTY
  <2>2. s \in Slots /\ \A j \in Slots : last_used[s] <= last_used[j]
    <3>1. /\ frame_count \in Nat \ {0} /\ last_used \in [Slots -> Int]
          /\ \A i \in Slots : last_used[i] >= -1
      BY <1>1, LruTimes
    <3>. QED
      BY <3>1, LruFound
  <2>. HIDE DEF s
  <2>3. \A i \in Slots : frames[i] # page /\ frames[i] # EMPTY
    BY <2>1 DEF Holds
  <2>4. LruServedIn(frame_count, frames, last_used, page, s)
    BY <1>1, <2>2, <2>3 DEF LruServedIn, ServedIn
  <2>. QED
    BY <2>1, <2>2, <2>3, <2>4
<1>. QED
  BY <1>2, <1>3, <1>4 DEF LruServe

\* simulate_lru with an additional frame serves a request in the slot LRU prescribes.
LEMMA LargeServes ==
  ASSUME LruState(n2, frames2, used2, step), NEW page, page # EMPTY, Large!LruServe(page)
  PROVE  \E s : /\ LruServedIn(n2, frames2, used2, page, s)
                /\ frames2' = [frames2 EXCEPT ![s] = page]
                /\ used2' = [used2 EXCEPT ![s] = step + 1]
                /\ faults2' = (IF frames2[s] = page THEN faults2 ELSE faults2 + 1)
<1>1. /\ n2 \in Nat /\ frames2 \in [Large!Slots -> Int] /\ Large!Slots = 0..(n2 - 1)
  BY DEF LruState, Large!Slots
<1>2. CASE Large!LruHit(page)
  <2>. DEFINE s == Large!SlotOf(page)
  <2>1. Large!Holds(page) /\ used2' = [used2 EXCEPT ![s] = step + 1] /\ UNCHANGED <<frames2, faults2>>
    BY <1>2 DEF Large!LruHit, Large!HitTime
  <2>2. s \in Large!Slots /\ frames2[s] = page
    BY <1>1, <2>1, LargeSlotFound
  <2>. HIDE DEF s
  <2>3. frames2' = [frames2 EXCEPT ![s] = page]
    BY <1>1, <2>1, <2>2
  <2>4. LruServedIn(n2, frames2, used2, page, s)
    BY <1>1, <2>2 DEF LruServedIn, ServedIn
  <2>. QED
    BY <2>1, <2>2, <2>3, <2>4
<1>3. CASE Large!LruPlace(page)
  <2>. DEFINE s == Large!SlotOf(EMPTY)
  <2>1. /\ Large!Holds(EMPTY) /\ ~Large!Holds(page) /\ used2' = [used2 EXCEPT ![s] = step + 1]
        /\ frames2' = [frames2 EXCEPT ![s] = page] /\ faults2' = faults2 + 1
    BY <1>3 DEF Large!LruPlace, Large!Load, Large!EMPTY, EMPTY
  <2>2. s \in Large!Slots /\ frames2[s] = EMPTY /\ \A j \in 0..(s - 1) : frames2[j] # EMPTY
    BY <1>1, <2>1, LargeSlotFound
  <2>. HIDE DEF s
  <2>3. LruServedIn(n2, frames2, used2, page, s)
    BY <1>1, <2>1, <2>2 DEF LruServedIn, ServedIn, Large!Holds
  <2>. QED
    BY <2>1, <2>2, <2>3
<1>4. CASE Large!LruReplace(page)
  <2>. DEFINE s == Large!lru_index
  <2>1. /\ ~Large!Holds(EMPTY) /\ ~Large!Holds(page) /\ used2' = [used2 EXCEPT ![s] = step + 1]
        /\ frames2' = [frames2 EXCEPT ![s] = page] /\ faults2' = faults2 + 1
    BY <1>4 DEF Large!LruReplace, Large!Load, Large!EMPTY, EMPTY
  <2>2. s \in Large!Slots /\ \A j \in Large!Slots : used2[s] <= used2[j]
    <3>1. /\ n2 \in Nat \ {0} /\ used2 \in [Large!Slots -> Int]
          /\ \A i \in Large!Slots : used2[i] >= -1
      BY <1>1, LruTimes
    <3>. QED
      BY <3>1, LargeLruFound
  <2>. HIDE DEF s
  <2>3. \A i \in Large!Slots : frames2[i] # page /\ frames2[i] # EMPTY
    BY <2>1 DEF Large!Holds
  <2>4. LruServedIn(n2, frames2, used2, page, s)
    BY <1>1, <2>2, <2>3 DEF LruServedIn, ServedIn
  <2>. QED
    BY <2>1, <2>2, <2>3, <2>4
<1>. QED
  BY <1>2, <1>3, <1>4 DEF Large!LruServe

---------------------------------------------------------------------------
(* Both simulations side by side.                                          *)

\* The inductive invariant behind Inclusion.
PairInv ==
  /\ pages \in PageSets
  /\ algo_mode = "LRU" =>
       /\ LruState(frame_count, frames, last_used, step)
       /\ LruState(n2, frames2, used2, step)
       /\ Related(frame_count, frames, last_used, n2, frames2, used2)
       /\ page_faults \in Nat /\ faults2 \in Nat /\ faults2 <= page_faults

\* Two simulations that start empty are related.
LEMMA InitPair == PairInit => PairInv
<1>. SUFFICES ASSUME PairInit PROVE PairInv
  OBVIOUS
<1>1. /\ frame_count \in Nat /\ frame_count >= 1 /\ n2 \in Nat /\ n2 >= 1 /\ frame_count <= n2
  <2>1. frame_count \in 1..MAX_FRAMES /\ MAX_FRAMES \in Nat
    BY Inputs, PagingAssumption DEF PairInit, Init
  <2>. QED
    BY <2>1 DEF PairInit
<1>2. /\ frames = [i \in 0..(frame_count - 1) |-> EMPTY] /\ last_used = [i \in 0..(frame_count - 1) |-> -1]
      /\ frames2 = [i \in 0..(n2 - 1) |-> EMPTY] /\ used2 = [i \in 0..(n2 - 1) |-> -1]
      /\ step = 0 /\ page_faults = 0 /\ faults2 = 0 /\ pages \in PageSets
  BY DEF PairInit, Init, Large!Init, Slots, Large!Slots, EMPTY, Large!EMPTY
<1>3. LruState(frame_count, frames, last_used, step) /\ LruState(n2, frames2, used2, step)
  BY <1>1, <1>2 DEF LruState, EMPTY
<1>4. Related(frame_count, frames, last_used, n2, frames2, used2)
  BY <1>1, <1>2 DEF Related
<1>. QED
  BY <1>1, <1>2, <1>3, <1>4 DEF PairInv

\* A request served by both keeps them related and their faults in order.
LEMMA PairStep ==
  ASSUME EMPTY \notin PageInputs
  PROVE  PairInv /\ [PairNext]_<<vars, large>> => PairInv'
<1>. SUFFICES ASSUME PairInv, [PairNext]_<<vars, large>> PROVE PairInv'
  OBVIOUS
<1>1. ASSUME NEW page \in pages, LruServe(page), Large!LruServe(page) PROVE PairInv'
  <2>1. /\ algo_mode = "LRU" /\ step' = step + 1
        /\ UNCHANGED <<algo_mode, frame_count, pages, n2>>
    BY <1>1 DEF LruServe, LruHit, LruPlace, LruReplace, Large!LruServe, Large!LruHit, Large!LruPlace,
                Large!LruReplace, Request, Large!Request, inputs, Large!inputs
  <2>2. page \in Int /\ page # EMPTY
    BY <1>1, Inputs, PagesAreInts DEF PairInv
  <2>3. /\ LruState(frame_count, frames, last_used, step) /\ LruState(n2, frames2, used2, step)
        /\ Related(frame_count, frames, last_used, n2, frames2, used2)
        /\ page_faults \in Nat /\ faults2 \in Nat /\ faults2 <= page_faults
    BY <2>1 DEF PairInv
  <2>4. PICK s : /\ LruServedIn(frame_count, frames, last_used, page, s)
                 /\ frames' = [frames EXCEPT ![s] = page]
                 /\ last_used' = [last_used EXCEPT ![s] = step + 1]
                 /\ page_faults' = (IF frames[s] = page THEN page_faults ELSE page_faults + 1)
    BY <1>1, <2>2, <2>3, SmallServes
  <2>5. PICK t : /\ LruServedIn(n2, frames2, used2, page, t)
                 /\ frames2' = [frames2 EXCEPT ![t] = page]
                 /\ used2' = [used2 EXCEPT ![t] = step + 1]
                 /\ faults2' = (IF frames2[t] = page THEN faults2 ELSE faults2 + 1)
    BY <1>1, <2>2, <2>3, LargeServes
  <2>6. LruState(frame_count, frames', last_used', step + 1)
    BY <2>2, <2>3, <2>4, LruStateStep
  <2>7. LruState(n2, frames2', used2', step + 1)
    BY <2>2, <2>3, <2>5, LruStateStep
  <2>8. Related(frame_count, frames', last_used', n2, frames2', used2')
    BY <2>2, <2>3, <2>4, <2>5, RelatedStep
  <2>9. frames[s] = page => frames2[t] = page
    BY <2>2, <2>3, <2>4, <2>5, MissesBoth
  <2>10. page_faults' \in Nat /\ faults2' \in Nat /\ faults2' <= page_faults'
    BY <2>3, <2>4, <2>5, <2>9
  <2>. QED
    BY <2>1, <2>6, <2>7, <2>8, <2>10 DEF PairInv, LruState, Related
<1>2. ASSUME NEW page \in pages, FifoServe(page) PROVE PairInv'
  BY <1>2 DEF FifoServe, FifoHit, FifoPlace, FifoReplace, Request, inputs, PairInv
<1>3. CASE UNCHANGED <<vars, large>>
  BY <1>3 DEF vars, inputs, large, PairInv, LruState, Related
<1>. QED
  BY <1>1, <1>2, <1>3 DEF PairNext, Done

\* With one frame more, simulate_lru has every page it would have had, and no
\* more faults, for every reference string and every number of frames.
THEOREM InclusionCorrect ==
  ASSUME EMPTY \notin PageInputs
  PROVE  PairSpec => []Inclusion
<1>1. PairInv => Inclusion
  <2>. SUFFICES ASSUME PairInv, algo_mode = "LRU" PROVE Inclusion
    BY DEF Inclusion
  <2>1. Related(frame_count, frames, last_used, n2, frames2, used2) /\ faults2 <= page_faults
    BY DEF PairInv
  <2>. QED
    BY <2>1 DEF Related, Inclusion, Slots, Large!Slots
<1>. QED
  BY <1>1, InitPair, PairStep, PTL DEF PairSpec

\* The smaller run of a pair is a run of the simulator, so the theorems about
\* Spec hold for it.
LEMMA PairIsSpec == PairSpec => Spec
<1>1. PairInit => Init
  BY DEF PairInit
<1>2. [PairNext]_<<vars, large>> => [Next]_vars
  BY DEF PairNext, Next
<1>. QED
  BY <1>1, <1>2, PTL DEF PairSpec, Spec

---------------------------------------------------------------------------
(* The refinement of ReplacementQueue.  First the order of eviction, for   *)
(* any set R of slots with ages: a sequence that lists R by age.           *)

\* s lists the m elements of R from the oldest to the youngest.
ByAge(R, age, m, s) ==
  /\ m \in Nat /\ s \in [1..m -> R]
  /\ \A i \in R : age[i] \in Int /\ \E k \in 1..m : s[k] = i
  /\ \A j, k \in 1..m : j < k => age[s[j]] < age[s[k]]

\* What EvictionSlots is for the slots R.
InOrder(R, age) ==
  CHOOSE s \in [1..Cardinality(R) -> R] :
    \A j, k \in DOMAIN s : j < k => age[s[j]] < age[s[k]]

\* A strictly increasing map of 1..m into itself is the identity.
LEMMA IncreasingIsIdentity ==
  ASSUME NEW m \in Nat, NEW g \in [1..m -> 1..m],
         \A j, k \in 1..m : j < k => g[j] < g[k]
  PROVE  \A j \in 1..m : g[j] = j
<1>1. \A j \in 1..m : g[j] >= j
  <2>. SUFFICES ASSUME NEW j0 \in 1..m, g[j0] < j0 PROVE FALSE
    OBVIOUS
  <2>. DEFINE T == {j \in 1..m : g[j] < j}
  <2>1. T \in SUBSET Nat /\ T # {}
    OBVIOUS
  <2>2. PICK j \in T : \A k \in T : j <= k
    BY <2>1, LeastElement
  <2>3. CASE j = 1
    BY <2>2, <2>3
  <2>4. CASE j # 1
    <3>1. j - 1 \in 1..m /\ j - 1 \notin T /\ j - 1 < j
      BY <2>2, <2>4
    <3>2. g[j-1] < g[j] /\ g[j-1] >= j - 1
      BY <2>2, <3>1
    <3>. QED
      BY <2>2, <3>2
  <2>. QED
    BY <2>3, <2>4
<1>2. \A j \in 1..m : g[j] <= j
  <2>. SUFFICES ASSUME NEW j0 \in 1..m, g[j0] > j0 PROVE FALSE
    OBVIOUS
  <2>. DEFINE T == {d \in 0..(m-1) : g[m-d] > m - d}
  <2>1. T \in SUBSET Nat /\ m - j0 \in T
    OBVIOUS
  <2>2. PICK d \in T : \A e \in T : d <= e
    BY <2>1, LeastElement
  <2>3. CASE d = 0
    BY <2>2, <2>3
  <2>4. CASE d # 0
    <3>1. d - 1 \in 0..(m-1) /\ m - d \in 1..m /\ m - (d - 1) = m - d + 1 /\ m - d + 1 \in 1..m
      BY <2>2, <2>4
    <3>0. d - 1 \notin T
      <4>1. d \in Nat /\ ~(d <= d - 1)
        BY <2>1, <2>2
      <4>. QED
        BY <2>2, <4>1
    <3>2. ~(g[m-(d-1)] > m - (d - 1)) /\ g[m-d] > m - d
      BY <3>0, <3>1
    <3>3. g[m-d] < g[m-d+1] /\ g[m-d] \in Int /\ g[m-d+1] \in Int
      BY <3>1
    <3>. QED
      BY <3>1, <3>2, <3>3
  <2>. QED
    BY <2>3, <2>4
<1>. QED
  BY <1>1, <1>2

\* R has one order by age, and it is the one that is chosen.
LEMMA ByAgeIsInOrder ==
  ASSUME NEW R, NEW age, NEW m, NEW s, ByAge(R, age, m, s)
  PROVE  Cardinality(R) = m /\ InOrder(R, age) = s
<1>0. /\ m \in Nat /\ s \in [1..m -> R] /\ \A i \in R : age[i] \in Int
      /\ \A i \in R : \E k \in 1..m : s[k] = i
      /\ \A j, k \in 1..m : j < k => age[s[j]] < age[s[k]]
  BY DEF ByAge
<1>1. Cardinality(R) = m
  <2>1. \A j, k \in 1..m : s[j] = s[k] => j = k
    BY <1>0
  <2>2. s \in Bijection(1..m, R)
    BY <1>0, <2>1 DEF Bijection, Injection, Surjection, IsInjective
  <2>. QED
    BY <1>0, <2>2, FS_CountingElements DEF ExistsBijection
<1>. DEFINE P(t) == \A j, k \in DOMAIN t : j < k => age[t[j]] < age[t[k]]
<1>2. s \in [1..m -> R] /\ P(s)
  BY <1>0
<1>3. ASSUME NEW t \in [1..m -> R], P(t) PROVE t = s
  <2>. DEFINE g == [j \in 1..m |-> CHOOSE k \in 1..m : s[k] = t[j]]
  <2>1. \A j \in 1..m : g[j] \in 1..m /\ s[g[j]] = t[j]
    BY <1>0
  <2>2. g \in [1..m -> 1..m]
    BY <2>1
  <2>. HIDE DEF g
  <2>3. ASSUME NEW j \in 1..m, NEW k \in 1..m, j < k PROVE g[j] < g[k]
    <3>1. age[s[g[j]]] < age[s[g[k]]] /\ g[j] \in 1..m /\ g[k] \in 1..m
      BY <1>3, <2>1, <2>3
    <3>2. g[k] < g[j] => age[s[g[k]]] < age[s[g[j]]]
      BY <1>0, <3>1
    <3>3. age[s[g[j]]] \in Int /\ age[s[g[k]]] \in Int
      BY <1>0, <3>1
    <3>4. g[j] # g[k]
      BY <3>1, <3>3
    <3>5. ~(g[k] < g[j])
      BY <3>1, <3>2, <3>3
    <3>6. g[j] \in Int /\ g[k] \in Int
      BY <3>1
    <3>. QED
      BY <3>4, <3>5, <3>6
  <2>4. \A j \in 1..m : g[j] = j
    BY <1>0, <2>2, <2>3, IncreasingIsIdentity
  <2>5. \A j \in 1..m : t[j] = s[j]
    BY <2>1, <2>4
  <2>. QED
    BY <1>0, <1>3, <2>5
<1>4. InOrder(R, age) = CHOOSE t \in [1..m -> R] : P(t)
  BY <1>1 DEF InOrder
<1>. HIDE DEF P
<1>. QED
  BY <1>1, <1>2, <1>3, <1>4, Zenon

\* A sequence q of length m with x at its end, and with x at its end in place
\* of element i.
Grow(m, q, x) == [k \in 1..(m+1) |-> IF k = m + 1 THEN x ELSE q[k]]
Shift(m, q, i, x) == [k \in 1..m |-> IF k < i THEN q[k] ELSE IF k < m THEN q[k+1] ELSE x]

\* A new slot, younger than the others, goes to the end.
LEMMA ByAgeAppend ==
  ASSUME NEW R, NEW age, NEW m, NEW s, ByAge(R, age, m, s), NEW e, NEW R2, R2 = R \cup {e},
         NEW age2, \A i \in R : i # e /\ age2[i] = age[i] /\ age[i] < age2[e], age2[e] \in Int
  PROVE  ByAge(R2, age2, m + 1, Grow(m, s, e))
<1>. DEFINE t == Grow(m, s, e)
<1>0. /\ m \in Nat /\ s \in [1..m -> R] /\ \A i \in R : age[i] \in Int
      /\ \A i \in R : \E k \in 1..m : s[k] = i
      /\ \A j, k \in 1..m : j < k => age[s[j]] < age[s[k]]
  BY DEF ByAge
<1>1. t[m+1] = e /\ \A k \in 1..m : k \in 1..(m+1) /\ t[k] = s[k] /\ s[k] \in R
  BY <1>0 DEF Grow
<1>2. m + 1 \in Nat /\ m + 1 \in 1..(m+1) /\ t \in [1..(m+1) -> R2]
  BY <1>0 DEF Grow
<1>. HIDE DEF t
<1>3. \A i \in R2 : age2[i] \in Int /\ \E k \in 1..(m+1) : t[k] = i
  BY <1>0, <1>1, <1>2
<1>4. ASSUME NEW j \in 1..(m+1), NEW k \in 1..(m+1), j < k PROVE age2[t[j]] < age2[t[k]]
  <2>1. j \in 1..m
    BY <1>0, <1>4
  <2>2. CASE k = m + 1
    BY <1>1, <2>1, <2>2
  <2>3. CASE k # m + 1
    <3>1. k \in 1..m
      BY <1>0, <2>3
    <3>. QED
      BY <1>0, <1>1, <1>4, <2>1, <3>1
  <2>. QED
    BY <2>2, <2>3
<1>5. ByAge(R2, age2, m + 1, t)
  BY <1>2, <1>3, <1>4 DEF ByAge
<1>. QED
  BY <1>5 DEF t

\* A slot that becomes the youngest moves to the end.
LEMMA ByAgeMove ==
  ASSUME NEW R, NEW age, NEW m, NEW s, ByAge(R, age, m, s), NEW i \in 1..m,
         NEW age2, age2[s[i]] \in Int,
         \A r \in R : r # s[i] => age2[r] = age[r] /\ age[r] < age2[s[i]]
  PROVE  ByAge(R, age2, m, Shift(m, s, i, s[i]))
<1>. DEFINE t == Shift(m, s, i, s[i])
<1>0. /\ m \in Nat /\ s \in [1..m -> R] /\ \A r \in R : age[r] \in Int
      /\ \A r \in R : \E k \in 1..m : s[k] = r
      /\ \A j, k \in 1..m : j < k => age[s[j]] < age[s[k]]
  BY DEF ByAge
<1>1. /\ \A k \in 1..m : k < i => t[k] = s[k]
      /\ \A k \in 1..m : ~(k < i) /\ k < m => k + 1 \in 1..m /\ t[k] = s[k+1]
      /\ m \in 1..m /\ t[m] = s[i]
  BY <1>0 DEF Shift
<1>2. t \in [1..m -> R]
  BY <1>0 DEF Shift
<1>. HIDE DEF t
<1>3. \A j, k \in 1..m : s[j] = s[k] => j = k
  BY <1>0
<1>4. ASSUME NEW r \in R PROVE age2[r] \in Int /\ \E k \in 1..m : t[k] = r
  <2>1. PICK k \in 1..m : s[k] = r
    BY <1>0
  <2>2. CASE k < i
    BY <1>0, <1>1, <1>3, <2>1, <2>2
  <2>3. CASE k = i
    BY <1>0, <1>1, <2>1, <2>3
  <2>4. CASE k > i
    <3>1. k - 1 \in 1..m /\ ~(k - 1 < i) /\ k - 1 < m /\ (k - 1) + 1 = k
      BY <1>0, <2>4
    <3>2. t[k-1] = r
      BY <1>1, <2>1, <3>1
    <3>. QED
      BY <1>0, <1>3, <2>1, <2>4, <3>1, <3>2
  <2>. QED
    BY <1>0, <2>2, <2>3, <2>4
<1>5. ASSUME NEW j \in 1..m, NEW k \in 1..m, j < k PROVE age2[t[j]] < age2[t[k]]
  <2>0. m \in Nat /\ j < m
    BY <1>0, <1>5
  <2>. DEFINE a == IF j < i THEN j ELSE j + 1
              b == IF k < i THEN k ELSE k + 1
  <2>1. a \in 1..m /\ a # i
    BY <2>0
  <2>2. t[j] = s[a]
    BY <1>1, <2>0
  <2>3. CASE k = m
    <3>. HIDE DEF a, b
    <3>1. s[a] \in R /\ s[a] # s[i]
      BY <1>0, <1>3, <2>1
    <3>. QED
      BY <1>1, <2>2, <2>3, <3>1
  <2>4. CASE k # m
    <3>0. k < m
      BY <2>0, <2>4
    <3>1. b \in 1..m /\ b # i /\ a < b
      BY <1>5, <2>0, <3>0
    <3>2. t[k] = s[b]
      BY <1>1, <3>0
    <3>. HIDE DEF a, b
    <3>3. age[s[a]] < age[s[b]]
      BY <1>0, <2>1, <3>1
    <3>4. s[a] \in R /\ s[a] # s[i] /\ s[b] \in R /\ s[b] # s[i]
      BY <1>0, <1>3, <2>1, <3>1
    <3>5. age2[s[a]] = age[s[a]] /\ age2[s[b]] = age[s[b]]
      BY <3>4
    <3>. QED
      BY <2>2, <3>2, <3>3, <3>5
  <2>. QED
    BY <2>3, <2>4
<1>6. ByAge(R, age2, m, t)
  BY <1>0, <1>2, <1>4, <1>5 DEF ByAge
<1>. QED
  BY <1>6 DEF t

\* The queue of pages f along an order of m slots.
PagesAlong(f, m, s) == [k \in 1..m |-> f[s[k]]]

\* EvictionOrder is such a queue.
LEMMA EvictionOrderIs ==
  ASSUME NEW m, NEW s, ByAge(Resident, Age, m, s)
  PROVE  Cardinality(Resident) = m /\ EvictionOrder = PagesAlong(frames, m, s)
<1>1. Cardinality(Resident) = m /\ InOrder(Resident, Age) = s
  BY ByAgeIsInOrder
<1>2. EvictionSlots = s
  BY <1>1 DEF InOrder, EvictionSlots
<1>3. s \in [1..m -> Resident]
  BY DEF ByAge
<1>. QED
  BY <1>1, <1>2, <1>3 DEF EvictionOrder, PagesAlong

\* The same after a step.
LEMMA EvictionOrderNextIs ==
  ASSUME NEW m, NEW s, ByAge(Resident', Age', m, s)
  PROVE  EvictionOrder' = PagesAlong(frames', m, s)
<1>1. InOrder(Resident', Age') = s
  BY ByAgeIsInOrder
<1>2. EvictionSlots' = s
  BY <1>1 DEF InOrder, EvictionSlots
<1>3. s \in [1..m -> Resident']
  BY DEF ByAge
<1>. QED
  BY <1>2, <1>3 DEF EvictionOrder, PagesAlong

\* A request that puts page in slot i, or finds it there, and makes it the
\* youngest.
Touched(page, i) ==
  /\ i \in Slots /\ page # EMPTY
  /\ frames' = [frames EXCEPT ![i] = page]
  /\ Age' = [Age EXCEPT ![i] = step + 1]
  /\ frame_count' = frame_count

\* The ages before the request, all in the past.
AgesPast ==
  /\ step \in Nat /\ frames \in [Slots -> Int] /\ Age \in [Slots -> Int]
  /\ \A i \in Slots : Age[i] <= step

\* What a request leaves alone.
LEMMA TouchedIs ==
  ASSUME AgesPast, NEW page, NEW i, Touched(page, i)
  PROVE  /\ Resident' = Resident \cup {i} /\ Resident \subseteq Slots
         /\ frames'[i] = page /\ Age'[i] = step + 1 /\ Age'[i] \in Int
         /\ \A j \in Slots : j # i => frames'[j] = frames[j] /\ Age'[j] = Age[j] /\ Age[j] < Age'[i]
<1>0. step \in Nat /\ frames \in [Slots -> Int] /\ Age \in [Slots -> Int] /\ i \in Slots
  BY DEF AgesPast, Touched
<1>1. frames'[i] = page /\ Age'[i] = step + 1 /\ Age'[i] \in Int
  BY <1>0 DEF Touched
<1>2. \A j \in Slots : j # i => frames'[j] = frames[j] /\ Age'[j] = Age[j]
  BY <1>0 DEF Touched
<1>3. \A j \in Slots : Age[j] < Age'[i]
  <2>. TAKE j \in Slots
  <2>1. Age[j] \in Int /\ Age[j] <= step
    BY <1>0 DEF AgesPast
  <2>. QED
    BY <1>0, <1>1, <2>1
<1>4. Slots' = Slots /\ page # EMPTY
  BY DEF Touched, Slots
<1>5. Resident' = {j \in Slots : frames'[j] # EMPTY}
  BY <1>4 DEF Resident, EMPTY
<1>6. Resident' = Resident \cup {i}
  BY <1>0, <1>1, <1>2, <1>4, <1>5 DEF Resident
<1>. QED
  BY <1>1, <1>2, <1>3, <1>6 DEF Resident

\* The queue through a request for the page at position i, or one that
\* replaces it.
LEMMA QueueMoves ==
  ASSUME AgesPast, NEW m, NEW s, ByAge(Resident, Age, m, s), NEW i \in 1..m,
         NEW page, Touched(page, s[i])
  PROVE  /\ \E t : ByAge(Resident', Age', m, t)
         /\ EvictionOrder' = Shift(m, EvictionOrder, i, page)
<1>0. m \in Nat /\ s \in [1..m -> Resident] /\ \A j, k \in 1..m : j < k => Age[s[j]] < Age[s[k]]
  BY DEF ByAge
<1>1. /\ Resident' = Resident \cup {s[i]} /\ Resident \subseteq Slots /\ frames'[s[i]] = page
      /\ Age'[s[i]] \in Int
      /\ \A j \in Slots : j # s[i] => /\ frames'[j] = frames[j] /\ Age'[j] = Age[j]
                                      /\ Age[j] < Age'[s[i]]
  BY TouchedIs
<1>2. Resident' = Resident /\ s[i] \in Resident
  BY <1>0, <1>1
<1>. DEFINE t == Shift(m, s, i, s[i])
<1>3. ByAge(Resident, Age', m, t)
  BY <1>1, ByAgeMove
<1>4. ByAge(Resident', Age', m, t)
  BY <1>2, <1>3
<1>5. EvictionOrder' = PagesAlong(frames', m, t) /\ EvictionOrder = PagesAlong(frames, m, s)
  BY <1>4, EvictionOrderIs, EvictionOrderNextIs
<1>6. \A k \in 1..m : k # i => s[k] \in Slots /\ s[k] # s[i]
  <2>. TAKE k \in 1..m
  <2>. HAVE k # i
  <2>1. s[k] \in Resident /\ Age[s[k]] \in Int /\ Age[s[i]] \in Int
    BY <1>0, <1>1, <1>2 DEF AgesPast
  <2>2. k < i \/ i < k
    BY <1>0
  <2>. QED
    BY <1>0, <1>1, <2>1, <2>2
<1>7. ASSUME NEW k \in 1..m
      PROVE  frames'[t[k]] = IF k < i THEN EvictionOrder[k]
                             ELSE IF k < m THEN EvictionOrder[k+1] ELSE page
  <2>1. CASE k < i
    <3>1. t[k] = s[k] /\ EvictionOrder[k] = frames[s[k]] /\ k # i
      BY <1>0, <1>5, <2>1 DEF Shift, PagesAlong
    <3>. QED
      BY <1>1, <1>6, <2>1, <3>1
  <2>2. CASE ~(k < i) /\ k < m
    <3>0. k + 1 \in 1..m /\ k + 1 # i
      BY <1>0, <2>2
    <3>1. t[k] = s[k+1] /\ EvictionOrder[k+1] = frames[s[k+1]]
      BY <1>0, <1>5, <2>2, <3>0 DEF Shift, PagesAlong
    <3>. QED
      BY <1>1, <1>6, <2>2, <3>0, <3>1
  <2>3. CASE ~(k < i) /\ ~(k < m)
    BY <1>0, <1>1, <2>3 DEF Shift
  <2>. QED
    BY <2>1, <2>2, <2>3
<1>8. EvictionOrder' = [k \in 1..m |-> frames'[t[k]]]
  BY <1>5 DEF PagesAlong
<1>. HIDE DEF t
<1>. QED
  BY <1>4, <1>7, <1>8 DEF Shift

\* Moving element i of a queue to its end, as a sequence operation.
LEMMA MoveIsAppend ==
  ASSUME NEW m \in Nat, NEW X, NEW q \in [1..m -> X], NEW i \in 1..m, NEW page \in X
  PROVE  Shift(m, q, i, page) = Append(SubSeq(q, 1, i-1) \o SubSeq(q, i+1, Len(q)), page)
<1>. DEFINE r == [k \in 1..m |-> IF k < i THEN q[k] ELSE IF k < m THEN q[k+1] ELSE page]
            a == SubSeq(q, 1, i-1)
            b == SubSeq(q, i+1, m)
<1>1. q \in Seq(X) /\ Len(q) = m
  OBVIOUS
<1>2. a \in Seq(X) /\ Len(a) = i - 1 /\ \A k \in 1..(i-1) : a[k] = q[k]
  BY <1>1
<1>3. b \in Seq(X) /\ Len(b) = m - i /\ \A k \in 1..(m-i) : b[k] = q[k+i]
  BY <1>1
<1>4. SubSeq(q, 1, i-1) \o SubSeq(q, i+1, Len(q)) = a \o b
  BY <1>1
<1>5. r \in Seq(X) /\ Len(r) = m /\ DOMAIN r = 1..m
  BY <1>1
<1>. HIDE DEF a, b
<1>. DEFINE c == a \o b
<1>6. c \in Seq(X) /\ Len(c) = m - 1
  <2>1. c \in Seq(X) /\ Len(c) = Len(a) + Len(b)
    BY <1>2, <1>3
  <2>. QED
    BY <1>2, <1>3, <2>1
<1>7. ASSUME NEW k \in 1..(m-1) PROVE c[k] = r[k]
  <2>1. CASE k < i
    BY <1>2, <1>3, <2>1
  <2>2. CASE ~(k < i)
    <3>1. k - (i - 1) \in 1..(m-i) /\ k - (i - 1) + i = k + 1 /\ k < m
      BY <2>2
    <3>2. c[k] = b[k - (i-1)]
      BY <1>2, <1>3, <2>2
    <3>. QED
      BY <1>3, <2>2, <3>1, <3>2
  <2>. QED
    BY <2>1, <2>2
<1>8. r[m] = page
  OBVIOUS
<1>. HIDE DEF c
<1>9. r = Append(c, page)
  <2>. HIDE DEF r
  <2>1. Append(c, page) \in Seq(X) /\ Len(Append(c, page)) = m
    BY <1>6
  <2>2. \A k \in 1..m : Append(c, page)[k] = r[k]
    <3>. TAKE k \in 1..m
    <3>1. CASE k = m
      BY <1>6, <1>8, <3>1
    <3>2. CASE k # m
      BY <1>6, <1>7, <3>2
    <3>. QED
      BY <3>1, <3>2
  <2>. QED
    BY <1>5, <2>1, <2>2
<1>. QED
  BY <1>4, <1>9 DEF c, Shift

\* Taking the head from the queue.
LEMMA TurnIsTail ==
  ASSUME NEW m \in Nat \ {0}, NEW X, NEW q \in [1..m -> X], NEW page \in X
  PROVE  Shift(m, q, 1, page) = Append(Tail(q), page)
<1>. DEFINE r == Shift(m, q, 1, page)
<1>1. q \in Seq(X) /\ Len(q) = m
  OBVIOUS
<1>2. Tail(q) \in Seq(X) /\ Len(Tail(q)) = m - 1 /\ \A k \in 1..(m-1) : Tail(q)[k] = q[k+1]
  BY <1>1
<1>3. r \in Seq(X) /\ Len(r) = m /\ r[m] = page /\ \A k \in 1..(m-1) : r[k] = q[k+1]
  BY DEF Shift
<1>. HIDE DEF r
<1>4. Append(Tail(q), page) \in Seq(X) /\ Len(Append(Tail(q), page)) = m
  BY <1>2
<1>5. \A k \in 1..m : Append(Tail(q), page)[k] = r[k]
  <2>. TAKE k \in 1..m
  <2>1. CASE k = m
    BY <1>2, <1>3, <2>1
  <2>2. CASE k # m
    BY <1>2, <1>3, <2>2
  <2>. QED
    BY <2>1, <2>2
<1>6. r = Append(Tail(q), page)
  BY <1>3, <1>4, <1>5
<1>. QED
  BY <1>6 DEF r

\* The queue through the load of an empty slot.
LEMMA QueueGrows ==
  ASSUME AgesPast, NEW m, NEW s, ByAge(Resident, Age, m, s), NEW i, frames[i] = EMPTY,
         NEW page, Touched(page, i)
  PROVE  /\ \E t : ByAge(Resident', Age', m + 1, t)
         /\ EvictionOrder' = Grow(m, EvictionOrder, page)
<1>0. m \in Nat /\ s \in [1..m -> Resident]
  BY DEF ByAge
<1>1. /\ Resident' = Resident \cup {i} /\ Resident \subseteq Slots /\ frames'[i] = page
      /\ Age'[i] \in Int
      /\ \A j \in Slots : j # i => frames'[j] = frames[j] /\ Age'[j] = Age[j] /\ Age[j] < Age'[i]
  BY TouchedIs
<1>2. \A j \in Resident : j # i /\ j \in Slots
  BY <1>1 DEF Resident
<1>. DEFINE t == Grow(m, s, i)
<1>3. ByAge(Resident', Age', m + 1, t)
  <2>1. \A j \in Resident : j # i /\ Age'[j] = Age[j] /\ Age[j] < Age'[i]
    BY <1>1, <1>2
  <2>. QED
    BY <1>1, <2>1, ByAgeAppend
<1>4. EvictionOrder' = PagesAlong(frames', m + 1, t) /\ EvictionOrder = PagesAlong(frames, m, s)
  BY <1>3, EvictionOrderIs, EvictionOrderNextIs
<1>5. ASSUME NEW k \in 1..(m+1)
      PROVE  frames'[t[k]] = IF k = m + 1 THEN page ELSE EvictionOrder[k]
  <2>1. CASE k = m + 1
    BY <1>1, <2>1 DEF Grow
  <2>2. CASE k # m + 1
    <3>1. k \in 1..m
      BY <1>0, <2>2
    <3>2. t[k] = s[k] /\ EvictionOrder[k] = frames[s[k]] /\ s[k] \in Resident
      BY <1>0, <1>4, <2>2, <3>1 DEF PagesAlong, Grow
    <3>. QED
      BY <1>1, <1>2, <2>2, <3>2
  <2>. QED
    BY <2>1, <2>2
<1>6. EvictionOrder' = [k \in 1..(m+1) |-> frames'[t[k]]]
  BY <1>4 DEF PagesAlong
<1>. HIDE DEF t
<1>. QED
  BY <1>3, <1>5, <1>6 DEF Grow

\* The same as a sequence operation.
LEMMA GrowIsAppend ==
  ASSUME NEW m \in Nat, NEW X, NEW q \in [1..m -> X], NEW page \in X
  PROVE  Grow(m, q, page) = Append(q, page)
<1>. DEFINE r == [k \in 1..(m+1) |-> IF k = m + 1 THEN page ELSE q[k]]
<1>1. q \in Seq(X) /\ Len(q) = m
  OBVIOUS
<1>2. r \in Seq(X) /\ Len(r) = m + 1
  OBVIOUS
<1>3. \A k \in 1..(m+1) : r[k] = Append(q, page)[k]
  BY <1>1
<1>4. Append(q, page) \in Seq(X) /\ Len(Append(q, page)) = m + 1
  BY <1>1
<1>. HIDE DEF r
<1>5. r = Append(q, page)
  BY <1>2, <1>3, <1>4
<1>. QED
  BY <1>5 DEF r, Grow

\* The invariant of the refinement: pages are ordered by age; no age is in the
\* future; and fifo_ptr is at the first empty frame or, when there is none, at
\* the page that came first, from where the pages follow by age around the ring.
PointerOldest ==
  /\ Holds(EMPTY) => \A i \in Slots : i < fifo_ptr <=> frames[i] # EMPTY
  /\ \A i, j \in Slots : i < j /\ frames[j] # EMPTY =>
       IF i < fifo_ptr /\ fifo_ptr <= j THEN since[j] < since[i] ELSE since[i] < since[j]

PolicyInv ==
  /\ FramesConsistent
  /\ \E m, s : ByAge(Resident, Age, m, s)
  /\ \A i \in Slots : since[i] <= step /\ last_used[i] <= step
  /\ algo_mode = "FIFO" => PointerOldest

\* What the invariant says about the ages.
LEMMA PolicyInvGives ==
  ASSUME PolicyInv
  PROVE  /\ TypeOK /\ AgesPast /\ frame_count \in Nat \ {0} /\ Slots = 0..(frame_count - 1)
         /\ since \in [Slots -> Int] /\ last_used \in [Slots -> Int] /\ fifo_ptr \in Slots
         /\ page_faults \in Nat
         /\ \A i \in Slots : last_used[i] >= -1
<1>1. TypeOK
  BY DEF PolicyInv, FramesConsistent
<1>2. /\ frame_count \in Nat \ {0} /\ Slots = 0..(frame_count - 1) /\ seq_len \in Nat
      /\ page_faults \in Nat /\ step \in Nat
  BY <1>1, PagingAssumption DEF TypeOK, Slots
<1>3. /\ since \in [Slots -> Int] /\ last_used \in [Slots -> Int] /\ fifo_ptr \in Slots
      /\ \A i \in Slots : last_used[i] >= -1
  BY <1>1, <1>2 DEF TypeOK
<1>4. frames \in [Slots -> Int]
  BY <1>1, PagesAreInts DEF TypeOK, EMPTY
<1>5. AgesPast
  BY <1>2, <1>3, <1>4 DEF AgesPast, Age, PolicyInv
<1>. QED
  BY <1>1, <1>2, <1>3, <1>5

\* A queue holds the resident pages, and is as long as there are.
LEMMA QueueHolds ==
  ASSUME AgesPast, NEW m, NEW s, ByAge(Resident, Age, m, s)
  PROVE  /\ EvictionOrder \in [1..m -> Int] /\ m \in Nat /\ DOMAIN EvictionOrder = 1..m
         /\ Len(EvictionOrder) = m
         /\ \A k \in 1..m : s[k] \in Resident /\ EvictionOrder[k] = frames[s[k]]
         /\ \A i \in Resident : \E k \in 1..m : s[k] = i
<1>1. m \in Nat /\ s \in [1..m -> Resident] /\ \A i \in Resident : \E k \in 1..m : s[k] = i
  BY DEF ByAge
<1>2. EvictionOrder = PagesAlong(frames, m, s)
  BY EvictionOrderIs
<1>3. Resident \subseteq Slots /\ frames \in [Slots -> Int]
  BY DEF Resident, AgesPast
<1>4. EvictionOrder \in [1..m -> Int] /\ \A k \in 1..m : EvictionOrder[k] = frames[s[k]]
  BY <1>1, <1>2, <1>3 DEF PagesAlong
<1>5. DOMAIN EvictionOrder = 1..m /\ Len(EvictionOrder) = m
  BY <1>1, <1>4
<1>. QED
  BY <1>1, <1>4, <1>5

\* A request for a resident page of LRU is a hit of the queue.
LEMMA LruHitMoves ==
  ASSUME AgesPast, NEW m, NEW s, ByAge(Resident, Age, m, s), NEW page \in Int, NEW i,
         Touched(page, i), frames[i] = page
  PROVE  /\ \E t : ByAge(Resident', Age', m, t)
         /\ \E k \in DOMAIN EvictionOrder :
              /\ EvictionOrder[k] = page
              /\ EvictionOrder' = Append(Queue!RemoveAt(EvictionOrder, k), page)
<1>1. i \in Resident
  BY DEF Resident, Touched
<1>2. PICK k \in 1..m : s[k] = i
  BY <1>1, QueueHolds
<1>3. /\ EvictionOrder \in [1..m -> Int] /\ m \in Nat /\ DOMAIN EvictionOrder = 1..m
      /\ EvictionOrder[k] = page
  BY <1>2, QueueHolds
<1>4. /\ \E t : ByAge(Resident', Age', m, t)
      /\ EvictionOrder' = Shift(m, EvictionOrder, k, page)
  BY <1>2, QueueMoves
<1>5. Shift(m, EvictionOrder, k, page) = Append(Queue!RemoveAt(EvictionOrder, k), page)
  BY <1>3, MoveIsAppend DEF Queue!RemoveAt
<1>. QED
  BY <1>3, <1>4, <1>5

\* The load of the first empty frame is a fault with room in the queue.
LEMMA PlaceAppends ==
  ASSUME PolicyInv, NEW m, NEW s, ByAge(Resident, Age, m, s), NEW page \in Int, NEW i,
         Touched(page, i), frames[i] = EMPTY, \A j \in 0..(i-1) : frames[j] # EMPTY
  PROVE  /\ \E t : ByAge(Resident', Age', m + 1, t)
         /\ Len(EvictionOrder) # frame_count
         /\ EvictionOrder' = Append(EvictionOrder, page)
<1>0. /\ AgesPast /\ frame_count \in Nat \ {0} /\ Slots = 0..(frame_count - 1) /\ i \in Slots
  BY PolicyInvGives DEF Touched
<1>1. /\ EvictionOrder \in [1..m -> Int] /\ m \in Nat /\ Len(EvictionOrder) = m
  BY <1>0, QueueHolds
<1>2. Resident = 0..(i-1)
  <2>1. \A j \in Slots : j > i => frames[j] = EMPTY
    BY <1>0 DEF PolicyInv, FramesConsistent
  <2>2. \A j \in Slots : frames[j] # EMPTY <=> j < i
    BY <1>0, <2>1
  <2>. QED
    BY <1>0, <2>2 DEF Resident
<1>3. Cardinality(Resident) = i
  <2>1. 0 \in Int /\ i - 1 \in Int /\ (IF 0 > i - 1 THEN 0 ELSE i - 1 - 0 + 1) = i
    BY <1>0
  <2>2. Cardinality(0..(i-1)) = IF 0 > i - 1 THEN 0 ELSE i - 1 - 0 + 1
    BY <2>1, FS_Interval
  <2>. QED
    BY <1>2, <2>1, <2>2
<1>4. m # frame_count
  BY <1>0, <1>3, EvictionOrderIs
<1>5. /\ \E t : ByAge(Resident', Age', m + 1, t)
      /\ EvictionOrder' = Grow(m, EvictionOrder, page)
  BY <1>0, QueueGrows
<1>6. Grow(m, EvictionOrder, page) = Append(EvictionOrder, page)
  BY <1>1, GrowIsAppend
<1>. QED
  BY <1>1, <1>4, <1>5, <1>6

\* With all frames full, the load of the oldest slot is a fault that takes the
\* head of the queue.
LEMMA ReplaceTurns ==
  ASSUME PolicyInv, NEW m, NEW s, ByAge(Resident, Age, m, s), NEW page \in Int, NEW i,
         Touched(page, i), ~Holds(EMPTY), \A j \in Slots : Age[i] <= Age[j]
  PROVE  /\ \E t : ByAge(Resident', Age', m, t)
         /\ Len(EvictionOrder) = frame_count
         /\ EvictionOrder' = Append(Tail(EvictionOrder), page)
<1>0. /\ AgesPast /\ frame_count \in Nat \ {0} /\ Slots = 0..(frame_count - 1) /\ i \in Slots
  BY PolicyInvGives DEF Touched
<1>1. /\ EvictionOrder \in [1..m -> Int] /\ m \in Nat /\ Len(EvictionOrder) = m
      /\ \A k \in 1..m : s[k] \in Resident
      /\ \A j \in Resident : \E k \in 1..m : s[k] = j
  BY <1>0, QueueHolds
<1>2. Resident = Slots
  BY DEF Resident, Holds
<1>3. m = frame_count
  <2>1. (IF 0 > frame_count - 1 THEN 0 ELSE frame_count - 1 - 0 + 1) = frame_count
        /\ 0 \in Int /\ frame_count - 1 \in Int
    BY <1>0
  <2>2. Cardinality(0..(frame_count - 1)) = IF 0 > frame_count - 1 THEN 0 ELSE frame_count - 1 - 0 + 1
    BY <2>1, FS_Interval
  <2>3. Cardinality(Resident) = m
    BY EvictionOrderIs
  <2>. QED
    BY <1>0, <1>2, <2>1, <2>2, <2>3
<1>4. PICK k \in 1..m : s[k] = i
  BY <1>0, <1>1, <1>2
<1>5. k = 1
  <2>. SUFFICES ASSUME k # 1 PROVE FALSE
    OBVIOUS
  <2>1. 1 \in 1..m /\ 1 < k
    BY <1>1
  <2>2. Age[s[1]] < Age[s[k]]
    BY <2>1 DEF ByAge
  <2>3. s[1] \in Slots /\ Age[s[1]] \in Int /\ Age[i] \in Int
    BY <1>0, <1>1, <1>2, <2>1 DEF AgesPast
  <2>. QED
    BY <1>4, <2>2, <2>3
<1>6. Touched(page, s[k])
  BY <1>4
<1>7. /\ \E t : ByAge(Resident', Age', m, t)
      /\ EvictionOrder' = Shift(m, EvictionOrder, k, page)
  BY <1>0, <1>6, QueueMoves
<1>8. Shift(m, EvictionOrder, k, page) = Append(Tail(EvictionOrder), page)
  <2>1. m \in Nat \ {0} /\ EvictionOrder \in [1..m -> Int]
    BY <1>1
  <2>2. Shift(m, EvictionOrder, 1, page) = Append(Tail(EvictionOrder), page)
    BY <2>1, TurnIsTail
  <2>. QED
    BY <1>5, <2>2
<1>. QED
  BY <1>1, <1>3, <1>7, <1>8

\* The pointer goes around the ring.
LEMMA NextSlotIs ==
  ASSUME frame_count \in Nat \ {0}, NEW i \in 0..(frame_count - 1)
  PROVE  NextSlot(i) = IF i = frame_count - 1 THEN 0 ELSE i + 1
<1>1. CASE i = frame_count - 1
  <2>1. i + 1 = frame_count /\ frame_count % frame_count = 0
    BY <1>1
  <2>. QED
    BY <1>1, <2>1 DEF NextSlot
<1>2. CASE i # frame_count - 1
  <2>1. i + 1 \in 0..(frame_count - 1)
    BY <1>2
  <2>2. \A n \in Nat \ {0} : \A x \in 0..(n-1) : x % n = x
    OBVIOUS
  <2>. QED
    BY <1>2, <2>1, <2>2 DEF NextSlot
<1>. QED
  BY <1>1, <1>2

\* What every request has in common.
LEMMA RequestIs ==
  ASSUME EMPTY \notin PageInputs, TypeOK, NEW page, Request(page)
  PROVE  /\ page \in Int /\ page # EMPTY /\ page \in UNION PageSets
         /\ step' = step + 1 /\ UNCHANGED <<algo_mode, frame_count>> /\ Slots' = Slots
<1>1. page \in pages /\ pages \in PageSets /\ UNCHANGED inputs /\ step' = step + 1
  BY DEF Request, TypeOK
<1>. QED
  BY <1>1, Inputs, PagesAreInts DEF inputs, Slots

\* The times stay in the past when a request changes one of each at most.
LEMMA TimesPast ==
  ASSUME PolicyInv, step' = step + 1, Slots' = Slots,
         since' = since \/ \E i \in Slots : since' = [since EXCEPT ![i] = step + 1],
         last_used' = last_used \/ \E i \in Slots : last_used' = [last_used EXCEPT ![i] = step + 1]
  PROVE  \A i \in Slots' : since'[i] <= step' /\ last_used'[i] <= step'
<1>1. /\ since \in [Slots -> Int] /\ last_used \in [Slots -> Int] /\ step \in Nat
      /\ \A i \in Slots : since[i] <= step /\ last_used[i] <= step
  BY PolicyInvGives DEF PolicyInv, AgesPast
<1>. SUFFICES ASSUME NEW i \in Slots PROVE since'[i] <= step + 1 /\ last_used'[i] <= step + 1
  OBVIOUS
<1>2. since[i] \in Int /\ last_used[i] \in Int /\ since[i] <= step + 1 /\ last_used[i] <= step + 1
  BY <1>1
<1>3. since'[i] = since[i] \/ since'[i] = step + 1
  BY <1>1
<1>4. last_used'[i] = last_used[i] \/ last_used'[i] = step + 1
  BY <1>1
<1>. QED
  BY <1>1, <1>2, <1>3, <1>4

\* Nothing that the queue depends on changes.
LEMMA QueueUnchanged ==
  ASSUME UNCHANGED <<frames, since, last_used, algo_mode, frame_count>>
  PROVE  UNCHANGED <<EvictionOrder, Resident, Age, Slots>>
  BY DEF EvictionOrder, EvictionSlots, Resident, Age, Slots, EMPTY

\* simulate_fifo, a hit.
LEMMA FifoHitStep ==
  ASSUME EMPTY \notin PageInputs, PolicyInv, FramesConsistent', NEW page, FifoHit(page)
  PROVE  PolicyInv' /\ Queue!Next
<1>1. /\ TypeOK /\ AgesPast
  BY PolicyInvGives
<1>2. /\ algo_mode = "FIFO" /\ Request(page) /\ Holds(page)
      /\ UNCHANGED <<frames, fifo_ptr, last_used, page_faults, since>>
  BY DEF FifoHit
<1>3. /\ page \in Int /\ page # EMPTY /\ page \in UNION PageSets
      /\ step' = step + 1 /\ UNCHANGED <<algo_mode, frame_count>> /\ Slots' = Slots
  BY <1>1, <1>2, RequestIs
<1>4. UNCHANGED <<EvictionOrder, Resident, Age, Slots>>
  BY <1>2, <1>3, QueueUnchanged
<1>5. PICK m, s : ByAge(Resident, Age, m, s)
  BY DEF PolicyInv
<1>6. ByAge(Resident', Age', m, s)
  BY <1>4, <1>5
<1>7. \A i \in Slots' : since'[i] <= step' /\ last_used'[i] <= step'
  BY <1>2, <1>3, TimesPast
<1>8. PointerOldest'
  <2>1. PointerOldest
    BY <1>2 DEF PolicyInv
  <2>. QED
    BY <1>2, <1>3, <2>1 DEF PointerOldest, Holds, EMPTY
<1>9. PICK i \in Slots : frames[i] = page
  BY <1>2 DEF Holds
<1>10. \E k \in DOMAIN EvictionOrder : EvictionOrder[k] = page
  <2>1. i \in Resident
    BY <1>3, <1>9 DEF Resident
  <2>. QED
    BY <1>1, <1>5, <1>9, <2>1, QueueHolds
<1>11. Queue!Hit(page)
  BY <1>2, <1>3, <1>4, <1>10 DEF Queue!Hit
<1>. QED
  BY <1>3, <1>6, <1>7, <1>8, <1>11 DEF PolicyInv, Queue!Next

\* simulate_lru, a hit.
LEMMA LruHitStep ==
  ASSUME EMPTY \notin PageInputs, PolicyInv, FramesConsistent', NEW page, LruHit(page)
  PROVE  PolicyInv' /\ Queue!Next
<1>1. /\ TypeOK /\ AgesPast /\ frame_count \in Nat /\ frames \in [Slots -> Int]
  BY PolicyInvGives DEF AgesPast
<1>. DEFINE i == SlotOf(page)
<1>2. /\ algo_mode = "LRU" /\ Request(page) /\ Holds(page)
      /\ last_used' = [last_used EXCEPT ![i] = step + 1]
      /\ UNCHANGED <<frames, fifo_ptr, page_faults, since>>
  BY DEF LruHit, HitTime
<1>3. /\ page \in Int /\ page # EMPTY /\ page \in UNION PageSets
      /\ step' = step + 1 /\ UNCHANGED <<algo_mode, frame_count>> /\ Slots' = Slots
  BY <1>1, <1>2, RequestIs
<1>4. i \in Slots /\ frames[i] = page
  BY <1>1, <1>2, SlotFound
<1>. HIDE DEF i
<1>5. Touched(page, i)
  <2>1. frames' = [frames EXCEPT ![i] = page]
    BY <1>1, <1>2, <1>4
  <2>2. Age' = [Age EXCEPT ![i] = step + 1]
    BY <1>2, <1>3 DEF Age
  <2>. QED
    BY <1>3, <1>4, <2>1, <2>2 DEF Touched
<1>6. PICK m, s : ByAge(Resident, Age, m, s)
  BY DEF PolicyInv
<1>7. /\ \E t : ByAge(Resident', Age', m, t)
      /\ \E k \in DOMAIN EvictionOrder :
           /\ EvictionOrder[k] = page
           /\ EvictionOrder' = Append(Queue!RemoveAt(EvictionOrder, k), page)
  BY <1>1, <1>3, <1>4, <1>5, <1>6, LruHitMoves
<1>8. \A j \in Slots' : since'[j] <= step' /\ last_used'[j] <= step'
  BY <1>2, <1>3, <1>4, TimesPast
<1>9. Queue!Hit(page)
  BY <1>2, <1>3, <1>7 DEF Queue!Hit
<1>. QED
  BY <1>2, <1>3, <1>7, <1>8, <1>9 DEF PolicyInv, Queue!Next

\* A page that is in no frame is not in the queue.
LEMMA MissesQueue ==
  ASSUME AgesPast, NEW m, NEW s, ByAge(Resident, Age, m, s), NEW page, ~Holds(page)
  PROVE  \A k \in DOMAIN EvictionOrder : EvictionOrder[k] # page
<1>1. DOMAIN EvictionOrder = 1..m /\ \A k \in 1..m : s[k] \in Resident /\ EvictionOrder[k] = frames[s[k]]
  BY QueueHolds
<1>. QED
  BY <1>1 DEF Holds, Resident

\* A load of the first empty frame, under either policy.
LEMMA PlaceStep ==
  ASSUME EMPTY \notin PageInputs, PolicyInv, FramesConsistent', NEW page,
         FifoPlace(page) \/ LruPlace(page)
  PROVE  PolicyInv' /\ Queue!Next
<1>1. /\ TypeOK /\ AgesPast /\ frame_count \in Nat \ {0} /\ Slots = 0..(frame_count - 1)
      /\ frames \in [Slots -> Int] /\ since \in [Slots -> Int] /\ fifo_ptr \in Slots /\ step \in Nat
  BY PolicyInvGives DEF AgesPast
<1>. DEFINE i == SlotOf(EMPTY)
<1>2. /\ Request(page) /\ ~Holds(page) /\ Holds(EMPTY)
      /\ frames' = [frames EXCEPT ![i] = page] /\ since' = [since EXCEPT ![i] = step + 1]
      /\ page_faults' = page_faults + 1
      /\ \/ algo_mode = "FIFO" /\ fifo_ptr' = NextSlot(i) /\ last_used' = last_used
         \/ algo_mode = "LRU" /\ last_used' = [last_used EXCEPT ![i] = step + 1]
  BY DEF FifoPlace, LruPlace, Load
<1>3. /\ page \in Int /\ page # EMPTY /\ page \in UNION PageSets
      /\ step' = step + 1 /\ UNCHANGED <<algo_mode, frame_count>> /\ Slots' = Slots
  BY <1>1, <1>2, RequestIs
<1>4. i \in Slots /\ frames[i] = EMPTY /\ \A j \in 0..(i-1) : frames[j] # EMPTY
  BY <1>1, <1>2, SlotFound
<1>. HIDE DEF i
<1>5. Touched(page, i)
  <2>2. Age' = [Age EXCEPT ![i] = step + 1]
    BY <1>2, <1>3 DEF Age
  <2>. QED
    BY <1>2, <1>3, <1>4, <2>2 DEF Touched
<1>6. PICK m, s : ByAge(Resident, Age, m, s)
  BY DEF PolicyInv
<1>7. /\ \E t : ByAge(Resident', Age', m + 1, t)
      /\ Len(EvictionOrder) # frame_count
      /\ EvictionOrder' = Append(EvictionOrder, page)
  BY <1>3, <1>4, <1>5, <1>6, PlaceAppends
<1>8. \A j \in Slots' : since'[j] <= step' /\ last_used'[j] <= step'
  BY <1>2, <1>3, <1>4, TimesPast
<1>9. Queue!Fault(page)
  <2>1. \A k \in DOMAIN EvictionOrder : EvictionOrder[k] # page
    BY <1>1, <1>2, <1>6, MissesQueue
  <2>. QED
    BY <1>2, <1>3, <1>7, <2>1 DEF Queue!Fault
<1>10. ASSUME algo_mode = "FIFO" PROVE PointerOldest'
  <2>0. /\ \A j \in Slots : since[j] \in Int /\ since[j] <= step
        /\ \A j, k \in Slots : j < k /\ frames[j] = EMPTY => frames[k] = EMPTY
    BY <1>1 DEF PolicyInv, FramesConsistent
  <2>1. /\ \A j \in Slots : j < fifo_ptr <=> frames[j] # EMPTY
        /\ \A j, k \in Slots : j < k /\ frames[k] # EMPTY =>
             IF j < fifo_ptr /\ fifo_ptr <= k THEN since[k] < since[j] ELSE since[j] < since[k]
    BY <1>2, <1>10 DEF PolicyInv, PointerOldest
  <2>2. \A j \in Slots : frames[j] # EMPTY <=> j < i
    BY <1>1, <1>4, <2>0
  <2>3. /\ \A j \in Slots : j # i => frames'[j] = frames[j] /\ since'[j] = since[j]
        /\ frames'[i] = page /\ since'[i] = step + 1
    BY <1>1, <1>2, <1>4
  <2>4. \A j \in Slots : frames'[j] # EMPTY <=> j <= i
    BY <1>1, <1>3, <1>4, <2>2, <2>3
  <2>5. \A j, k \in Slots : j < k /\ k <= i => since'[j] < since'[k]
    <3>. SUFFICES ASSUME NEW j \in Slots, NEW k \in Slots, j < k, k <= i PROVE since'[j] < since'[k]
      OBVIOUS
    <3>1. j # i /\ since'[j] = since[j] /\ since[j] \in Int /\ since[j] <= step
      BY <1>1, <1>4, <2>0, <2>3
    <3>2. CASE k = i
      BY <1>1, <2>3, <3>1, <3>2
    <3>3. CASE k # i
      <4>1. k < i /\ frames[k] # EMPTY /\ k < fifo_ptr
        BY <1>1, <1>4, <2>1, <2>2, <3>3
      <4>2. since[j] < since[k]
        BY <1>1, <2>1, <4>1
      <4>. QED
        BY <2>3, <3>1, <3>3, <4>2
    <3>. QED
      BY <3>2, <3>3
  <2>6. fifo_ptr' = IF i = frame_count - 1 THEN 0 ELSE i + 1
    BY <1>1, <1>2, <1>4, <1>10, NextSlotIs
  <2>7. Holds(EMPTY)' => i # frame_count - 1
    BY <1>1, <1>3, <2>4 DEF Holds, EMPTY
  <2>8. Holds(EMPTY)' => \A j \in Slots : j < fifo_ptr' <=> frames'[j] # EMPTY
    BY <1>1, <1>4, <2>4, <2>6, <2>7
  <2>9. \A j, k \in Slots : j < k /\ frames'[k] # EMPTY =>
          ~(j < fifo_ptr' /\ fifo_ptr' <= k) /\ since'[j] < since'[k]
    BY <1>1, <1>4, <2>4, <2>5, <2>6
  <2>. QED
    BY <1>3, <2>8, <2>9 DEF PointerOldest, EMPTY
<1>. QED
  BY <1>3, <1>7, <1>8, <1>9, <1>10 DEF PolicyInv, Queue!Next

\* A replacement, under either policy.
LEMMA ReplaceStep ==
  ASSUME EMPTY \notin PageInputs, PolicyInv, FramesConsistent', NEW page,
         FifoReplace(page) \/ LruReplace(page)
  PROVE  PolicyInv' /\ Queue!Next
<1>1. /\ TypeOK /\ AgesPast /\ frame_count \in Nat \ {0} /\ Slots = 0..(frame_count - 1)
      /\ frames \in [Slots -> Int] /\ since \in [Slots -> Int] /\ fifo_ptr \in Slots /\ step \in Nat
      /\ last_used \in [Slots -> Int] /\ \A j \in Slots : last_used[j] >= -1
  BY PolicyInvGives DEF AgesPast
<1>2. /\ Request(page) /\ ~Holds(page) /\ ~Holds(EMPTY)
  BY DEF FifoReplace, LruReplace
<1>3. /\ page \in Int /\ page # EMPTY /\ page \in UNION PageSets
      /\ step' = step + 1 /\ UNCHANGED <<algo_mode, frame_count>> /\ Slots' = Slots
  BY <1>1, <1>2, RequestIs
<1>4. \A j \in Slots : frames[j] # EMPTY
  BY <1>2 DEF Holds
<1>. DEFINE Slot(i) ==
        /\ i \in Slots /\ frames' = [frames EXCEPT ![i] = page] /\ since' = [since EXCEPT ![i] = step + 1]
        /\ page_faults' = page_faults + 1
        /\ \/ algo_mode = "FIFO" /\ i = fifo_ptr /\ fifo_ptr' = NextSlot(i) /\ last_used' = last_used
           \/ algo_mode = "LRU" /\ last_used' = [last_used EXCEPT ![i] = step + 1]
        /\ \A j \in Slots : Age[i] <= Age[j]
<1>5. \E i : Slot(i)
  <2>1. CASE FifoReplace(page)
    <3>1. /\ algo_mode = "FIFO" /\ fifo_ptr' = NextSlot(fifo_ptr) /\ last_used' = last_used
          /\ frames' = [frames EXCEPT ![fifo_ptr] = page] /\ since' = [since EXCEPT ![fifo_ptr] = step + 1]
          /\ page_faults' = page_faults + 1
      BY <2>1 DEF FifoReplace, Load
    <3>2. PointerOldest
      BY <3>1 DEF PolicyInv
    <3>3. \A j \in Slots : since[fifo_ptr] <= since[j]
      <4>. TAKE j \in Slots
      <4>1. j < fifo_ptr => since[fifo_ptr] < since[j]
        BY <1>1, <1>4, <3>2 DEF PointerOldest
      <4>2. j > fifo_ptr => since[fifo_ptr] < since[j]
        BY <1>1, <1>4, <3>2 DEF PointerOldest
      <4>. QED
        BY <1>1, <4>1, <4>2
    <3>4. Slot(fifo_ptr)
      BY <1>1, <3>1, <3>3 DEF Age
    <3>. QED
      BY <3>4
  <2>2. CASE LruReplace(page)
    <3>1. /\ algo_mode = "LRU" /\ last_used' = [last_used EXCEPT ![lru_index] = step + 1]
          /\ frames' = [frames EXCEPT ![lru_index] = page] /\ since' = [since EXCEPT ![lru_index] = step + 1]
          /\ page_faults' = page_faults + 1
      BY <2>2 DEF LruReplace, Load
    <3>2. lru_index \in Slots /\ \A j \in Slots : last_used[lru_index] <= last_used[j]
      BY <1>1, LruFound
    <3>3. Slot(lru_index)
      BY <3>1, <3>2 DEF Age
    <3>. QED
      BY <3>3
  <2>. QED
    BY <2>1, <2>2
<1>6. PICK i : Slot(i)
  BY <1>5
<1>7. Touched(page, i)
  <2>1. Age' = [Age EXCEPT ![i] = step + 1]
    BY <1>3, <1>6 DEF Age
  <2>. QED
    BY <1>3, <1>6, <2>1 DEF Touched
<1>8. PICK m, s : ByAge(Resident, Age, m, s)
  BY DEF PolicyInv
<1>9. /\ \E t : ByAge(Resident', Age', m, t)
      /\ Len(EvictionOrder) = frame_count
      /\ EvictionOrder' = Append(Tail(EvictionOrder), page)
  BY <1>2, <1>3, <1>6, <1>7, <1>8, ReplaceTurns
<1>10. \A j \in Slots' : since'[j] <= step' /\ last_used'[j] <= step'
  BY <1>3, <1>6, TimesPast
<1>11. Queue!Fault(page)
  <2>1. \A k \in DOMAIN EvictionOrder : EvictionOrder[k] # page
    BY <1>1, <1>2, <1>8, MissesQueue
  <2>. QED
    BY <1>3, <1>6, <1>9, <2>1 DEF Queue!Fault
<1>12. ASSUME algo_mode = "FIFO" PROVE PointerOldest'
  <2>1. i = fifo_ptr /\ fifo_ptr' = NextSlot(i) /\ i \in Slots
    BY <1>6, <1>12
  <2>2. fifo_ptr' = IF i = frame_count - 1 THEN 0 ELSE i + 1
    BY <1>1, <2>1, NextSlotIs
  <2>3. /\ \A j \in Slots : j # i => frames'[j] = frames[j] /\ since'[j] = since[j]
        /\ frames'[i] = page /\ since'[i] = step + 1
    BY <1>1, <1>6
  <2>4. \A j \in Slots : frames'[j] # EMPTY
    BY <1>3, <1>4, <2>3
  <2>5. \A j \in Slots : j # i => since'[j] < since'[i] /\ since'[j] \in Int
    BY <1>1, <2>3 DEF PolicyInv
  <2>6. \A j, k \in Slots : j < k =>
          IF j < i /\ i <= k THEN since[k] < since[j] ELSE since[j] < since[k]
    BY <1>4, <1>12, <2>1 DEF PolicyInv, PointerOldest
  <2>7. ASSUME NEW j \in Slots, NEW k \in Slots, j < k
        PROVE  IF j < fifo_ptr' /\ fifo_ptr' <= k THEN since'[k] < since'[j] ELSE since'[j] < since'[k]
    <3>1. CASE j = i
      BY <1>1, <2>2, <2>5, <2>7, <3>1
    <3>2. CASE k = i
      BY <1>1, <2>2, <2>5, <2>7, <3>2
    <3>3. CASE j # i /\ k # i
      <4>1. since'[j] = since[j] /\ since'[k] = since[k]
        BY <2>3, <3>3
      <4>2. (j < fifo_ptr' /\ fifo_ptr' <= k) <=> (j < i /\ i <= k)
        BY <1>1, <2>1, <2>2, <2>7, <3>3
      <4>. QED
        BY <2>6, <2>7, <4>1, <4>2
    <3>. QED
      BY <3>1, <3>2, <3>3
  <2>8. ~Holds(EMPTY)'
    BY <1>3, <2>4 DEF Holds, EMPTY
  <2>. QED
    BY <1>3, <2>7, <2>8 DEF PointerOldest
<1>. QED
  BY <1>3, <1>9, <1>10, <1>11, <1>12 DEF PolicyInv, Queue!Next

\* Every request is a step of the queue; the end of the string is none.
LEMMA PolicyStep ==
  ASSUME EMPTY \notin PageInputs
  PROVE  PolicyInv /\ [Next]_vars => PolicyInv' /\ [Queue!Next]_(Queue!vars)
<1>. SUFFICES ASSUME PolicyInv, [Next]_vars PROVE PolicyInv' /\ [Queue!Next]_(Queue!vars)
  OBVIOUS
<1>1. FramesConsistent'
  BY FramesStep DEF PolicyInv
<1>2. ASSUME NEW page, FifoServe(page) \/ LruServe(page) PROVE PolicyInv' /\ Queue!Next
  BY <1>1, <1>2, FifoHitStep, LruHitStep, PlaceStep, ReplaceStep DEF FifoServe, LruServe
<1>3. CASE UNCHANGED vars
  <2>1. UNCHANGED <<frames, since, last_used, algo_mode, frame_count, page_faults, step, fifo_ptr>>
    BY <1>3 DEF vars, inputs
  <2>2. UNCHANGED <<EvictionOrder, Resident, Age, Slots>>
    BY <2>1, QueueUnchanged
  <2>3. PICK m, s : ByAge(Resident, Age, m, s)
    BY DEF PolicyInv
  <2>4. ByAge(Resident', Age', m, s)
    BY <2>2, <2>3
  <2>5. algo_mode' = "FIFO" => PointerOldest'
    BY <2>1, <2>2 DEF PolicyInv, PointerOldest, Holds, EMPTY
  <2>6. PolicyInv'
    BY <1>1, <2>1, <2>2, <2>4, <2>5 DEF PolicyInv
  <2>. QED
    BY <2>1, <2>2, <2>6 DEF Queue!vars
<1>. QED
  BY <1>2, <1>3 DEF Next, Done

\* simulate_fifo is a FIFO queue and simulate_lru an LRU list, request by
\* request and fault by fault, for every number of frames and every string
\* without the page number -1.
THEOREM PolicyImplemented ==
  ASSUME EMPTY \notin PageInputs
  PROVE  Spec => ImplementsPolicy
<1>1. Init => PolicyInv /\ Queue!Init
  <2>. SUFFICES ASSUME Init PROVE PolicyInv /\ Queue!Init
    OBVIOUS
  <2>1. TypeOK /\ FramesConsistent
    BY InitType DEF Init, FramesConsistent
  <2>2. Resident = {} /\ \A i \in Slots : since[i] <= step /\ last_used[i] <= step
    BY DEF Init, Resident
  <2>3. ByAge(Resident, Age, 0, <<>>)
    BY <2>2 DEF ByAge
  <2>4. frame_count \in Nat /\ fifo_ptr = 0 /\ \A i \in Slots : frames[i] = EMPTY /\ ~(i < 0)
    BY <2>1, PagingAssumption DEF Init, TypeOK, Slots
  <2>5. PointerOldest
    BY <2>4 DEF PointerOldest
  <2>6. EvictionOrder = <<>>
    <3>1. EvictionOrder = PagesAlong(frames, 0, <<>>)
      BY <2>3, EvictionOrderIs
    <3>. QED
      BY <3>1 DEF PagesAlong
  <2>7. Queue!Init
    BY <2>1, <2>6 DEF Queue!Init, Init, TypeOK
  <2>. QED
    BY <2>1, <2>2, <2>3, <2>5, <2>7 DEF PolicyInv
<1>. QED
  BY <1>1, PolicyStep, PTL DEF Spec, ImplementsPolicy, Queue!Spec
=============================================================================
