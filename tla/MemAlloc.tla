------------------------------ MODULE MemAlloc ------------------------------
(***************************************************************************)
(* The dynamic-partition memory allocator of 2lab/3/3-1.c: first, best and *)
(* worst fit over a list of free blocks, coalescing on release, compaction *)
(* when no single block is large enough.  One action per menu entry; a     *)
(* menu entry runs to its end before the next one is read.                 *)
(*                                                                         *)
(* A list of free blocks and its separately kept length travel together as *)
(* a record F; the order qsort gives to equal keys is unspecified, so      *)
(* rearrange_by is a set of results.                                       *)
(***************************************************************************)
EXTENDS Integers, Sequences, SequencesExt

CONSTANTS
  DEFAULT_MEM_SIZE,  \* 1024 in the code
  MIN_SLICE,         \* 10 in the code: no smaller remainder is kept
  MemSizes,          \* numbers entered in menu entry 1
  Requests,          \* numbers entered in menu entry 3
  Garbage,           \* values of the uninitialised ab->size
  MallocFails,       \* malloc may return NULL
  MaxPid             \* bound on the processes ever created

ASSUME SizeAssumption ==
  /\ DEFAULT_MEM_SIZE \in Nat \ {0} /\ MIN_SLICE \in Nat /\ MaxPid \in Nat
  /\ MemSizes \subseteq Int /\ Requests \subseteq Int /\ Garbage \subseteq Nat
  /\ MallocFails \in BOOLEAN

VARIABLES
  mem_size, ma_algorithm, flag, pid, free_block, free_block_len,
  allocated,  \* the list at allocated_block_head
  ret,        \* what the last menu function returned
  zero_made,  \* history: a process was given a block of size 0
  status      \* "run", "exit", or "overflow" (allocate_mem recurses for ever)

vars == <<mem_size, ma_algorithm, flag, pid, free_block, free_block_len, allocated,
          ret, zero_made, status>>

MA_FF == 1
MA_BF == 2
MA_WF == 3

\* init_free_block: one block, the whole memory.
Init ==
  /\ mem_size = DEFAULT_MEM_SIZE /\ ma_algorithm = MA_FF /\ flag = 0 /\ pid = 0
  /\ free_block = <<[start |-> 0, size |-> DEFAULT_MEM_SIZE]>> /\ free_block_len = 1
  /\ allocated = <<>> /\ ret = 0 /\ zero_made = FALSE /\ status = "run"

---------------------------------------------------------------------------
(* The free list.                                                          *)

F == [list |-> free_block, len |-> free_block_len]

SetFree(G) == free_block' = G.list /\ free_block_len' = G.len

\* The running sums of the sizes of a list.
SumTo(s) == LET sum[i \in 0..Len(s)] == IF i = 0 THEN 0 ELSE sum[i-1] + s[i].size
            IN  sum

TotalSize(s) == SumTo(s)[Len(s)]

\* Faulty: cmpWF with the comparison of cmpBF.
PrecedesNoWF(alg, a, b) ==
  IF alg = MA_FF THEN a.start <= b.start ELSE a.size <= b.size

\* cmpFF, cmpBF, cmpWF: a need not come after b.
Precedes(alg, a, b) ==
  CASE alg = MA_FF -> a.start <= b.start
    [] alg = MA_BF -> a.size <= b.size
    [] alg = MA_WF -> a.size >= b.size

\* The results of qsort with a comparator.
Sorted(alg, s) ==
  {t \in {[i \in DOMAIN s |-> s[f[i]]] : f \in Bijection(DOMAIN s, DOMAIN s)} :
     \A i, j \in DOMAIN t : i < j => Precedes(alg, t[i], t[j])}

rearrange_by(alg, G) == {[G EXCEPT !.list = t] : t \in Sorted(alg, SubSeq(G.list, 1, G.len))}

\* Faulty: the list keeps its order.
NotRearranged(alg, G) == {G}

\* First fit needs no sorting: its list is in address order already.
rearrange_unless_FF(alg, G) == IF alg = MA_FF THEN {G} ELSE rearrange_by(alg, G)

delete_free_block(G, i) == [list |-> RemoveAt(G.list, i), len |-> G.len - 1]

insert_free_block(G, b) == [list |-> <<b>> \o G.list, len |-> G.len + 1]

---------------------------------------------------------------------------
(* allocate_mem and compact_memory.                                        *)

Fit(G, n) == SelectInSeq(G.list, LAMBDA b : b.size >= n)

\* A block after n cells were taken from its beginning.
Remainder(b, n) == [start |-> b.start + n, size |-> b.size - n]

\* Take n cells from block i of the list: a remainder of at most MIN_SLICE is
\* dropped with the block.
TakeFrom(G, i, n) ==
  IF G.list[i].size - n <= MIN_SLICE
  THEN {delete_free_block(G, i)}
  ELSE rearrange_unless_FF(ma_algorithm,
                           [G EXCEPT !.list[i] = Remainder(@, n)])

\* The recursive call: the first block that fits, or nothing.
TakeIfFits(G, n) == IF Fit(G, n) = 0 THEN {G} ELSE TakeFrom(G, Fit(G, n), n)

\* The new places of the blocks allocated, taken in address order t.
Moved(t) ==
  [k \in DOMAIN allocated |->
     LET i == CHOOSE j \in DOMAIN t : t[j].pid = allocated[k].pid
     IN  [allocated[k] EXCEPT !.start = SumTo(t)[i-1]]]

\* Faulty: the tail begins one cell too early.
CompactedEarly(t) ==
  LET used == TotalSize(t)
  IN  IF used < mem_size
      THEN [list |-> <<[start |-> used - 1, size |-> mem_size - used]>>, len |-> 1]
      ELSE [list |-> <<>>, len |-> 0]

\* The free list after compaction: the tail of the memory, if any is left.
CompactedFree(t) ==
  LET used == TotalSize(t)
  IN  IF used < mem_size
      THEN [list |-> <<[start |-> used, size |-> mem_size - used]>>, len |-> 1]
      ELSE [list |-> <<>>, len |-> 0]

---------------------------------------------------------------------------
(* Menu entry 3, new_process.  allocate_mem ends in one of five ways.      *)

\* A number that is not positive leaves ab->size uninitialised.
SizeOf(n) == IF n > 0 THEN {n} ELSE Garbage

NewProcess(n) == status = "run" /\ pid < MaxPid /\ n \in Requests

\* malloc of the descriptor fails: exit(-5).
NoDescriptor(n) ==
  /\ NewProcess(n) /\ MallocFails
  /\ status' = "exit"
  /\ UNCHANGED <<mem_size, ma_algorithm, flag, pid, free_block, free_block_len, allocated, ret, zero_made>>

\* A block is large enough; the process goes to the head of the list.
Allocate(n) ==
  /\ NewProcess(n)
  /\ \E size \in SizeOf(n) :
       /\ Fit(F, size) # 0
       /\ \E G \in TakeFrom(F, Fit(F, size), size) : SetFree(G)
       /\ allocated' = <<[pid |-> pid + 1, size |-> size,
                          start |-> free_block[Fit(F, size)].start]>> \o allocated
       /\ zero_made' = (zero_made \/ size = 0)
  /\ ret' = (IF allocated = <<>> THEN 1 ELSE 2)
  /\ pid' = pid + 1 /\ flag' = 1
  /\ UNCHANGED <<mem_size, ma_algorithm, status>>

\* There is not enough memory in all.
Refuse(n) ==
  /\ NewProcess(n)
  /\ \E size \in SizeOf(n) : Fit(F, size) = 0 /\ TotalSize(free_block) < size
  /\ ret' = -1 /\ pid' = pid + 1 /\ flag' = 1
  /\ UNCHANGED <<mem_size, ma_algorithm, free_block, free_block_len, allocated, status, zero_made>>

\* Enough memory in all, but not in one block: compact_memory is called.
Fragmented(size) == Fit(F, size) = 0 /\ TotalSize(free_block) >= size

\* compact_memory succeeds.  allocate_mem calls itself, takes the memory from
\* the tail, drops the result and returns -1; new_process frees the descriptor.
CompactAndDrop(n) ==
  /\ NewProcess(n) /\ allocated # <<>>
  /\ \E t \in Sorted(MA_FF, allocated), size \in SizeOf(n) :
       /\ Fragmented(size)
       /\ allocated' = Moved(t)
       /\ \E G \in TakeIfFits(CompactedFree(t), size) : SetFree(G)
  /\ ret' = -1 /\ pid' = pid + 1 /\ flag' = 1
  /\ UNCHANGED <<mem_size, ma_algorithm, status, zero_made>>

\* compact_memory runs out of memory: before it has moved anything, or after
\* it has moved the blocks and freed the list.
CompactFails(n) ==
  /\ NewProcess(n) /\ allocated # <<>> /\ MallocFails
  /\ \E size \in SizeOf(n) : Fragmented(size)
  /\ \/ UNCHANGED <<allocated, free_block, free_block_len>>
     \/ /\ \E t \in Sorted(MA_FF, allocated) :
             CompactedFree(t).list # <<>> /\ allocated' = Moved(t)
        /\ SetFree([list |-> <<>>, len |-> 0])
  /\ ret' = -1 /\ pid' = pid + 1 /\ flag' = 1
  /\ UNCHANGED <<mem_size, ma_algorithm, status, zero_made>>

\* With no process, compact_memory returns 1 and changes nothing: the same
\* call of allocate_mem again, until the stack is full.
RecurseForEver(n) ==
  /\ NewProcess(n) /\ allocated = <<>>
  /\ \E size \in SizeOf(n) : Fragmented(size)
  /\ status' = "overflow" /\ pid' = pid + 1
  /\ UNCHANGED <<mem_size, ma_algorithm, flag, free_block, free_block_len, allocated, ret, zero_made>>

---------------------------------------------------------------------------
(* Menu entry 4, kill_process: free_mem and dispose.                       *)

\* Faulty: a block merged once is not looked at again; the size is replaced;
\* the address after the block is one too high.
MergeFirstOnly(acc, b) ==
  IF Len(acc) = 1 /\ Last(acc).start + Last(acc).size = b.start
  THEN [acc EXCEPT ![Len(acc)].size = @ + b.size]
  ELSE Append(acc, b)
MergeSizeLost(acc, b) ==
  IF acc # <<>> /\ Last(acc).start + Last(acc).size = b.start
  THEN [acc EXCEPT ![Len(acc)].size = b.size]
  ELSE Append(acc, b)
MergeOffByOne(acc, b) ==
  IF acc # <<>> /\ Last(acc).start + Last(acc).size + 1 = b.start
  THEN [acc EXCEPT ![Len(acc)].size = @ + b.size]
  ELSE Append(acc, b)

\* One step of the scan: b follows the blocks acc already scanned.
Merge(acc, b) ==
  IF acc # <<>> /\ Last(acc).start + Last(acc).size = b.start
  THEN [acc EXCEPT ![Len(acc)].size = @ + b.size]
  ELSE Append(acc, b)

\* The blocks scanned after each step of the loop.
Scan(s) == LET acc[i \in 0..Len(s)] == IF i = 0 THEN <<>> ELSE Merge(acc[i-1], s[i])
           IN  acc

MergeAll(G) ==
  LET s == Scan(G.list)[Len(G.list)]
  IN  [list |-> s, len |-> G.len - (Len(G.list) - Len(s))]

\* free_mem of block b: insert at the head, sort by address, merge, sort.
free_mem(b) ==
  UNION {rearrange_unless_FF(ma_algorithm, MergeAll(G)) :
           G \in rearrange_by(MA_FF, insert_free_block(F, [start |-> b.start, size |-> b.size]))}

\* find_process fails: nothing but the flag changes.
KillNobody(q) ==
  /\ status = "run" /\ \A k \in DOMAIN allocated : allocated[k].pid # q
  /\ flag' = 1
  /\ UNCHANGED <<mem_size, ma_algorithm, pid, free_block, free_block_len, allocated, ret, status, zero_made>>

\* The result of free_mem is ignored: dispose also follows a failure.
KillProcess(q) ==
  /\ status = "run"
  /\ \E k \in DOMAIN allocated :
       /\ allocated[k].pid = q
       /\ \/ \E G \in free_mem(allocated[k]) : SetFree(G)
          \/ MallocFails /\ UNCHANGED <<free_block, free_block_len>>
       /\ allocated' = RemoveAt(allocated, k)
  /\ flag' = 1
  /\ UNCHANGED <<mem_size, ma_algorithm, pid, ret, status, zero_made>>

---------------------------------------------------------------------------
(* Menu entries 1, 2, 5 and 0.                                             *)

SetMemSize(n) ==
  /\ status = "run"
  /\ \/ /\ flag # 0
        /\ ret' = 0
        /\ UNCHANGED <<mem_size, free_block, flag>>
     \/ /\ flag = 0 /\ n > 0
        /\ mem_size' = n /\ free_block' = [free_block EXCEPT ![1].size = n]
        /\ ret' = 1 /\ flag' = 1
     \/ /\ flag = 0 /\ n <= 0
        /\ ret' = 1 /\ flag' = 1
        /\ UNCHANGED <<mem_size, free_block>>
  /\ UNCHANGED <<ma_algorithm, pid, free_block_len, allocated, status, zero_made>>

\* An unknown number keeps the algorithm; the list is sorted in any case.
SetAlgorithm(a) ==
  /\ status = "run"
  /\ ma_algorithm' = (IF a \in 1..3 THEN a ELSE ma_algorithm)
  /\ \E G \in rearrange_by(ma_algorithm', F) : SetFree(G)
  /\ flag' = 1
  /\ UNCHANGED <<mem_size, pid, allocated, ret, status, zero_made>>

\* Shows both lists and returns 0, or returns -1 at once.
DisplayMemUsage ==
  /\ status = "run"
  /\ ret' = (IF free_block = <<>> THEN -1 ELSE 0)
  /\ flag' = 1
  /\ UNCHANGED <<mem_size, ma_algorithm, pid, free_block, free_block_len, allocated, status, zero_made>>

\* do_exit frees both lists, and main returns: nothing reads them again.
Exit ==
  /\ status = "run" /\ status' = "exit"
  /\ UNCHANGED <<mem_size, ma_algorithm, flag, pid, free_block, free_block_len, allocated, ret, zero_made>>

Ended == status # "run" /\ UNCHANGED vars

Next ==
  \/ \E n \in Requests :
       \/ NoDescriptor(n) \/ Allocate(n) \/ Refuse(n)
       \/ CompactAndDrop(n) \/ CompactFails(n) \/ RecurseForEver(n)
  \/ \E q \in 1..MaxPid : KillProcess(q) \/ KillNobody(q)
  \/ \E n \in MemSizes : SetMemSize(n)
  \/ \E a \in 0..3 : SetAlgorithm(a)
  \/ DisplayMemUsage
  \/ Exit
  \/ Ended

Spec == Init /\ [][Next]_vars

---------------------------------------------------------------------------
(* Properties.                                                             *)

Block == [start : Nat, size : Nat]

\* Every variable has its type: no size and no address is ever negative.
TypeOK ==
  /\ mem_size \in Nat \ {0} /\ ma_algorithm \in {MA_FF, MA_BF, MA_WF}
  /\ flag \in {0, 1} /\ pid \in 0..MaxPid
  /\ free_block \in Seq(Block) /\ free_block_len \in Nat
  /\ allocated \in Seq([pid : 1..MaxPid, start : Nat, size : Nat])
  /\ ret \in {-1, 0, 1, 2} /\ zero_made \in BOOLEAN
  /\ status \in {"run", "exit", "overflow"}

\* The cells of a block, and of all blocks of a list.
Cells(b) == b.start..(b.start + b.size - 1)
CellsOf(s) == UNION {Cells(s[i]) : i \in DOMAIN s}

\* The variables have their types, no cell belongs to two blocks, free or
\* allocated, and every block lies in the memory: through splits, merges,
\* compactions and the memory they lose.
BlocksDisjoint ==
  /\ TypeOK
  /\ LET all == free_block \o allocated
     IN  \A i, j \in DOMAIN all :
           /\ Cells(all[i]) \subseteq 0..(mem_size - 1)
           /\ i # j => Cells(all[i]) \cap Cells(all[j]) = {}

\* Block b is at least as good as block c for an algorithm, by what first,
\* best and worst fit mean.
AtLeastAsGood(alg, b, c) ==
  /\ alg = MA_FF => b.start <= c.start
  /\ alg = MA_BF => b.size <= c.size
  /\ alg = MA_WF => b.size >= c.size

\* Between two menu entries the free memory is listed in the order of the
\* algorithm in use, so that the first block that fits is the right one.
\* (Blocks of size 0 hold no memory; they may stand anywhere.)  And
\* free_block_len, which rearrange_by trusts when it copies the list into an
\* array, is the length of the list.
ListSorted ==
  /\ LET real == {i \in DOMAIN free_block : free_block[i].size > 0}
     IN  \A i, j \in real :
           i < j => AtLeastAsGood(ma_algorithm, free_block[i], free_block[j])
  /\ free_block_len = Len(free_block)

\* A process gets the lowest, the smallest or the largest of the blocks that
\* fit, by the algorithm in use.
RightBlockTaken ==
  Len(allocated') > Len(allocated) /\ allocated'[1].size > 0 =>
    LET new  == allocated'[1]
        fits == {i \in DOMAIN free_block : free_block[i].size >= new.size}
    IN  \E i \in fits :
          /\ free_block[i].start = new.start
          /\ \A j \in fits : AtLeastAsGood(ma_algorithm, free_block[i], free_block[j])

FitIsRight == [][RightBlockTaken]_vars

\* free_mem leaves no two free blocks next to each other, whatever the order
\* and the number of the free blocks it found.  (A block of size 0, which an
\* uninitialised ab->size gives, may hide a neighbour from the scan.)
NeighboursJoined ==
  /\ Len(allocated') < Len(allocated) /\ free_block' # free_block
  /\ \A i \in DOMAIN free_block : free_block[i].size > 0
  /\ \A k \in DOMAIN allocated : allocated[k].size > 0
  => \A i, j \in DOMAIN free_block' :
       free_block'[i].start + free_block'[i].size # free_block'[j].start

FreeMemMerges == [][NeighboursJoined]_vars

\* Killing a process frees all its cells or, when free_mem gets no node from
\* malloc, none: merging and sorting neither lose nor invent a cell.
AllFreedOrNone ==
  Len(allocated') < Len(allocated) =>
    LET freed == CellsOf(allocated) \ CellsOf(allocated')
    IN  \/ CellsOf(free_block') = CellsOf(free_block) \cup freed
        \/ MallocFails /\ free_block' = free_block

KillFreesItsCells == [][AllFreedOrNone]_vars

\* 3-1.c, new_process: a result of -1 is "allocation not successful", so it
\* leaves no less free memory than before.
FailureTakesNothing ==
  [][pid' # pid /\ ret' = -1 => TotalSize(free_block') >= TotalSize(free_block)]_vars

\* allocate_mem calls itself for ever only after memory has been lost (by a
\* remainder, a dropped allocation or a failed malloc) or after a block of size
\* 0 has kept two neighbours apart: otherwise the blocks that are left after the
\* last kill have merged into one, and there is nothing for compact_memory to
\* report falsely.
RecursionNeedsLoss ==
  status = "overflow" => zero_made \/ CellsOf(free_block) # 0..(mem_size - 1)
=============================================================================
