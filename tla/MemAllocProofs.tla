--------------------------- MODULE MemAllocProofs ---------------------------
(***************************************************************************)
(* Theorems about the allocator of 2lab/3/3-1.c, for every size of the     *)
(* memory, every request and every number of processes.                    *)
(***************************************************************************)
EXTENDS MemAlloc, WellFoundedInduction, TLAPS

---------------------------------------------------------------------------
(* The inductive invariant.                                                *)

\* Two blocks share no cell.
Apart(b, c) ==
  \/ b.size = 0 \/ c.size = 0
  \/ b.start + b.size <= c.start \/ c.start + c.size <= b.start

AllApart(s) == \A i, j \in DOMAIN s : i # j => Apart(s[i], s[j])

\* A block lies in a memory of n cells.
Inside(b, n) == b.size = 0 \/ b.start + b.size <= n

Positive(s) == \A i \in DOMAIN s : s[i].size > 0

\* No block ends where another begins.
Unmergeable(s) == \A i, j \in DOMAIN s : s[i].start + s[i].size # s[j].start

\* The free blocks s and the blocks A in use share no cell, and all are in a
\* memory of m cells.
LayoutOf(s, A, m) ==
  /\ AllApart(s) /\ AllApart(A)
  /\ \A i \in DOMAIN s, k \in DOMAIN A : Apart(s[i], A[k])
  /\ \A i \in DOMAIN s : Inside(s[i], m)
  /\ \A k \in DOMAIN A : Inside(A[k], m)

Layout == LayoutOf(free_block, allocated, mem_size)

DistinctPids(A) == \A k, l \in DOMAIN A : k # l => A[k].pid # A[l].pid

\* Processes have different numbers, none larger than the last one given.
Pids == DistinctPids(allocated) /\ \A k \in DOMAIN allocated : allocated[k].pid <= pid

\* As long as the size may be set, the memory is as init_free_block left it.
Fresh == flag = 0 => /\ free_block = <<[start |-> 0, size |-> mem_size]>>
                     /\ allocated = <<>>

\* Without a process of size 0 every block holds memory, and free neighbours
\* are merged at all times.
MergedOf(s, A) == Positive(s) /\ Positive(A) /\ Unmergeable(s)

Merged == ~zero_made => MergedOf(free_block, allocated)

IInv == TypeOK /\ Layout /\ Pids /\ Fresh /\ ListSorted /\ Merged /\ RecursionNeedsLoss

---------------------------------------------------------------------------
(* Lists: the running sum.                                                 *)

\* A set of naturals that is not empty has a least element.
LEMMA LeastElement ==
  ASSUME NEW T \in SUBSET Nat, T # {}
  PROVE  \E x \in T : \A y \in T : x <= y
<1>1. IsWellFoundedOn(OpToRel(<, Nat), Nat)
  BY NatLessThanWellFounded
<1>2. PICK x \in T : \A y \in T : ~(<<y, x>> \in OpToRel(<, Nat))
  BY <1>1, WFMin
<1>3. \A y \in T : <<y, x>> \in OpToRel(<, Nat) <=> y < x
  BY DEF OpToRel
<1>4. \A y \in T : ~(y < x)
  BY <1>2, <1>3, Zenon
<1>5. \A y \in T : x <= y
  BY <1>4
<1>. QED
  BY <1>5

\* Induction over the prefixes of a list: a set of lengths with 0 and, with
\* each number but the last, the next one, is complete.
LEMMA PrefixInduction ==
  ASSUME NEW n \in Nat, NEW T \in SUBSET (0..n), 0 \in T,
         \A i \in 1..n : i - 1 \in T => i \in T
  PROVE  T = 0..n
<1>. SUFFICES ASSUME T # 0..n PROVE FALSE
  OBVIOUS
<1>. DEFINE U == (0..n) \ T
<1>0. \E x \in 0..n : x \notin T
  OBVIOUS
<1>1. U \in SUBSET Nat /\ U # {}
  BY <1>0
<1>. HIDE DEF U
<1>2. PICK x \in U : \A y \in U : x <= y
  BY <1>1, LeastElement
<1>3. x \in 1..n /\ x \notin T
  BY <1>2 DEF U
<1>4. x - 1 \in 0..n /\ x - 1 \notin U
  BY <1>1, <1>2, <1>3
<1>. QED
  BY <1>3, <1>4 DEF U

\* SumTo is what its definition says.
LEMMA SumToDef ==
  ASSUME NEW s, Len(s) \in Nat, \A i \in 1..Len(s) : s[i].size \in Nat
  PROVE  /\ SumTo(s) \in [0..Len(s) -> Nat] /\ SumTo(s)[0] = 0
         /\ \A i \in 1..Len(s) : SumTo(s)[i] = SumTo(s)[i-1] + s[i].size
<1>. DEFINE n == Len(s)
            Sums(k, f) == /\ f \in [0..k -> Nat] /\ f[0] = 0
                          /\ \A i \in 1..k : f[i] = f[i-1] + s[i].size
            T == {k \in 0..n : \E f : Sums(k, f)}
<1>1. 0 \in T
  <2>1. Sums(0, [i \in 0..0 |-> 0])
    OBVIOUS
  <2>. HIDE DEF Sums
  <2>. QED
    BY <2>1
<1>2. ASSUME NEW k \in 1..n, k - 1 \in T PROVE k \in T
  <2>1. PICK f : Sums(k - 1, f)
    BY <1>2
  <2>. DEFINE g == [i \in 0..k |-> IF i = k THEN f[k-1] + s[k].size ELSE f[i]]
  <2>2. f[k-1] \in Nat /\ s[k].size \in Nat
    BY <2>1
  <2>3. g \in [0..k -> Nat] /\ g[0] = 0
    BY <2>1, <2>2
  <2>4. ASSUME NEW i \in 1..k PROVE g[i] = g[i-1] + s[i].size
    BY <2>1
  <2>5. Sums(k, g)
    BY <2>3, <2>4
  <2>. HIDE DEF Sums, g
  <2>. QED
    BY <2>5
<1>3. n \in T
  <2>1. T \in SUBSET (0..n)
    OBVIOUS
  <2>. HIDE DEF T
  <2>. QED
    BY <1>1, <1>2, <2>1, PrefixInduction
<1>4. PICK f : Sums(n, f)
  BY <1>3
<1>5. f = [i \in 0..n |-> IF i = 0 THEN 0 ELSE f[i-1] + s[i].size]
  BY <1>4
<1>6. SumTo(s) = [i \in 0..n |-> IF i = 0 THEN 0 ELSE SumTo(s)[i-1] + s[i].size]
  BY <1>5 DEF SumTo
<1>7. \A i \in 0..n : SumTo(s)[i] \in Nat
  <2>. DEFINE V == {i \in 0..n : SumTo(s)[i] \in Nat}
  <2>1. V \in SUBSET (0..n) /\ 0 \in V
    BY <1>6
  <2>2. ASSUME NEW i \in 1..n, i - 1 \in V PROVE i \in V
    BY <1>6, <2>2
  <2>. HIDE DEF V
  <2>3. V = 0..n
    BY <2>1, <2>2, PrefixInduction
  <2>. QED
    BY <2>3 DEF V
<1>8. SumTo(s)[0] = 0
  BY <1>6
<1>9. ASSUME NEW i \in 1..n PROVE SumTo(s)[i] = SumTo(s)[i-1] + s[i].size
  BY <1>6
<1>10. SumTo(s) \in [0..n -> Nat]
  <2>. DEFINE h == SumTo(s)
              e(i) == IF i = 0 THEN 0 ELSE h[i-1] + s[i].size
  <2>1. h = [i \in 0..n |-> e(i)] /\ \A i \in 0..n : h[i] \in Nat
    BY <1>6, <1>7
  <2>. HIDE DEF h, e
  <2>. QED
    BY <2>1 DEF h
<1>. QED
  BY <1>8, <1>9, <1>10

\* The running sum grows with the prefix.
LEMMA SumToGrows ==
  ASSUME NEW s, Len(s) \in Nat, \A i \in 1..Len(s) : s[i].size \in Nat
  PROVE  \A i, j \in 0..Len(s) : i <= j => SumTo(s)[i] <= SumTo(s)[j]
<1>. DEFINE n == Len(s)
            T == {j \in 0..n : \A i \in 0..n : i <= j => SumTo(s)[i] <= SumTo(s)[j]}
<1>1. /\ SumTo(s) \in [0..n -> Nat] /\ SumTo(s)[0] = 0
      /\ \A i \in 1..n : SumTo(s)[i] = SumTo(s)[i-1] + s[i].size
  BY SumToDef
<1>2. T \in SUBSET (0..n) /\ 0 \in T
  BY <1>1
<1>3. ASSUME NEW j \in 1..n, j - 1 \in T PROVE j \in T
  <2>1. SumTo(s)[j-1] <= SumTo(s)[j] /\ SumTo(s)[j-1] \in Nat /\ SumTo(s)[j] \in Nat
    BY <1>1
  <2>2. ASSUME NEW i \in 0..n, i <= j PROVE SumTo(s)[i] <= SumTo(s)[j]
    <3>1. SumTo(s)[i] \in Nat
      BY <1>1
    <3>2. CASE i <= j - 1
      BY <1>3, <2>1, <3>1, <3>2
    <3>3. CASE i = j
      BY <3>1, <3>3
    <3>. QED
      BY <2>2, <3>2, <3>3
  <2>. QED
    BY <2>2
<1>. HIDE DEF T
<1>4. T = 0..n
  BY <1>2, <1>3, PrefixInduction
<1>. QED
  BY <1>4 DEF T

---------------------------------------------------------------------------
(* Lists: qsort.                                                           *)

\* t is s in another order, f says which.
Shuffle(f, s, t) ==
  /\ f \in [DOMAIN s -> DOMAIN s]
  /\ \A i, j \in DOMAIN s : i # j => f[i] # f[j]
  /\ \A k \in DOMAIN s : \E i \in DOMAIN s : f[i] = k
  /\ DOMAIN t = DOMAIN s /\ \A i \in DOMAIN s : t[i] = s[f[i]]

Permuted(s, t) == \E f : Shuffle(f, s, t)

Ordered(alg, t) == \A i, j \in DOMAIN t : i < j => Precedes(alg, t[i], t[j])

\* What qsort returns: the same blocks in the order of the comparator.
LEMMA SortedIs ==
  ASSUME NEW X, NEW s \in Seq(X), NEW alg, NEW t \in Sorted(alg, s)
  PROVE  t \in Seq(X) /\ Len(t) = Len(s) /\ Permuted(s, t) /\ Ordered(alg, t)
<1>1. DOMAIN s = 1..Len(s) /\ Len(s) \in Nat
  OBVIOUS
<1>2. PICK f \in Bijection(DOMAIN s, DOMAIN s) : t = [i \in DOMAIN s |-> s[f[i]]]
  BY DEF Sorted
<1>3. Shuffle(f, s, t)
  <2>1. /\ f \in [DOMAIN s -> DOMAIN s]
        /\ \A k \in DOMAIN s : \E i \in DOMAIN s : f[i] = k
        /\ \A i, j \in DOMAIN s : f[i] = f[j] => i = j
    BY <1>2, Zenon DEF Bijection, Injection, Surjection, IsInjective
  <2>. QED
    BY <1>2, <2>1 DEF Shuffle
<1>4. t \in Seq(X) /\ Len(t) = Len(s)
  BY <1>1, <1>2, <1>3 DEF Shuffle
<1>. QED
  BY <1>3, <1>4 DEF Permuted, Ordered, Sorted

\* A list of free blocks with its right length.
FreeLists == {G \in [list : Seq(Block), len : Nat] : G.len = Len(G.list)}

\* rearrange_by returns the same blocks in order, and the same length.
LEMMA RearrangeIs ==
  ASSUME NEW G \in FreeLists, NEW alg, NEW H \in rearrange_by(alg, G)
  PROVE  /\ H \in FreeLists /\ Permuted(G.list, H.list) /\ Ordered(alg, H.list)
<1>1. G \in [list : Seq(Block), len : Nat] /\ G.len = Len(G.list)
  BY DEF FreeLists
<1>2. SubSeq(G.list, 1, G.len) = G.list
  BY <1>1
<1>3. PICK t \in Sorted(alg, G.list) : H = [G EXCEPT !.list = t]
  BY <1>2 DEF rearrange_by
<1>4. t \in Seq(Block) /\ Len(t) = Len(G.list) /\ Permuted(G.list, t) /\ Ordered(alg, t)
  BY <1>1, SortedIs
<1>5. H = [list |-> t, len |-> G.len]
  BY <1>1, <1>3
<1>. QED
  BY <1>1, <1>4, <1>5 DEF FreeLists

\* The cells of a list.
LEMMA InCellsOf == \A s, x : x \in CellsOf(s) <=> \E i \in DOMAIN s : x \in Cells(s[i])
  BY DEF CellsOf

\* What does not depend on the order of a list.
LEMMA PermutedKeeps ==
  ASSUME NEW s, NEW t, Permuted(s, t)
  PROVE  /\ \A i \in DOMAIN t : \E k \in DOMAIN s : t[i] = s[k]
         /\ \A k \in DOMAIN s : \E i \in DOMAIN t : t[i] = s[k]
         /\ AllApart(s) => AllApart(t)
         /\ Unmergeable(s) => Unmergeable(t)
         /\ Positive(s) => Positive(t)
         /\ CellsOf(s) = CellsOf(t)
<1>1. PICK f : Shuffle(f, s, t)
  BY DEF Permuted
<1>2. /\ \A i \in DOMAIN t : f[i] \in DOMAIN s /\ t[i] = s[f[i]]
      /\ \A k \in DOMAIN s : \E i \in DOMAIN t : f[i] = k
      /\ \A i, j \in DOMAIN t : i # j => f[i] # f[j]
  BY <1>1 DEF Shuffle
<1>3. \A x : x \in CellsOf(s) <=> x \in CellsOf(t)
  BY <1>2, InCellsOf
<1>4. CellsOf(s) = CellsOf(t)
  BY <1>3
<1>. QED
  BY <1>2, <1>4 DEF AllApart, Unmergeable, Positive

---------------------------------------------------------------------------
(* Lists: the scan of free_mem that merges neighbours.                     *)

\* The two blocks of a merge as one.
Joined(a, b) == [start |-> a.start, size |-> a.size + b.size]

\* A block is its start and its size.
LEMMA BlockFields ==
  ASSUME NEW b \in Block
  PROVE  b.start \in Nat /\ b.size \in Nat /\ b = [start |-> b.start, size |-> b.size]
  BY DEF Block

\* The merge of two blocks is a block.
LEMMA JoinedBlock ==
  ASSUME NEW a \in Block, NEW b \in Block
  PROVE  Joined(a, b) \in Block /\ [a EXCEPT !.size = @ + b.size] = Joined(a, b)
  BY BlockFields DEF Joined, Block

\* The elements of a list of blocks are blocks.
LEMMA BlocksOf ==
  ASSUME NEW s \in Seq(Block)
  PROVE  /\ Len(s) \in Nat /\ DOMAIN s = 1..Len(s)
         /\ \A i \in 1..Len(s) : s[i] \in Block /\ s[i].start \in Nat /\ s[i].size \in Nat
<1>1. Len(s) \in Nat /\ DOMAIN s = 1..Len(s) /\ \A i \in 1..Len(s) : s[i] \in Block
  OBVIOUS
<1>. QED
  BY <1>1, BlockFields

\* The scan joins b to the last block, or goes on with b as the last one.
LEMMA MergeIs ==
  ASSUME NEW acc \in Seq(Block), NEW b \in Block
  PROVE  LET n == Len(acc)
             r == Merge(acc, b)
         IN  /\ r \in Seq(Block)
             /\ \/ /\ n > 0 /\ acc[n].start + acc[n].size = b.start
                   /\ Len(r) = n /\ r[n] = Joined(acc[n], b)
                   /\ \A i \in 1..(n-1) : r[i] = acc[i]
                \/ /\ n > 0 => acc[n].start + acc[n].size # b.start
                   /\ Len(r) = n + 1 /\ r[n+1] = b
                   /\ \A i \in 1..n : r[i] = acc[i]
<1>. DEFINE n == Len(acc)
            r == Merge(acc, b)
<1>0. n \in Nat /\ b.start \in Nat /\ b.size \in Nat
      /\ \A i \in 1..n : acc[i] \in Block /\ acc[i].start \in Nat /\ acc[i].size \in Nat
  BY BlocksOf, BlockFields
<1>1. acc # <<>> <=> n > 0
  BY <1>0
<1>2. CASE n > 0 /\ acc[n].start + acc[n].size = b.start
  <2>1. r = [acc EXCEPT ![n].size = @ + b.size]
    BY <1>1, <1>2 DEF Merge, Last
  <2>2. n \in 1..n /\ acc[n] \in Block
    BY <1>0, <1>2
  <2>3. Joined(acc[n], b) \in Block /\ r = [acc EXCEPT ![n] = Joined(acc[n], b)]
    BY <2>1, <2>2, JoinedBlock
  <2>4. r \in Seq(Block) /\ Len(r) = n
    BY <1>0, <2>2, <2>3
  <2>5. r[n] = Joined(acc[n], b) /\ \A i \in 1..(n-1) : r[i] = acc[i]
    BY <1>0, <2>2, <2>3
  <2>. QED
    BY <1>2, <2>4, <2>5
<1>3. CASE ~(n > 0 /\ acc[n].start + acc[n].size = b.start)
  <2>1. r = Append(acc, b)
    BY <1>1, <1>3 DEF Merge, Last
  <2>. QED
    BY <1>0, <1>3, <2>1
<1>. QED
  BY <1>2, <1>3

\* Scan is what its definition says.
LEMMA ScanDef ==
  ASSUME NEW s \in Seq(Block)
  PROVE  /\ Scan(s) \in [0..Len(s) -> Seq(Block)] /\ Scan(s)[0] = <<>>
         /\ \A i \in 1..Len(s) : Scan(s)[i] = Merge(Scan(s)[i-1], s[i])
<1>. DEFINE n == Len(s)
            Scans(k, f) == /\ f \in [0..k -> Seq(Block)] /\ f[0] = <<>>
                           /\ \A i \in 1..k : f[i] = Merge(f[i-1], s[i])
            T == {k \in 0..n : \E f : Scans(k, f)}
<1>0. n \in Nat /\ \A i \in 1..n : s[i] \in Block
  OBVIOUS
<1>m. \A acc \in Seq(Block), b \in Block : Merge(acc, b) \in Seq(Block)
  BY MergeIs
<1>1. 0 \in T
  <2>1. Scans(0, [i \in 0..0 |-> <<>>])
    OBVIOUS
  <2>. HIDE DEF Scans
  <2>. QED
    BY <1>0, <2>1
<1>2. ASSUME NEW k \in 1..n, k - 1 \in T PROVE k \in T
  <2>1. PICK f : Scans(k - 1, f)
    BY <1>2
  <2>. DEFINE g == [i \in 0..k |-> IF i = k THEN Merge(f[k-1], s[k]) ELSE f[i]]
  <2>2. f[k-1] \in Seq(Block) /\ s[k] \in Block /\ Merge(f[k-1], s[k]) \in Seq(Block)
    <3>1. f[k-1] \in Seq(Block)
      BY <1>0, <2>1
    <3>2. s[k] \in Block
      BY <1>0
    <3>. QED
      BY <1>m, <3>1, <3>2
  <2>3. g \in [0..k -> Seq(Block)] /\ g[0] = <<>>
    BY <1>0, <2>1, <2>2
  <2>4. ASSUME NEW i \in 1..k PROVE g[i] = Merge(g[i-1], s[i])
    BY <1>0, <2>1
  <2>5. Scans(k, g)
    BY <2>3, <2>4
  <2>. HIDE DEF Scans, g
  <2>. QED
    BY <2>5
<1>3. n \in T
  <2>1. T \in SUBSET (0..n)
    OBVIOUS
  <2>. HIDE DEF T
  <2>. QED
    BY <1>0, <1>1, <1>2, <2>1, PrefixInduction
<1>4. PICK f : Scans(n, f)
  BY <1>3
<1>5. f = [i \in 0..n |-> IF i = 0 THEN <<>> ELSE Merge(f[i-1], s[i])]
  BY <1>0, <1>4
<1>6. Scan(s) = [i \in 0..n |-> IF i = 0 THEN <<>> ELSE Merge(Scan(s)[i-1], s[i])]
  BY <1>5 DEF Scan
<1>7. \A i \in 0..n : Scan(s)[i] \in Seq(Block)
  <2>. DEFINE V == {i \in 0..n : Scan(s)[i] \in Seq(Block)}
  <2>1. V \in SUBSET (0..n) /\ 0 \in V
    BY <1>0, <1>6
  <2>2. ASSUME NEW i \in 1..n, i - 1 \in V PROVE i \in V
    <3>1. Scan(s)[i-1] \in Seq(Block) /\ s[i] \in Block
      BY <1>0, <2>2
    <3>2. Scan(s)[i] = Merge(Scan(s)[i-1], s[i])
      BY <1>0, <1>6
    <3>. QED
      BY <1>m, <3>1, <3>2
  <2>. HIDE DEF V
  <2>3. V = 0..n
    BY <1>0, <2>1, <2>2, PrefixInduction
  <2>. QED
    BY <2>3 DEF V
<1>8. Scan(s)[0] = <<>> /\ \A i \in 1..n : Scan(s)[i] = Merge(Scan(s)[i-1], s[i])
  BY <1>0, <1>6
<1>. QED
  BY <1>6, <1>7, <1>8

\* The three comparators.
LEMMA PrecedesIs ==
  \A a, b : /\ Precedes(MA_FF, a, b) = (a.start <= b.start)
            /\ Precedes(MA_BF, a, b) = (a.size <= b.size)
            /\ Precedes(MA_WF, a, b) = (a.size >= b.size)
  BY DEF Precedes, MA_FF, MA_BF, MA_WF

\* What joining two blocks that touch does to their cells and neighbours.
LEMMA JoinedIs ==
  ASSUME NEW a \in Block, NEW b \in Block, a.start + a.size = b.start
  PROVE  /\ Joined(a, b).start = a.start /\ Joined(a, b).size = a.size + b.size
         /\ \A x : x \in Cells(Joined(a, b)) <=> x \in Cells(a) \/ x \in Cells(b)
         /\ \A c \in Block : Apart(a, c) /\ Apart(b, c) => Apart(Joined(a, b), c)
         /\ \A m \in Nat : Inside(a, m) /\ Inside(b, m) => Inside(Joined(a, b), m)
<1>1. Joined(a, b).start = a.start /\ Joined(a, b).size = a.size + b.size
  BY DEF Joined
<1>2. /\ a.start \in Nat /\ a.size \in Nat /\ b.start \in Nat /\ b.size \in Nat
      /\ \A c \in Block : c.start \in Nat /\ c.size \in Nat
  BY BlockFields
<1>. QED
  BY <1>1, <1>2 DEF Cells, Apart, Inside

\* The list acc is what the scan makes of the first i blocks of s: it has
\* their cells, keeps apart what they keep apart, is in address order, does
\* not run ahead of the blocks to come, and no block touches the next.
ScanOK(s, i, acc) ==
  /\ \A x : x \in CellsOf(acc) <=> \E k \in 1..i : x \in Cells(s[k])
  /\ \A c \in Block : (\A k \in 1..i : Apart(s[k], c)) => \A a \in DOMAIN acc : Apart(acc[a], c)
  /\ \A m \in Nat : (\A k \in 1..i : Inside(s[k], m)) => \A a \in DOMAIN acc : Inside(acc[a], m)
  /\ AllApart(acc)
  /\ \A a, b \in DOMAIN acc : a < b => acc[a].start <= acc[b].start
  /\ \A a \in DOMAIN acc, k \in 1..Len(s) : i <= k => acc[a].start <= s[k].start
  /\ \A a \in DOMAIN acc : a + 1 \in DOMAIN acc => acc[a].start + acc[a].size # acc[a+1].start
  /\ Positive(s) => Positive(acc)
  /\ Len(acc) <= i

\* One step of the scan.
LEMMA ScanStep ==
  ASSUME NEW s \in Seq(Block), AllApart(s), Ordered(MA_FF, s), NEW i \in 1..Len(s),
         NEW acc \in Seq(Block), ScanOK(s, i - 1, acc)
  PROVE  ScanOK(s, i, Merge(acc, s[i]))
<1>. DEFINE n == Len(acc)
            b == s[i]
            r == Merge(acc, b)
<1>1. /\ Len(s) \in Nat /\ DOMAIN s = 1..Len(s)
      /\ \A k \in 1..Len(s) : s[k] \in Block /\ s[k].start \in Nat /\ s[k].size \in Nat
  BY BlocksOf
<1>2. /\ n \in Nat /\ DOMAIN acc = 1..n
      /\ \A a \in 1..n : acc[a] \in Block /\ acc[a].start \in Nat /\ acc[a].size \in Nat
  BY BlocksOf
<1>3. b \in Block /\ \A k \in i..Len(s) : b.start <= s[k].start
  <2>1. \A k \in 1..Len(s) : i < k => s[i].start <= s[k].start
    BY <1>1, PrecedesIs DEF Ordered
  <2>. QED
    BY <1>1, <2>1
<1>9. i \in 1..i /\ \A k : k \in 1..i <=> k = i \/ k \in 1..(i-1)
  BY <1>1
<1>10. \A x : x \in CellsOf(acc) <=> \E k \in 1..(i-1) : x \in Cells(s[k])
  BY Zenon DEF ScanOK
<1>11. \A c \in Block : (\A k \in 1..(i-1) : Apart(s[k], c)) => \A a \in 1..n : Apart(acc[a], c)
  BY <1>2, Zenon DEF ScanOK
<1>12. \A m \in Nat : (\A k \in 1..(i-1) : Inside(s[k], m)) => \A a \in 1..n : Inside(acc[a], m)
  BY <1>2, Zenon DEF ScanOK
<1>13. \A a, e \in 1..n : a # e => Apart(acc[a], acc[e])
  BY <1>2, Zenon DEF ScanOK, AllApart
<1>14. \A a, e \in 1..n : a < e => acc[a].start <= acc[e].start
  BY <1>2, Zenon DEF ScanOK
<1>15. \A a \in 1..n, k \in 1..Len(s) : i - 1 <= k => acc[a].start <= s[k].start
  BY <1>2, Zenon DEF ScanOK
<1>16. \A a \in 1..n : a + 1 \in 1..n => acc[a].start + acc[a].size # acc[a+1].start
  BY <1>2, Zenon DEF ScanOK
<1>17. Positive(s) => \A a \in 1..n : acc[a].size > 0
  BY <1>2, Zenon DEF ScanOK, Positive
<1>18. n <= i - 1
  BY DEF ScanOK
<1>19. \A c, d : Apart(c, d) => Apart(d, c)
  BY DEF Apart
<1>4. \A a \in 1..n : Apart(acc[a], b) /\ acc[a].start <= b.start
  <2>1. \A k \in 1..(i-1) : Apart(s[k], b)
    BY <1>1 DEF AllApart
  <2>. QED
    BY <1>1, <1>3, <1>11, <1>15, <2>1
<1>5. \A c : (\A k \in 1..i : Apart(s[k], c)) => (\A k \in 1..(i-1) : Apart(s[k], c)) /\ Apart(b, c)
  BY <1>9
<1>20. \A m : (\A k \in 1..i : Inside(s[k], m)) => (\A k \in 1..(i-1) : Inside(s[k], m)) /\ Inside(b, m)
  BY <1>9
<1>8. /\ r \in Seq(Block) /\ DOMAIN r = 1..Len(r) /\ Len(r) \in Nat
      /\ \A a \in 1..Len(r) : r[a].start \in Nat /\ r[a].size \in Nat
  BY <1>3, MergeIs, BlocksOf
<1>6. CASE /\ n > 0 /\ acc[n].start + acc[n].size = b.start
           /\ Len(r) = n /\ r[n] = Joined(acc[n], b)
           /\ \A a \in 1..(n-1) : r[a] = acc[a]
  <2>. HIDE DEF n, r
  <2>1. /\ n \in 1..n /\ acc[n] \in Block
        /\ \A a : a \in 1..n <=> a = n \/ a \in 1..(n-1)
    BY <1>2, <1>6
  <2>2. /\ \A x : x \in Cells(r[n]) <=> x \in Cells(acc[n]) \/ x \in Cells(b)
        /\ \A c \in Block : Apart(acc[n], c) /\ Apart(b, c) => Apart(r[n], c)
        /\ \A m \in Nat : Inside(acc[n], m) /\ Inside(b, m) => Inside(r[n], m)
        /\ r[n].start = acc[n].start /\ r[n].size = acc[n].size + b.size
    BY <1>3, <1>6, <2>1, JoinedIs
  <2>. HIDE DEF b
  <2>3. ASSUME NEW x PROVE x \in CellsOf(r) <=> \E k \in 1..i : x \in Cells(s[k])
    <3>1. x \in CellsOf(r) <=> x \in CellsOf(acc) \/ x \in Cells(b)
      BY <1>2, <1>6, <1>8, <2>1, <2>2, InCellsOf
    <3>. QED
      BY <1>9, <1>10, <3>1 DEF b
  <2>4. ASSUME NEW c \in Block, \A k \in 1..i : Apart(s[k], c), NEW a \in 1..n
        PROVE  Apart(r[a], c)
    <3>1. Apart(b, c) /\ \A e \in 1..n : Apart(acc[e], c)
      BY <1>5, <1>11, <2>4, Zenon
    <3>. QED
      BY <1>6, <2>1, <2>2, <3>1, Zenon
  <2>5. ASSUME NEW m \in Nat, \A k \in 1..i : Inside(s[k], m), NEW a \in 1..n
        PROVE  Inside(r[a], m)
    <3>1. Inside(b, m) /\ \A e \in 1..n : Inside(acc[e], m)
      BY <1>12, <1>20, <2>5, Zenon
    <3>. QED
      BY <1>6, <2>1, <2>2, <3>1, Zenon
  <2>6. AllApart(r)
    <3>1. \A a \in 1..(n-1) : acc[a] \in Block /\ a # n /\ a \in 1..n
      BY <1>2
    <3>2. \A a \in 1..(n-1) : Apart(acc[n], acc[a]) /\ Apart(b, acc[a])
      BY <1>4, <1>13, <1>19, <2>1, <3>1, Zenon
    <3>3. \A a \in 1..(n-1) : Apart(r[n], r[a]) /\ Apart(r[a], r[n])
      BY <1>6, <1>19, <2>2, <3>1, <3>2, Zenon
    <3>. QED
      BY <1>6, <1>8, <1>13, <2>1, <3>1, <3>3, Zenon DEF AllApart
  <2>7. \A a \in 1..n : r[a].start = acc[a].start
    BY <1>6, <2>1, <2>2, Zenon
  <2>8. /\ \A a, e \in DOMAIN r : a < e => r[a].start <= r[e].start
        /\ \A a \in DOMAIN r, k \in 1..Len(s) : i <= k => r[a].start <= s[k].start
    BY <1>1, <1>6, <1>8, <1>14, <1>15, <2>7
  <2>9. \A a \in DOMAIN r : a + 1 \in DOMAIN r => r[a].start + r[a].size # r[a+1].start
    <3>1. ASSUME NEW a \in 1..n, a + 1 \in 1..n PROVE r[a].start + r[a].size # r[a+1].start
      <4>1. a \in 1..(n-1)
        BY <1>2, <3>1
      <4>. QED
        BY <1>6, <1>16, <2>7, <3>1, <4>1
    <3>. QED
      BY <1>6, <1>8, <3>1
  <2>10. Positive(s) => Positive(r)
    <3>1. Positive(s) => b.size > 0
      BY <1>1 DEF Positive, b
    <3>2. b.size \in Nat /\ acc[n].size \in Nat
      BY <1>3, <2>1, BlockFields
    <3>3. Positive(s) => r[n].size > 0
      BY <2>2, <3>1, <3>2
    <3>4. Positive(s) => \A a \in 1..n : r[a].size > 0
      BY <1>6, <1>17, <2>1, <3>3, Zenon
    <3>. QED
      BY <1>6, <1>8, <3>4 DEF Positive
  <2>11. Len(r) <= i
    BY <1>1, <1>2, <1>6, <1>18
  <2>. QED
    BY <1>6, <1>8, <2>3, <2>4, <2>5, <2>6, <2>8, <2>9, <2>10, <2>11 DEF ScanOK, r, b
<1>7. CASE /\ n > 0 => acc[n].start + acc[n].size # b.start
           /\ Len(r) = n + 1 /\ r[n+1] = b
           /\ \A a \in 1..n : r[a] = acc[a]
  <2>. HIDE DEF n, b, r
  <2>1. \A a : a \in 1..(n+1) <=> a = n + 1 \/ a \in 1..n
    BY <1>2
  <2>3. ASSUME NEW x PROVE x \in CellsOf(r) <=> \E k \in 1..i : x \in Cells(s[k])
    <3>1. x \in CellsOf(r) <=> x \in CellsOf(acc) \/ x \in Cells(b)
      BY <1>2, <1>7, <1>8, <2>1, InCellsOf
    <3>. QED
      BY <1>9, <1>10, <3>1 DEF b
  <2>4. ASSUME NEW c \in Block, \A k \in 1..i : Apart(s[k], c), NEW a \in 1..(n+1)
        PROVE  Apart(r[a], c)
    <3>1. Apart(b, c) /\ \A e \in 1..n : Apart(acc[e], c)
      BY <1>5, <1>11, <2>4, Zenon
    <3>. QED
      BY <1>7, <2>1, <3>1, Zenon
  <2>5. ASSUME NEW m \in Nat, \A k \in 1..i : Inside(s[k], m), NEW a \in 1..(n+1)
        PROVE  Inside(r[a], m)
    <3>1. Inside(b, m) /\ \A e \in 1..n : Inside(acc[e], m)
      BY <1>12, <1>20, <2>5, Zenon
    <3>. QED
      BY <1>7, <2>1, <3>1, Zenon
  <2>6. AllApart(r)
    <3>1. \A a \in 1..n : Apart(r[n+1], r[a]) /\ Apart(r[a], r[n+1])
      BY <1>4, <1>7, <1>19, Zenon
    <3>2. ASSUME NEW a \in 1..(n+1), NEW e \in 1..(n+1), a # e PROVE Apart(r[a], r[e])
      <4>1. CASE a = n + 1
        BY <2>1, <3>1, <3>2, <4>1
      <4>2. CASE e = n + 1
        BY <2>1, <3>1, <3>2, <4>2
      <4>3. CASE a \in 1..n /\ e \in 1..n
        BY <1>7, <1>13, <3>2, <4>3
      <4>. QED
        BY <2>1, <4>1, <4>2, <4>3
    <3>. QED
      BY <1>7, <1>8, <3>2 DEF AllApart
  <2>8. /\ \A a, e \in DOMAIN r : a < e => r[a].start <= r[e].start
        /\ \A a \in DOMAIN r, k \in 1..Len(s) : i <= k => r[a].start <= s[k].start
    <3>1. ASSUME NEW a \in 1..(n+1), NEW e \in 1..(n+1), a < e PROVE r[a].start <= r[e].start
      <4>1. a \in 1..n
        BY <1>2, <3>1
      <4>. QED
        BY <1>4, <1>7, <1>14, <2>1, <3>1, <4>1
    <3>2. ASSUME NEW a \in 1..(n+1), NEW k \in 1..Len(s), i <= k PROVE r[a].start <= s[k].start
      <4>1. i - 1 <= k /\ k \in i..Len(s)
        BY <1>1, <3>2
      <4>. QED
        BY <1>3, <1>7, <1>15, <2>1, <3>2, <4>1, Zenon
    <3>. QED
      BY <1>7, <1>8, <3>1, <3>2
  <2>9. \A a \in DOMAIN r : a + 1 \in DOMAIN r => r[a].start + r[a].size # r[a+1].start
    <3>1. ASSUME NEW a \in 1..(n+1), a + 1 \in 1..(n+1) PROVE r[a].start + r[a].size # r[a+1].start
      <4>1. a \in 1..n /\ (a = n \/ a + 1 \in 1..n)
        BY <1>2, <3>1
      <4>2. CASE a = n
        BY <1>2, <1>7, <4>1, <4>2
      <4>3. CASE a + 1 \in 1..n
        BY <1>7, <1>16, <4>1, <4>3
      <4>. QED
        BY <4>1, <4>2, <4>3
    <3>. QED
      BY <1>7, <1>8, <3>1
  <2>10. Positive(s) => Positive(r)
    <3>1. Positive(s) => b.size > 0
      BY <1>1 DEF Positive, b
    <3>. QED
      BY <1>7, <1>8, <1>17, <2>1, <3>1 DEF Positive
  <2>11. Len(r) <= i
    BY <1>1, <1>2, <1>7, <1>18
  <2>. QED
    BY <1>7, <1>8, <2>3, <2>4, <2>5, <2>6, <2>8, <2>9, <2>10, <2>11 DEF ScanOK, r, b
<1>. QED
  BY <1>3, <1>6, <1>7, MergeIs

\* What MergeAll makes of a list in address order.
LEMMA MergeAllIs ==
  ASSUME NEW G \in FreeLists, AllApart(G.list), Ordered(MA_FF, G.list)
  PROVE  LET H == MergeAll(G)
             n == Len(G.list)
         IN  H \in FreeLists /\ ScanOK(G.list, n, H.list)
<1>. DEFINE s == G.list
            n == Len(s)
            T == {i \in 0..n : ScanOK(s, i, Scan(s)[i])}
<1>1. s \in Seq(Block) /\ n \in Nat /\ G.len = n
  BY DEF FreeLists
<1>. HIDE DEF s
<1>2. /\ Scan(s) \in [0..n -> Seq(Block)] /\ Scan(s)[0] = <<>>
      /\ \A i \in 1..n : Scan(s)[i] = Merge(Scan(s)[i-1], s[i])
  BY <1>1, ScanDef
<1>3. ScanOK(s, 0, <<>>)
  <2>1. \A x : x \notin CellsOf(<<>>)
    BY InCellsOf
  <2>. QED
    BY <1>1, <2>1 DEF ScanOK, AllApart, Positive
<1>4. T \in SUBSET (0..n) /\ 0 \in T
  BY <1>1, <1>2, <1>3
<1>5. ASSUME NEW i \in 1..n, i - 1 \in T PROVE i \in T
  <2>1. Scan(s)[i-1] \in Seq(Block)
    BY <1>1, <1>2
  <2>2. ScanOK(s, i, Merge(Scan(s)[i-1], s[i]))
    BY <1>1, <1>5, <2>1, ScanStep DEF s
  <2>. QED
    BY <1>2, <2>2
<1>. HIDE DEF T
<1>6. T = 0..n
  BY <1>1, <1>4, <1>5, PrefixInduction
<1>7. ScanOK(s, n, Scan(s)[n])
  BY <1>1, <1>6 DEF T
<1>8. Scan(s)[n] \in Seq(Block) /\ Len(Scan(s)[n]) \in Nat /\ Len(Scan(s)[n]) <= n
  BY <1>1, <1>2, <1>7 DEF ScanOK
<1>9. MergeAll(G) = [list |-> Scan(s)[n], len |-> Len(Scan(s)[n])]
  BY <1>1, <1>8 DEF MergeAll, s
<1>. QED
  BY <1>7, <1>8, <1>9 DEF FreeLists, s

\* A list in address order without blocks that touch the next has none that
\* touch at all, if all hold memory.
LEMMA NoneTouch ==
  ASSUME NEW s \in Seq(Block), AllApart(s), Positive(s),
         \A a, b \in DOMAIN s : a < b => s[a].start <= s[b].start,
         \A a \in DOMAIN s : a + 1 \in DOMAIN s => s[a].start + s[a].size # s[a+1].start
  PROVE  Unmergeable(s)
<1>1. /\ Len(s) \in Nat /\ DOMAIN s = 1..Len(s)
      /\ \A i \in 1..Len(s) : s[i].start \in Nat /\ s[i].size \in Nat /\ s[i].size > 0
  BY BlocksOf DEF Positive
<1>2. ASSUME NEW i \in 1..Len(s), NEW j \in 1..Len(s), i < j
      PROVE  s[i].start + s[i].size <= s[j].start
  <2>1. s[i].start <= s[j].start /\ i # j
    BY <1>1, <1>2
  <2>2. Apart(s[i], s[j])
    BY <1>1, <2>1 DEF AllApart
  <2>. QED
    BY <1>1, <2>1, <2>2 DEF Apart
<1>3. ASSUME NEW i \in 1..Len(s), NEW j \in 1..Len(s)
      PROVE  s[i].start + s[i].size # s[j].start
  <2>1. CASE j <= i
    <3>1. s[j].start <= s[i].start
      BY <1>1, <2>1
    <3>. QED
      BY <1>1, <3>1
  <2>2. CASE j = i + 1
    BY <1>1, <2>2
  <2>3. CASE j > i + 1
    <3>1. i + 1 \in 1..Len(s) /\ i < i + 1 /\ i + 1 < j
      BY <1>1, <2>3
    <3>2. s[i].start + s[i].size <= s[i+1].start /\ s[i+1].start + s[i+1].size <= s[j].start
      BY <1>2, <3>1
    <3>. QED
      BY <1>1, <3>1, <3>2
  <2>. QED
    BY <1>1, <2>1, <2>2, <2>3
<1>. QED
  BY <1>1, <1>3 DEF Unmergeable

---------------------------------------------------------------------------
(* Lists: compaction.                                                      *)

AllocBlock == [pid : 1..MaxPid, start : Nat, size : Nat]

\* Blocks in address order that share no cell are at least as far up as the
\* sizes before them add up to.
LEMMA SumToFits ==
  ASSUME NEW t \in Seq(AllocBlock), AllApart(t), Ordered(MA_FF, t),
         NEW m \in Nat, \A k \in DOMAIN t : Inside(t[k], m)
  PROVE  TotalSize(t) \in Nat /\ TotalSize(t) <= m
<1>. DEFINE n == Len(t)
            S == SumTo(t)
            T == {i \in 0..n : S[i] <= m /\ \A j \in 1..n : i < j /\ t[j].size > 0 => S[i] <= t[j].start}
<1>1. /\ n \in Nat /\ DOMAIN t = 1..n
      /\ \A i \in 1..n : t[i].start \in Nat /\ t[i].size \in Nat
  <2>1. n \in Nat /\ DOMAIN t = 1..n /\ \A i \in 1..n : t[i] \in AllocBlock
    OBVIOUS
  <2>. QED
    BY <2>1 DEF AllocBlock
<1>2. /\ S \in [0..n -> Nat] /\ S[0] = 0 /\ \A i \in 1..n : S[i] = S[i-1] + t[i].size
  BY <1>1, SumToDef
<1>. HIDE DEF S
<1>3. T \in SUBSET (0..n) /\ 0 \in T
  BY <1>1, <1>2
<1>4. ASSUME NEW i \in 1..n, i - 1 \in T PROVE i \in T
  <2>1. /\ S[i-1] \in Nat /\ S[i] \in Nat /\ S[i] = S[i-1] + t[i].size
        /\ t[i].start \in Nat /\ t[i].size \in Nat
    BY <1>1, <1>2
  <2>2. CASE t[i].size = 0
    <3>1. S[i] = S[i-1]
      BY <2>1, <2>2
    <3>2. S[i] <= m /\ \A j \in 1..n : i < j /\ t[j].size > 0 => S[i] <= t[j].start
      BY <1>1, <1>4, <3>1
    <3>. QED
      BY <3>2
  <2>3. CASE t[i].size > 0
    <3>1. S[i-1] <= t[i].start
      BY <1>1, <1>4, <2>3
    <3>2. S[i] <= t[i].start + t[i].size
      BY <2>1, <3>1
    <3>3. t[i].start + t[i].size <= m
      <4>1. Inside(t[i], m)
        BY <1>1
      <4>. QED
        BY <2>1, <2>3, <4>1 DEF Inside
    <3>4. ASSUME NEW j \in 1..n, i < j, t[j].size > 0 PROVE S[i] <= t[j].start
      <4>1. i \in DOMAIN t /\ j \in DOMAIN t /\ i # j
        BY <1>1, <3>4
      <4>2. t[i].start <= t[j].start
        BY <3>4, <4>1, PrecedesIs DEF Ordered
      <4>3. Apart(t[i], t[j])
        BY <4>1 DEF AllApart
      <4>. QED
        BY <1>1, <2>1, <2>3, <3>2, <3>4, <4>2, <4>3 DEF Apart
    <3>. QED
      BY <2>1, <3>2, <3>3, <3>4
  <2>. QED
    BY <2>1, <2>2, <2>3
<1>. HIDE DEF T
<1>5. T = 0..n
  BY <1>1, <1>3, <1>4, PrefixInduction
<1>6. n \in T
  BY <1>1, <1>5
<1>. QED
  BY <1>1, <1>2, <1>6 DEF TotalSize, S, T

\* compact_memory moves each block to the sum of the sizes before it.
LEMMA MovedIs ==
  ASSUME allocated \in Seq(AllocBlock), DistinctPids(allocated),
         NEW t \in Seq(AllocBlock), Permuted(allocated, t)
  PROVE  /\ DOMAIN Moved(t) = DOMAIN allocated
         /\ \A k \in DOMAIN allocated : \E i \in 1..Len(t) :
              /\ t[i] = allocated[k]
              /\ Moved(t)[k] = [allocated[k] EXCEPT !.start = SumTo(t)[i-1]]
<1>. DEFINE At(k) == CHOOSE j \in DOMAIN t : t[j].pid = allocated[k].pid
<1>1. Moved(t) = [k \in DOMAIN allocated |-> [allocated[k] EXCEPT !.start = SumTo(t)[At(k)-1]]]
  BY DEF Moved
<1>2. DOMAIN allocated = 1..Len(allocated)
  OBVIOUS
<1>3. DOMAIN t = 1..Len(t)
  OBVIOUS
<1>4. ASSUME NEW k \in DOMAIN allocated
      PROVE  At(k) \in 1..Len(t) /\ t[At(k)] = allocated[k]
  <2>0. /\ \A i \in DOMAIN t : \E l \in DOMAIN allocated : t[i] = allocated[l]
        /\ \A l \in DOMAIN allocated : \E i \in DOMAIN t : t[i] = allocated[l]
    BY PermutedKeeps
  <2>1. \E j \in DOMAIN t : t[j].pid = allocated[k].pid
    BY <2>0
  <2>2. At(k) \in DOMAIN t /\ t[At(k)].pid = allocated[k].pid
    BY <2>1
  <2>3. PICK l \in DOMAIN allocated : t[At(k)] = allocated[l]
    BY <2>0, <2>2
  <2>4. k = l
    BY <2>2, <2>3 DEF DistinctPids
  <2>. QED
    BY <1>3, <2>2, <2>3, <2>4
<1>. HIDE DEF At
<1>. QED
  BY <1>1, <1>4

\* After compaction the blocks share no cell, and the memory they use begins
\* at 0 and has their total size.
LEMMA CompactionKeeps ==
  ASSUME allocated \in Seq(AllocBlock), DistinctPids(allocated), AllApart(allocated),
         mem_size \in Nat, \A k \in DOMAIN allocated : Inside(allocated[k], mem_size),
         NEW t \in Sorted(MA_FF, allocated)
  PROVE  /\ TotalSize(t) \in Nat /\ TotalSize(t) <= mem_size
         /\ Moved(t) \in Seq(AllocBlock) /\ Len(Moved(t)) = Len(allocated)
         /\ DOMAIN Moved(t) = DOMAIN allocated
         /\ \A k \in DOMAIN allocated :
              /\ Moved(t)[k].pid = allocated[k].pid /\ Moved(t)[k].size = allocated[k].size
              /\ Moved(t)[k].start + Moved(t)[k].size <= TotalSize(t)
         /\ AllApart(Moved(t))
<1>. DEFINE n == Len(t)
            S == SumTo(t)
            M == Moved(t)
<1>1. t \in Seq(AllocBlock) /\ n = Len(allocated) /\ Permuted(allocated, t) /\ Ordered(MA_FF, t)
  BY SortedIs
<1>2. /\ n \in Nat /\ DOMAIN t = 1..n /\ DOMAIN allocated = 1..n
      /\ \A i \in 1..n : t[i].size \in Nat
      /\ \A k \in 1..n : allocated[k] \in AllocBlock
  <2>1. /\ n \in Nat /\ DOMAIN t = 1..n /\ DOMAIN allocated = 1..n
        /\ \A i \in 1..n : t[i] \in AllocBlock
        /\ \A k \in 1..n : allocated[k] \in AllocBlock
    BY <1>1
  <2>. QED
    BY <2>1 DEF AllocBlock
<1>3. /\ S \in [0..n -> Nat] /\ \A i \in 1..n : S[i] = S[i-1] + t[i].size
      /\ \A i, j \in 0..n : i <= j => S[i] <= S[j]
  BY <1>2, SumToDef, SumToGrows
<1>4. AllApart(t) /\ \A k \in DOMAIN t : Inside(t[k], mem_size)
  <2>1. AllApart(t) /\ \A i \in DOMAIN t : \E k \in DOMAIN allocated : t[i] = allocated[k]
    <3>1. Permuted(allocated, t)
      BY <1>1
    <3>. QED
      BY <3>1, PermutedKeeps
  <2>. QED
    BY <2>1
<1>5. TotalSize(t) \in Nat /\ TotalSize(t) <= mem_size
  BY <1>1, <1>4, SumToFits
<1>6. TotalSize(t) = S[n]
  BY DEF TotalSize
<1>7. /\ DOMAIN M = DOMAIN allocated
      /\ \A k \in DOMAIN allocated : \E i \in 1..n :
           t[i] = allocated[k] /\ M[k] = [allocated[k] EXCEPT !.start = S[i-1]]
  BY <1>1, MovedIs
<1>m. M = [k \in DOMAIN allocated |-> M[k]]
  BY DEF Moved
<1>. HIDE DEF S, M, n
<1>8. ASSUME NEW k \in 1..n
      PROVE  \E i \in 1..n : /\ t[i] = allocated[k]
                             /\ M[k] \in AllocBlock /\ M[k].start = S[i-1]
                             /\ M[k].pid = allocated[k].pid /\ M[k].size = allocated[k].size
                             /\ M[k].start + M[k].size = S[i] /\ S[i] <= S[n]
  <2>1. PICK i \in 1..n : t[i] = allocated[k] /\ M[k] = [allocated[k] EXCEPT !.start = S[i-1]]
    BY <1>2, <1>7
  <2>2. allocated[k] \in AllocBlock /\ S[i-1] \in Nat /\ S[i] = S[i-1] + t[i].size /\ S[i] <= S[n]
    BY <1>2, <1>3
  <2>. QED
    BY <2>1, <2>2 DEF AllocBlock
<1>9. M \in [1..n -> AllocBlock]
  BY <1>2, <1>7, <1>8, <1>m
<1>10. M \in Seq(AllocBlock) /\ Len(M) = n
  BY <1>2, <1>9
<1>11. ASSUME NEW k \in 1..n, NEW l \in 1..n, k # l PROVE Apart(M[k], M[l])
  <2>1. PICK i \in 1..n : t[i] = allocated[k] /\ M[k].start = S[i-1] /\ M[k].start + M[k].size = S[i]
    BY <1>8
  <2>2. PICK j \in 1..n : t[j] = allocated[l] /\ M[l].start = S[j-1] /\ M[l].start + M[l].size = S[j]
    BY <1>8
  <2>3. i # j
    BY <1>2, <1>11, <2>1, <2>2 DEF DistinctPids
  <2>4. S[i] <= S[j-1] \/ S[j] <= S[i-1]
    <3>1. CASE i < j
      BY <1>2, <1>3, <3>1
    <3>2. CASE j < i
      BY <1>2, <1>3, <3>2
    <3>. QED
      BY <1>2, <2>3, <3>1, <3>2
  <2>. QED
    BY <2>1, <2>2, <2>4 DEF Apart
<1>12. AllApart(M)
  BY <1>2, <1>7, <1>11 DEF AllApart
<1>13. \A k \in 1..n : /\ M[k].pid = allocated[k].pid /\ M[k].size = allocated[k].size
                       /\ M[k].start + M[k].size <= TotalSize(t)
  BY <1>6, <1>8
<1>. QED
  BY <1>1, <1>2, <1>5, <1>7, <1>10, <1>12, <1>13 DEF M, n

---------------------------------------------------------------------------
(* Lists: the operations of the free list.                                 *)

\* The blocks that hold memory are in the order of the algorithm.
SortedFor(alg, s) ==
  \A i, j \in DOMAIN s :
    s[i].size > 0 /\ s[j].size > 0 /\ i < j => AtLeastAsGood(alg, s[i], s[j])

Algorithms == {MA_FF, MA_BF, MA_WF}

\* What a comparator of qsort orders is in the order of its algorithm.
LEMMA OrderedIsSorted ==
  ASSUME NEW alg \in Algorithms, NEW t, Ordered(alg, t)
  PROVE  SortedFor(alg, t)
<1>1. ASSUME NEW a, NEW b, Precedes(alg, a, b) PROVE AtLeastAsGood(alg, a, b)
  <2>0. MA_FF # MA_BF /\ MA_FF # MA_WF /\ MA_BF # MA_WF
    BY DEF MA_FF, MA_BF, MA_WF
  <2>1. CASE alg = MA_FF
    BY <1>1, <2>0, <2>1, PrecedesIs, Zenon DEF AtLeastAsGood
  <2>2. CASE alg = MA_BF
    BY <1>1, <2>0, <2>2, PrecedesIs, Zenon DEF AtLeastAsGood
  <2>3. CASE alg = MA_WF
    BY <1>1, <2>0, <2>3, PrecedesIs, Zenon DEF AtLeastAsGood
  <2>. QED
    BY <2>1, <2>2, <2>3 DEF Algorithms
<1>. QED
  BY <1>1, Zenon DEF Ordered, SortedFor

\* A list is a permutation of itself.
LEMMA PermutedSelf == \A s : Permuted(s, s)
<1>. TAKE s
<1>1. Shuffle([i \in DOMAIN s |-> i], s, s)
  BY DEF Shuffle
<1>. QED
  BY <1>1 DEF Permuted

\* First fit does not sort, and need not.
LEMMA RearrangeUnlessFFIs ==
  ASSUME NEW G \in FreeLists, NEW alg \in Algorithms, alg = MA_FF => SortedFor(alg, G.list),
         NEW H \in rearrange_unless_FF(alg, G)
  PROVE  H \in FreeLists /\ Permuted(G.list, H.list) /\ SortedFor(alg, H.list)
<1>1. CASE alg = MA_FF
  <2>1. H = G
    BY <1>1 DEF rearrange_unless_FF
  <2>. QED
    BY <1>1, <2>1, PermutedSelf
<1>2. CASE alg # MA_FF
  <2>1. H \in rearrange_by(alg, G)
    BY <1>2 DEF rearrange_unless_FF
  <2>. QED
    BY <2>1, RearrangeIs, OrderedIsSorted
<1>. QED
  BY <1>1, <1>2

\* Fit is the first block that is large enough, or 0.
LEMMA FitIs ==
  ASSUME NEW G \in FreeLists, NEW n
  PROVE  \/ Fit(G, n) = 0 /\ \A i \in DOMAIN G.list : ~(G.list[i].size >= n)
         \/ /\ Fit(G, n) \in DOMAIN G.list /\ Fit(G, n) # 0 /\ G.list[Fit(G, n)].size >= n
            /\ \A i \in DOMAIN G.list : G.list[i].size >= n => Fit(G, n) <= i
<1>. DEFINE I == {i \in 1..Len(G.list) : G.list[i].size >= n}
<1>1. Len(G.list) \in Nat /\ DOMAIN G.list = 1..Len(G.list)
  BY DEF FreeLists
<1>2. Fit(G, n) = IF I # {} THEN CHOOSE x \in I : \A y \in I : x <= y ELSE 0
  BY DEF Fit, SelectInSeq, Min
<1>3. CASE I = {}
  BY <1>1, <1>2, <1>3
<1>4. CASE I # {}
  <2>1. I \in SUBSET Nat
    BY <1>1
  <2>. HIDE DEF I
  <2>2. \E x \in I : \A y \in I : x <= y
    BY <1>4, <2>1, LeastElement
  <2>3. Fit(G, n) \in I /\ \A y \in I : Fit(G, n) <= y
    BY <1>2, <1>4, <2>2
  <2>. QED
    BY <1>1, <2>3 DEF I
<1>. QED
  BY <1>3, <1>4

\* Where block a of the list without block i was.
Was(i, a) == IF a < i THEN a ELSE a + 1

\* The list without block i keeps the others, in their order.
LEMMA RemoveAtIs ==
  ASSUME NEW X, NEW s \in Seq(X), NEW i \in DOMAIN s
  PROVE  LET r == RemoveAt(s, i)
         IN  /\ r \in Seq(X) /\ Len(r) = Len(s) - 1
             /\ \A a \in DOMAIN r : r[a] = s[Was(i, a)] /\ Was(i, a) \in DOMAIN s /\ Was(i, a) # i
             /\ \A a, b \in DOMAIN r : a < b => Was(i, a) < Was(i, b)
             /\ \A a, b \in DOMAIN r : a # b => Was(i, a) # Was(i, b)
             /\ \A k \in DOMAIN s : k # i => \E a \in DOMAIN r : Was(i, a) = k
<1>. DEFINE n == Len(s)
            p == SubSeq(s, 1, i-1)
            q == SubSeq(s, i+1, n)
            r == RemoveAt(s, i)
<1>1. n \in Nat /\ DOMAIN s = 1..n /\ i \in 1..n
  OBVIOUS
<1>2. p \in Seq(X) /\ Len(p) = i - 1 /\ \A a \in 1..(i-1) : p[a] = s[a]
  BY <1>1
<1>3. q \in Seq(X) /\ Len(q) = n - i /\ \A a \in 1..(n-i) : q[a] = s[a+i]
  BY <1>1
<1>4. r = p \o q
  BY DEF RemoveAt
<1>. HIDE DEF p, q, r, n
<1>5. r \in Seq(X) /\ Len(r) = n - 1 /\ DOMAIN r = 1..(n-1)
  <2>1. r \in Seq(X)
    BY <1>2, <1>3, <1>4
  <2>2. Len(r) = Len(p) + Len(q)
    <3>1. p \in Seq(X) /\ q \in Seq(X)
      BY <1>2, <1>3
    <3>. QED
      BY <1>4, <3>1
  <2>. QED
    BY <1>1, <1>2, <1>3, <2>1, <2>2
<1>6. ASSUME NEW a \in 1..(n-1) PROVE r[a] = s[Was(i, a)]
  <2>1. CASE a < i
    BY <1>1, <1>2, <1>3, <1>4, <2>1 DEF Was
  <2>2. CASE ~(a < i)
    <3>1. a - (i - 1) \in 1..(n-i) /\ a - (i - 1) + i = a + 1
      BY <1>1, <2>2
    <3>2. r[a] = q[a - (i-1)]
      BY <1>1, <1>2, <1>3, <1>4, <2>2
    <3>. QED
      BY <1>3, <2>2, <3>1, <3>2 DEF Was
  <2>. QED
    BY <2>1, <2>2
<1>7. /\ \A a \in 1..(n-1) : Was(i, a) \in 1..n /\ Was(i, a) # i
      /\ \A a, b \in 1..(n-1) : a < b => Was(i, a) < Was(i, b)
      /\ \A a, b \in 1..(n-1) : a # b => Was(i, a) # Was(i, b)
  BY <1>1 DEF Was
<1>8. ASSUME NEW k \in 1..n, k # i PROVE \E a \in 1..(n-1) : Was(i, a) = k
  <2>1. CASE k < i
    <3>1. k \in 1..(n-1) /\ Was(i, k) = k
      BY <1>1, <2>1 DEF Was
    <3>. QED
      BY <3>1
  <2>2. CASE k > i
    <3>1. k - 1 \in 1..(n-1) /\ Was(i, k - 1) = k
      BY <1>1, <2>2 DEF Was
    <3>. QED
      BY <3>1
  <2>. QED
    BY <1>1, <1>8, <2>1, <2>2
<1>. QED
  BY <1>1, <1>5, <1>6, <1>7, <1>8 DEF r, n

\* The cells of c are cells of b.
Part(c, b) == c.size = 0 \/ (b.start <= c.start /\ c.start + c.size <= b.start + b.size)

\* A start and a size that are naturals.
IsBlock(b) == b.start \in Nat /\ b.size \in Nat

\* A part of a block is apart from what the block is apart from.
LEMMA PartKeeps ==
  ASSUME NEW b, NEW c, NEW d, IsBlock(b), IsBlock(c), IsBlock(d), Part(c, b)
  PROVE  /\ Apart(b, d) \/ Apart(d, b) => Apart(c, d) /\ Apart(d, c)
         /\ \A m \in Nat : Inside(b, m) => Inside(c, m)
  BY DEF IsBlock, Part, Apart, Inside

\* The remainder of a block is a part of it.
LEMMA RemainderIs ==
  ASSUME NEW b \in Block, NEW n \in Nat, n <= b.size
  PROVE  /\ Remainder(b, n) \in Block
         /\ Remainder(b, n).start = b.start + n /\ Remainder(b, n).size = b.size - n
         /\ Part(Remainder(b, n), b)
<1>1. b.start \in Nat /\ b.size \in Nat
  BY BlockFields
<1>2. Remainder(b, n).start = b.start + n /\ Remainder(b, n).size = b.size - n
  BY DEF Remainder
<1>3. Remainder(b, n) \in Block
  BY <1>1 DEF Remainder, Block
<1>. QED
  BY <1>1, <1>2, <1>3 DEF Part

\* Block i of the list becomes the remainder of it.
LEMMA CutKeeps ==
  ASSUME NEW s \in Seq(Block), AllApart(s), NEW i \in DOMAIN s, NEW n \in Nat, n < s[i].size
  PROVE  LET e == [s EXCEPT ![i] = Remainder(s[i], n)]
         IN  /\ e \in Seq(Block) /\ Len(e) = Len(s) /\ DOMAIN e = DOMAIN s
             /\ e[i] = Remainder(s[i], n) /\ \A k \in DOMAIN s : k # i => e[k] = s[k]
             /\ \A k \in DOMAIN s : Part(e[k], s[k])
             /\ AllApart(e)
             /\ SortedFor(MA_FF, s) => SortedFor(MA_FF, e)
             /\ Positive(s) => Positive(e)
             /\ Positive(s) /\ Unmergeable(s) => Unmergeable(e)
<1>. DEFINE R == Remainder(s[i], n)
            e == [s EXCEPT ![i] = R]
<1>1. /\ Len(s) \in Nat /\ DOMAIN s = 1..Len(s)
      /\ \A k \in 1..Len(s) : s[k] \in Block /\ s[k].start \in Nat /\ s[k].size \in Nat
  BY BlocksOf
<1>2. R \in Block /\ R.start = s[i].start + n /\ R.size = s[i].size - n /\ Part(R, s[i])
  BY <1>1, RemainderIs
<1>. HIDE DEF R
<1>3. /\ e \in Seq(Block) /\ Len(e) = Len(s) /\ DOMAIN e = DOMAIN s
      /\ e[i] = R /\ \A k \in DOMAIN s : k # i => e[k] = s[k]
  BY <1>1, <1>2
<1>. HIDE DEF e
<1>4. \A k \in DOMAIN s : IsBlock(s[k]) /\ IsBlock(e[k]) /\ Part(e[k], s[k])
  <2>1. \A k \in DOMAIN s : IsBlock(s[k]) /\ Part(s[k], s[k])
    BY <1>1 DEF IsBlock, Part
  <2>2. IsBlock(R)
    BY <1>2, BlockFields DEF IsBlock
  <2>. QED
    BY <1>2, <1>3, <2>1, <2>2
<1>5. AllApart(e)
  <2>1. ASSUME NEW j \in DOMAIN s, NEW k \in DOMAIN s, j # k PROVE Apart(e[j], e[k])
    <3>1. Apart(s[j], s[k])
      BY <2>1 DEF AllApart
    <3>2. Apart(e[j], s[k])
      BY <1>4, <3>1, PartKeeps
    <3>. QED
      BY <1>4, <3>2, PartKeeps
  <2>. QED
    BY <1>3, <2>1 DEF AllApart
<1>6. ASSUME SortedFor(MA_FF, s) PROVE SortedFor(MA_FF, e)
  <2>1. ASSUME NEW j \in DOMAIN s, NEW k \in DOMAIN s, e[j].size > 0, e[k].size > 0, j < k
        PROVE  e[j].start <= e[k].start
    <3>0. j \in 1..Len(s) /\ k \in 1..Len(s) /\ i \in 1..Len(s)
      BY <1>1
    <3>1. s[j].size > 0 /\ s[k].size > 0
      BY <1>1, <1>2, <1>3, <2>1, <3>0
    <3>2. s[j].start <= s[k].start
      BY <1>6, <2>1, <3>1 DEF SortedFor, AtLeastAsGood
    <3>3. Apart(s[j], s[k])
      BY <1>1, <2>1 DEF AllApart
    <3>4. s[j].start + s[j].size <= s[k].start
      BY <1>1, <3>0, <3>1, <3>2, <3>3 DEF Apart
    <3>5. e[j].start \in Nat /\ e[j].start <= s[j].start + s[j].size
      <4>1. CASE j = i
        BY <1>1, <1>2, <1>3, <3>0, <4>1
      <4>2. CASE j # i
        BY <1>1, <1>3, <3>0, <4>2
      <4>. QED
        BY <4>1, <4>2
    <3>6. e[k].start \in Nat /\ s[k].start <= e[k].start
      <4>1. CASE k = i
        BY <1>1, <1>2, <1>3, <3>0, <4>1
      <4>2. CASE k # i
        BY <1>1, <1>3, <3>0, <4>2
      <4>. QED
        BY <4>1, <4>2
    <3>. QED
      BY <1>1, <3>0, <3>4, <3>5, <3>6
  <2>2. MA_FF # MA_BF /\ MA_FF # MA_WF
    BY DEF MA_FF, MA_BF, MA_WF
  <2>. QED
    BY <1>3, <2>1, <2>2, Zenon DEF SortedFor, AtLeastAsGood
<1>7. Positive(s) => Positive(e)
  BY <1>1, <1>2, <1>3 DEF Positive
<1>8. ASSUME Positive(s), Unmergeable(s) PROVE Unmergeable(e)
  <2>1. ASSUME NEW j \in DOMAIN s, NEW k \in DOMAIN s PROVE e[j].start + e[j].size # e[k].start
    <3>0. /\ IsBlock(s[j]) /\ IsBlock(s[k]) /\ IsBlock(s[i]) /\ s[j].size > 0
          /\ s[j].start + s[j].size # s[k].start
      BY <1>4, <1>8 DEF Positive, Unmergeable
    <3>1. e[j].start + e[j].size = s[j].start + s[j].size
      <4>1. CASE j = i
        BY <1>2, <1>3, <3>0, <4>1 DEF IsBlock
      <4>2. CASE j # i
        BY <1>3, <4>2
      <4>. QED
        BY <4>1, <4>2
    <3>2. CASE k # i
      BY <1>3, <3>0, <3>1, <3>2
    <3>3. CASE k = i /\ j # i
      <4>1. Apart(s[j], s[i])
        BY <3>3 DEF AllApart
      <4>. QED
        BY <1>2, <1>3, <3>0, <3>1, <3>3, <4>1 DEF Apart, IsBlock
    <3>4. CASE k = i /\ j = i
      BY <1>2, <1>3, <3>0, <3>1, <3>4 DEF IsBlock
    <3>. QED
      BY <3>2, <3>3, <3>4
  <2>. QED
    BY <1>3, <2>1 DEF Unmergeable
<1>. QED
  BY <1>3, <1>4, <1>5, <1>6, <1>7, <1>8 DEF e, R

\* Without block i the list keeps what it had.
LEMMA RemoveKeeps ==
  ASSUME NEW X, NEW s \in Seq(X), NEW i \in DOMAIN s
  PROVE  LET r == RemoveAt(s, i)
         IN  /\ r \in Seq(X) /\ Len(r) = Len(s) - 1
             /\ \A a \in DOMAIN r : \E k \in DOMAIN s : k # i /\ r[a] = s[k]
             /\ AllApart(s) => AllApart(r)
             /\ \A alg : SortedFor(alg, s) => SortedFor(alg, r)
             /\ Positive(s) => Positive(r)
             /\ Unmergeable(s) => Unmergeable(r)
<1>. DEFINE r == RemoveAt(s, i)
<1>1. /\ r \in Seq(X) /\ Len(r) = Len(s) - 1
      /\ \A a \in DOMAIN r : r[a] = s[Was(i, a)] /\ Was(i, a) \in DOMAIN s /\ Was(i, a) # i
      /\ \A a, b \in DOMAIN r : a < b => Was(i, a) < Was(i, b)
      /\ \A a, b \in DOMAIN r : a # b => Was(i, a) # Was(i, b)
  BY RemoveAtIs
<1>. HIDE DEF r
<1>2. AllApart(s) => AllApart(r)
  BY <1>1, Zenon DEF AllApart
<1>3. ASSUME NEW alg, SortedFor(alg, s) PROVE SortedFor(alg, r)
  BY <1>1, <1>3, Zenon DEF SortedFor
<1>4. Positive(s) => Positive(r)
  BY <1>1, Zenon DEF Positive
<1>5. Unmergeable(s) => Unmergeable(r)
  BY <1>1, Zenon DEF Unmergeable
<1>. QED
  BY <1>1, <1>2, <1>3, <1>4, <1>5 DEF r

\* What is left of the free list after n cells were taken from block i.
LEMMA TakeFromIs ==
  ASSUME NEW G \in FreeLists, AllApart(G.list), NEW i \in DOMAIN G.list,
         NEW n \in Nat, n <= G.list[i].size,
         ma_algorithm \in Algorithms, SortedFor(ma_algorithm, G.list),
         NEW H \in TakeFrom(G, i, n)
  PROVE  /\ H \in FreeLists /\ AllApart(H.list) /\ SortedFor(ma_algorithm, H.list)
         /\ \A a \in DOMAIN H.list : \E k \in DOMAIN G.list :
              /\ Part(H.list[a], G.list[k])
              /\ k = i => H.list[a] = Remainder(G.list[i], n)
         /\ Positive(G.list) => Positive(H.list)
         /\ Positive(G.list) /\ Unmergeable(G.list) => Unmergeable(H.list)
<1>. DEFINE s == G.list
<1>1. s \in Seq(Block) /\ G = [list |-> s, len |-> Len(s)] /\ Len(s) \in Nat /\ DOMAIN s = 1..Len(s)
  BY DEF FreeLists
<1>2. \A k \in DOMAIN s : s[k] \in Block /\ s[k].start \in Nat /\ s[k].size \in Nat /\ Part(s[k], s[k])
  BY <1>1, BlocksOf DEF Part
<1>3. CASE s[i].size - n <= MIN_SLICE
  <2>. DEFINE r == RemoveAt(s, i)
  <2>1. H = [list |-> r, len |-> Len(s) - 1]
    BY <1>1, <1>3 DEF TakeFrom, delete_free_block
  <2>. HIDE DEF s
  <2>2. /\ r \in Seq(Block) /\ Len(r) = Len(s) - 1
        /\ \A a \in DOMAIN r : \E k \in DOMAIN s : k # i /\ r[a] = s[k]
        /\ AllApart(s) => AllApart(r)
        /\ \A alg : SortedFor(alg, s) => SortedFor(alg, r)
        /\ Positive(s) => Positive(r)
        /\ Unmergeable(s) => Unmergeable(r)
    BY <1>1, RemoveKeeps DEF s
  <2>. HIDE DEF r
  <2>3. H \in FreeLists /\ H.list = r
    BY <1>1, <2>1, <2>2 DEF FreeLists
  <2>4. AllApart(r) /\ SortedFor(ma_algorithm, r)
    BY <2>2 DEF s
  <2>5. \A a \in DOMAIN r : \E k \in DOMAIN s : Part(r[a], s[k]) /\ (k = i => r[a] = Remainder(s[i], n))
    BY <1>2, <2>2
  <2>. QED
    BY <2>2, <2>3, <2>4, <2>5, Zenon DEF s
<1>4. CASE ~(s[i].size - n <= MIN_SLICE)
  <2>. DEFINE e == [s EXCEPT ![i] = Remainder(s[i], n)]
              K == [list |-> e, len |-> Len(s)]
  <2>1. n < s[i].size
    BY <1>2, <1>4, SizeAssumption
  <2>2. H \in rearrange_unless_FF(ma_algorithm, K)
    BY <1>1, <1>4 DEF TakeFrom
  <2>. HIDE DEF s
  <2>3. /\ e \in Seq(Block) /\ Len(e) = Len(s) /\ DOMAIN e = DOMAIN s
        /\ e[i] = Remainder(s[i], n) /\ \A k \in DOMAIN s : k # i => e[k] = s[k]
        /\ \A k \in DOMAIN s : Part(e[k], s[k])
        /\ AllApart(e)
        /\ SortedFor(MA_FF, s) => SortedFor(MA_FF, e)
        /\ Positive(s) => Positive(e)
        /\ Positive(s) /\ Unmergeable(s) => Unmergeable(e)
    BY <1>1, <2>1, CutKeeps DEF s
  <2>. HIDE DEF e
  <2>4. K \in FreeLists /\ K.list = e
    BY <1>1, <2>3 DEF FreeLists
  <2>. HIDE DEF K
  <2>5. ma_algorithm = MA_FF => SortedFor(ma_algorithm, K.list)
    BY <2>3, <2>4 DEF s
  <2>6. H \in FreeLists /\ Permuted(e, H.list) /\ SortedFor(ma_algorithm, H.list)
    BY <2>2, <2>4, <2>5, RearrangeUnlessFFIs
  <2>7. /\ \A a \in DOMAIN H.list : \E k \in DOMAIN e : H.list[a] = e[k]
        /\ AllApart(e) => AllApart(H.list)
        /\ Unmergeable(e) => Unmergeable(H.list)
        /\ Positive(e) => Positive(H.list)
    <3>1. Permuted(e, H.list)
      BY <2>6
    <3>. QED
      BY <3>1, PermutedKeeps
  <2>8. \A a \in DOMAIN H.list : \E k \in DOMAIN s :
          Part(H.list[a], s[k]) /\ (k = i => H.list[a] = Remainder(s[i], n))
    BY <2>3, <2>7, Zenon
  <2>. QED
    BY <2>3, <2>6, <2>7, <2>8, Zenon DEF s
<1>. QED
  BY <1>3, <1>4

\* The place of a block: all that free_mem hands over.
Place(b) == [start |-> b.start, size |-> b.size]

\* The place of a block has its cells.
LEMMA PlaceIs ==
  ASSUME NEW b, IsBlock(b)
  PROVE  /\ Place(b) \in Block /\ Cells(Place(b)) = Cells(b) /\ Place(b).size = b.size
         /\ \A c : Apart(c, Place(b)) <=> Apart(c, b)
         /\ \A c : Apart(Place(b), c) <=> Apart(b, c)
         /\ \A m : Inside(Place(b), m) <=> Inside(b, m)
  BY DEF Place, Block, IsBlock, Cells, Apart, Inside

\* insert_free_block puts the block before the others.
LEMMA InsertIs ==
  ASSUME NEW X, NEW s \in Seq(X), NEW b \in X
  PROVE  LET r == <<b>> \o s
         IN  /\ r \in Seq(X) /\ Len(r) = Len(s) + 1 /\ DOMAIN r = 1..(Len(s) + 1)
             /\ r[1] = b /\ \A i \in DOMAIN s : r[i+1] = s[i]
             /\ \A a \in DOMAIN r : r[a] = b \/ \E i \in DOMAIN s : r[a] = s[i]
             /\ CellsOf(r) = CellsOf(s) \cup Cells(b)
             /\ Positive(s) /\ b.size > 0 => Positive(r)
             /\ AllApart(s) /\ (\A i \in DOMAIN s : Apart(s[i], b)) => AllApart(r)
<1>. DEFINE r == <<b>> \o s
            n == Len(s)
<1>1. n \in Nat /\ DOMAIN s = 1..n
  OBVIOUS
<1>2. /\ r \in Seq(X) /\ Len(r) = n + 1 /\ DOMAIN r = 1..(n + 1)
      /\ r[1] = b /\ \A a \in 2..(n+1) : r[a] = s[a-1]
  BY <1>1
<1>. HIDE DEF r, n
<1>3. \A a \in 1..(n+1) : a = 1 \/ (a \in 2..(n+1) /\ a - 1 \in 1..n)
  BY <1>1
<1>4. \A i \in 1..n : i + 1 \in 2..(n+1) /\ i + 1 \in 1..(n+1) /\ r[i+1] = s[i]
  BY <1>1, <1>2
<1>5. \A a \in 1..(n+1) : (a = 1 /\ r[a] = b) \/ (a - 1 \in 1..n /\ r[a] = s[a-1])
  BY <1>2, <1>3
<1>6. ASSUME NEW x PROVE x \in CellsOf(r) <=> x \in CellsOf(s) \/ x \in Cells(b)
  <2>1. x \in CellsOf(r) <=> \E a \in 1..(n+1) : x \in Cells(r[a])
    BY <1>2, InCellsOf
  <2>2. x \in CellsOf(s) <=> \E i \in 1..n : x \in Cells(s[i])
    BY <1>1, InCellsOf
  <2>3. 1 \in 1..(n+1)
    BY <1>1
  <2>. QED
    BY <1>2, <1>4, <1>5, <2>1, <2>2, <2>3
<1>7. CellsOf(r) = CellsOf(s) \cup Cells(b)
  BY <1>6
<1>8. Positive(s) /\ b.size > 0 => Positive(r)
  BY <1>1, <1>2, <1>5 DEF Positive
<1>9. ASSUME AllApart(s), \A i \in DOMAIN s : Apart(s[i], b) PROVE AllApart(r)
  <2>1. ASSUME NEW a \in 1..(n+1), NEW e \in 1..(n+1), a # e PROVE Apart(r[a], r[e])
    <3>1. \A i \in 1..n : Apart(s[i], b) /\ Apart(b, s[i])
      BY <1>1, <1>9 DEF Apart
    <3>2. CASE a = 1
      BY <1>2, <1>5, <2>1, <3>1, <3>2
    <3>3. CASE e = 1
      BY <1>2, <1>5, <2>1, <3>1, <3>3
    <3>4. CASE a # 1 /\ e # 1
      <4>1. a - 1 \in 1..n /\ e - 1 \in 1..n /\ r[a] = s[a-1] /\ r[e] = s[e-1] /\ a - 1 # e - 1
        BY <1>5, <2>1, <3>4
      <4>. QED
        BY <1>1, <1>9, <4>1 DEF AllApart
    <3>. QED
      BY <3>2, <3>3, <3>4
  <2>. QED
    BY <1>2, <2>1 DEF AllApart
<1>. QED
  BY <1>1, <1>2, <1>4, <1>5, <1>7, <1>8, <1>9 DEF r, n

\* free_mem of block b: the free list has its cells in addition, in the order
\* of the algorithm, and no two neighbours are left apart.
LEMMA FreeMemIs ==
  ASSUME F \in FreeLists, AllApart(free_block), ma_algorithm \in Algorithms,
         NEW b, IsBlock(b), \A i \in DOMAIN free_block : Apart(free_block[i], b),
         NEW H \in free_mem(b)
  PROVE  /\ H \in FreeLists /\ AllApart(H.list) /\ SortedFor(ma_algorithm, H.list)
         /\ CellsOf(H.list) = CellsOf(free_block) \cup Cells(b)
         /\ \A c \in Block :
              Apart(b, c) /\ (\A i \in DOMAIN free_block : Apart(free_block[i], c))
                => \A a \in DOMAIN H.list : Apart(H.list[a], c)
         /\ \A m \in Nat :
              Inside(b, m) /\ (\A i \in DOMAIN free_block : Inside(free_block[i], m))
                => \A a \in DOMAIN H.list : Inside(H.list[a], m)
         /\ Positive(free_block) /\ b.size > 0 => Positive(H.list) /\ Unmergeable(H.list)
<1>. DEFINE p == Place(b)
            r == <<p>> \o free_block
            I == [list |-> r, len |-> Len(free_block) + 1]
<1>1. free_block \in Seq(Block) /\ free_block_len = Len(free_block) /\ Len(free_block) \in Nat
  BY DEF F, FreeLists
<1>2. p \in Block /\ \A i \in DOMAIN free_block : Apart(free_block[i], p)
  BY PlaceIs
<1>p. /\ Cells(p) = Cells(b) /\ p.size = b.size
      /\ \A c : Apart(p, c) <=> Apart(b, c)
      /\ \A m : Inside(p, m) <=> Inside(b, m)
  BY PlaceIs
<1>3. I = insert_free_block(F, p)
  BY <1>1 DEF insert_free_block, F
<1>4. PICK G \in rearrange_by(MA_FF, I) : H \in rearrange_unless_FF(ma_algorithm, MergeAll(G))
  BY <1>3 DEF free_mem, Place
<1>. HIDE DEF p
<1>5. /\ r \in Seq(Block) /\ Len(r) = Len(free_block) + 1
      /\ \A a \in DOMAIN r : r[a] = p \/ \E i \in DOMAIN free_block : r[a] = free_block[i]
      /\ CellsOf(r) = CellsOf(free_block) \cup Cells(p)
      /\ Positive(free_block) /\ p.size > 0 => Positive(r)
      /\ AllApart(r)
  <2>1. free_block \in Seq(Block) /\ p \in Block
    BY <1>1, <1>2
  <2>2. AllApart(free_block) /\ (\A i \in DOMAIN free_block : Apart(free_block[i], p)) => AllApart(r)
    BY <2>1, InsertIs
  <2>3. /\ r \in Seq(Block) /\ Len(r) = Len(free_block) + 1
        /\ \A a \in DOMAIN r : r[a] = p \/ \E i \in DOMAIN free_block : r[a] = free_block[i]
        /\ CellsOf(r) = CellsOf(free_block) \cup Cells(p)
        /\ Positive(free_block) /\ p.size > 0 => Positive(r)
    BY <2>1, InsertIs
  <2>. QED
    BY <1>2, <2>2, <2>3
<1>. HIDE DEF r
<1>6. I \in FreeLists /\ I.list = r
  BY <1>1, <1>5 DEF FreeLists
<1>. HIDE DEF I
<1>7. G \in FreeLists /\ Permuted(r, G.list) /\ Ordered(MA_FF, G.list)
  BY <1>4, <1>6, RearrangeIs
<1>8. /\ \A a \in DOMAIN G.list : \E k \in DOMAIN r : G.list[a] = r[k]
      /\ AllApart(r) => AllApart(G.list)
      /\ Positive(r) => Positive(G.list)
      /\ CellsOf(r) = CellsOf(G.list)
  <2>1. Permuted(r, G.list)
    BY <1>7
  <2>. QED
    BY <2>1, PermutedKeeps
<1>. DEFINE s == G.list
            n == Len(s)
            M == MergeAll(G)
            t == M.list
<1>9. M \in FreeLists /\ ScanOK(s, n, t)
  BY <1>5, <1>7, <1>8, MergeAllIs
<1>10. s \in Seq(Block) /\ DOMAIN s = 1..n /\ t \in Seq(Block)
  BY <1>7, <1>9 DEF FreeLists
<1>. HIDE DEF s, n, M, t
<1>11. \A x : x \in CellsOf(t) <=> \E k \in DOMAIN s : x \in Cells(s[k])
  BY <1>9, <1>10, Zenon DEF ScanOK
<1>12. \A c \in Block : (\A k \in DOMAIN s : Apart(s[k], c)) => \A a \in DOMAIN t : Apart(t[a], c)
  BY <1>9, <1>10, Zenon DEF ScanOK
<1>13. \A m \in Nat : (\A k \in DOMAIN s : Inside(s[k], m)) => \A a \in DOMAIN t : Inside(t[a], m)
  BY <1>9, <1>10, Zenon DEF ScanOK
<1>14. /\ AllApart(t)
       /\ \A a, e \in DOMAIN t : a < e => t[a].start <= t[e].start
       /\ \A a \in DOMAIN t : a + 1 \in DOMAIN t => t[a].start + t[a].size # t[a+1].start
       /\ Positive(s) => Positive(t)
  BY <1>9, Zenon DEF ScanOK
<1>15. SortedFor(MA_FF, t)
  <2>1. MA_FF # MA_BF /\ MA_FF # MA_WF
    BY DEF MA_FF, MA_BF, MA_WF
  <2>. QED
    BY <1>14, <2>1, Zenon DEF SortedFor, AtLeastAsGood
<1>16. Positive(s) => Unmergeable(t)
  BY <1>10, <1>14, NoneTouch
<1>17. CellsOf(t) = CellsOf(free_block) \cup Cells(b)
  <2>1. \A x : x \in CellsOf(t) <=> x \in CellsOf(s)
    BY <1>11, InCellsOf
  <2>2. CellsOf(t) = CellsOf(s)
    BY <2>1
  <2>. QED
    BY <1>5, <1>8, <1>p, <2>2, Zenon DEF s
<1>18. H \in FreeLists /\ Permuted(t, H.list) /\ SortedFor(ma_algorithm, H.list)
  BY <1>4, <1>9, <1>15, RearrangeUnlessFFIs DEF M, t
<1>19. /\ \A a \in DOMAIN H.list : \E k \in DOMAIN t : H.list[a] = t[k]
       /\ AllApart(t) => AllApart(H.list)
       /\ Unmergeable(t) => Unmergeable(H.list)
       /\ Positive(t) => Positive(H.list)
       /\ CellsOf(t) = CellsOf(H.list)
  <2>1. Permuted(t, H.list)
    BY <1>18
  <2>. QED
    BY <2>1, PermutedKeeps
<1>20. \A k \in DOMAIN s : s[k] = p \/ \E i \in DOMAIN free_block : s[k] = free_block[i]
  BY <1>5, <1>8, Zenon DEF s
<1>21. ASSUME NEW c \in Block, Apart(b, c), \A i \in DOMAIN free_block : Apart(free_block[i], c)
       PROVE  \A a \in DOMAIN H.list : Apart(H.list[a], c)
  <2>1. \A k \in DOMAIN s : Apart(s[k], c)
    BY <1>p, <1>20, <1>21, Zenon
  <2>. QED
    BY <1>12, <1>19, <2>1, Zenon
<1>22. ASSUME NEW m \in Nat, Inside(b, m), \A i \in DOMAIN free_block : Inside(free_block[i], m)
       PROVE  \A a \in DOMAIN H.list : Inside(H.list[a], m)
  <2>1. \A k \in DOMAIN s : Inside(s[k], m)
    BY <1>p, <1>20, <1>22, Zenon
  <2>. QED
    BY <1>13, <1>19, <2>1, Zenon
<1>23. Positive(free_block) /\ b.size > 0 => Positive(s)
  BY <1>5, <1>8, <1>p DEF s
<1>. QED
  BY <1>14, <1>16, <1>17, <1>18, <1>19, <1>21, <1>22, <1>23, Zenon

---------------------------------------------------------------------------
(* The steps.                                                              *)

AllocBlocks(A) == /\ Len(A) \in Nat /\ DOMAIN A = 1..Len(A)
                  /\ \A k \in DOMAIN A : IsBlock(A[k]) /\ A[k].pid \in 1..MaxPid

\* The elements of the allocated list are blocks with a pid.
LEMMA AllocBlocksIs ==
  ASSUME NEW A \in Seq(AllocBlock)
  PROVE  AllocBlocks(A)
<1>1. Len(A) \in Nat /\ DOMAIN A = 1..Len(A) /\ \A k \in DOMAIN A : A[k] \in AllocBlock
  OBVIOUS
<1>. QED
  BY <1>1 DEF AllocBlocks, AllocBlock, IsBlock

\* The elements of a free list are blocks.
LEMMA FreeBlocksIs ==
  ASSUME NEW G \in FreeLists
  PROVE  G.list \in Seq(Block) /\ \A i \in DOMAIN G.list : IsBlock(G.list[i])
<1>1. G.list \in Seq(Block)
  BY DEF FreeLists
<1>. QED
  BY <1>1, BlocksOf DEF IsBlock

\* ListSorted in the terms of the list lemmas.
LEMMA ListSortedIs ==
  ListSorted <=> SortedFor(ma_algorithm, free_block) /\ free_block_len = Len(free_block)
  BY Zenon DEF ListSorted, SortedFor

\* The invariant, as the operators of the list take it.
LEMMA IInvGives ==
  ASSUME IInv
  PROVE  /\ F \in FreeLists /\ F.list = free_block /\ F.len = free_block_len
         /\ free_block \in Seq(Block) /\ free_block_len \in Nat
         /\ ma_algorithm \in Algorithms /\ SortedFor(ma_algorithm, free_block)
         /\ allocated \in Seq(AllocBlock) /\ mem_size \in Nat /\ pid \in 0..MaxPid
         /\ AllApart(free_block) /\ AllApart(allocated) /\ DistinctPids(allocated)
         /\ \A i \in DOMAIN free_block, k \in DOMAIN allocated : Apart(free_block[i], allocated[k])
         /\ \A i \in DOMAIN free_block : Inside(free_block[i], mem_size)
         /\ \A k \in DOMAIN allocated : Inside(allocated[k], mem_size)
         /\ \A k \in DOMAIN allocated : allocated[k].pid <= pid
<1>1. /\ free_block \in Seq(Block) /\ free_block_len \in Nat
      /\ ma_algorithm \in Algorithms
      /\ allocated \in Seq(AllocBlock) /\ mem_size \in Nat /\ pid \in 0..MaxPid
  BY DEF IInv, TypeOK, Algorithms, AllocBlock
<1>2. SortedFor(ma_algorithm, free_block) /\ free_block_len = Len(free_block)
  BY ListSortedIs DEF IInv
<1>3. F \in FreeLists /\ F.list = free_block /\ F.len = free_block_len
  BY <1>1, <1>2 DEF F, FreeLists
<1>4. /\ AllApart(free_block) /\ AllApart(allocated) /\ DistinctPids(allocated)
      /\ \A i \in DOMAIN free_block, k \in DOMAIN allocated : Apart(free_block[i], allocated[k])
      /\ \A i \in DOMAIN free_block : Inside(free_block[i], mem_size)
      /\ \A k \in DOMAIN allocated : Inside(allocated[k], mem_size)
      /\ \A k \in DOMAIN allocated : allocated[k].pid <= pid
  BY Zenon DEF IInv, Layout, LayoutOf, Pids
<1>. QED
  BY <1>1, <1>2, <1>3, <1>4

\* Taking memory from the free list keeps it clear of the blocks in use.
LEMMA TakeLayout ==
  ASSUME NEW G \in FreeLists, NEW A, AllocBlocks(A), NEW m \in Nat, LayoutOf(G.list, A, m),
         NEW i \in DOMAIN G.list, NEW n \in Nat, n <= G.list[i].size,
         ma_algorithm \in Algorithms, SortedFor(ma_algorithm, G.list),
         NEW H \in TakeFrom(G, i, n)
  PROVE  LayoutOf(H.list, A, m)
<1>1. /\ AllApart(G.list) /\ AllApart(A)
      /\ \A j \in DOMAIN G.list, k \in DOMAIN A : Apart(G.list[j], A[k])
      /\ \A j \in DOMAIN G.list : Inside(G.list[j], m)
      /\ \A k \in DOMAIN A : Inside(A[k], m)
  BY Zenon DEF LayoutOf
<1>2. /\ H \in FreeLists /\ AllApart(H.list)
      /\ \A a \in DOMAIN H.list : \E k \in DOMAIN G.list : Part(H.list[a], G.list[k])
  BY <1>1, TakeFromIs
<1>3. /\ \A a \in DOMAIN H.list : IsBlock(H.list[a])
      /\ \A k \in DOMAIN G.list : IsBlock(G.list[k])
      /\ \A k \in DOMAIN A : IsBlock(A[k])
  BY <1>2, FreeBlocksIs DEF AllocBlocks
<1>4. ASSUME NEW a \in DOMAIN H.list
      PROVE  Inside(H.list[a], m) /\ \A k \in DOMAIN A : Apart(H.list[a], A[k])
  <2>1. PICK l \in DOMAIN G.list : Part(H.list[a], G.list[l])
    BY <1>2
  <2>2. IsBlock(H.list[a]) /\ IsBlock(G.list[l]) /\ Inside(G.list[l], m)
    BY <1>1, <1>3
  <2>3. Inside(H.list[a], m)
    BY <2>1, <2>2, PartKeeps
  <2>4. ASSUME NEW k \in DOMAIN A PROVE Apart(H.list[a], A[k])
    <3>1. Apart(G.list[l], A[k]) /\ IsBlock(A[k])
      BY <1>1, <1>3
    <3>. QED
      BY <2>1, <2>2, <3>1, PartKeeps
  <2>. QED
    BY <2>3, <2>4
<1>. QED
  BY <1>1, <1>2, <1>4, Zenon DEF LayoutOf

\* The parts of the invariant after a step.
LEMMA IInvNext ==
  ASSUME mem_size' \in Nat \ {0}, ma_algorithm' \in Algorithms, flag' \in {0, 1}, pid' \in 0..MaxPid,
         free_block' \in Seq(Block), free_block_len' \in Nat, allocated' \in Seq(AllocBlock),
         ret' \in {-1, 0, 1, 2}, zero_made' \in BOOLEAN, status' \in {"run", "exit", "overflow"},
         LayoutOf(free_block', allocated', mem_size'),
         DistinctPids(allocated'), \A k \in DOMAIN allocated' : allocated'[k].pid <= pid',
         SortedFor(ma_algorithm', free_block'), free_block_len' = Len(free_block'),
         ~zero_made' => MergedOf(free_block', allocated'),
         Fresh', RecursionNeedsLoss'
  PROVE  IInv'
<1>1. TypeOK'
  BY DEF TypeOK, Algorithms, AllocBlock
<1>2. Layout' /\ Pids' /\ Merged'
  BY Zenon DEF Layout, Pids, Merged
<1>3. ListSorted'
  BY Zenon DEF ListSorted, SortedFor
<1>. QED
  BY <1>1, <1>2, <1>3 DEF IInv

\* A step that leaves the lists, the size and the algorithm alone.
LEMMA UnmovedStep ==
  ASSUME IInv, UNCHANGED <<mem_size, ma_algorithm, free_block, free_block_len, allocated, zero_made>>,
         flag' \in {0, 1}, flag' = 0 => flag = 0, pid' \in pid..MaxPid,
         ret' \in {-1, 0, 1, 2}, status' \in {"run", "exit", "overflow"}, RecursionNeedsLoss'
  PROVE  IInv'
<1>1. /\ mem_size' \in Nat \ {0} /\ ma_algorithm' \in Algorithms /\ free_block' \in Seq(Block)
      /\ free_block_len' \in Nat /\ allocated' \in Seq(AllocBlock) /\ zero_made' \in BOOLEAN
  BY DEF IInv, TypeOK, Algorithms, AllocBlock
<1>2. pid' \in 0..MaxPid /\ \A k \in DOMAIN allocated' : allocated'[k].pid <= pid'
  <2>1. pid \in 0..MaxPid /\ allocated \in Seq(AllocBlock) /\ \A k \in DOMAIN allocated : allocated[k].pid <= pid
    BY IInvGives
  <2>2. AllocBlocks(allocated) /\ MaxPid \in Nat
    BY <2>1, AllocBlocksIs, SizeAssumption
  <2>3. \A k \in DOMAIN allocated : allocated[k].pid \in Nat
    BY <2>2 DEF AllocBlocks
  <2>. QED
    BY <2>1, <2>2, <2>3
<1>3. LayoutOf(free_block', allocated', mem_size') /\ DistinctPids(allocated')
  BY DEF IInv, Layout, Pids
<1>4. SortedFor(ma_algorithm', free_block') /\ free_block_len' = Len(free_block')
  BY ListSortedIs DEF IInv
<1>5. ~zero_made' => MergedOf(free_block', allocated')
  BY DEF IInv, Merged
<1>6. Fresh'
  BY DEF IInv, Fresh
<1>. QED
  BY <1>1, <1>2, <1>3, <1>4, <1>5, <1>6, IInvNext

\* What IInv, TypeOK and the assumptions give about the other variables.
LEMMA OtherTypes ==
  ASSUME IInv
  PROVE  /\ flag \in {0, 1} /\ ret \in {-1, 0, 1, 2} /\ zero_made \in BOOLEAN
         /\ status \in {"run", "exit", "overflow"} /\ mem_size \in Nat \ {0}
         /\ pid \in 0..MaxPid /\ MaxPid \in Nat
  BY SizeAssumption DEF IInv, TypeOK

\* A number entered, and the size it stands for.
LEMMA SizeOfIs == \A n \in Requests : SizeOf(n) \subseteq Nat
  BY SizeAssumption DEF SizeOf

\* The head of a block is clear of all that the block is clear of, and of the
\* rest of the block.
LEMMA HeadIs ==
  ASSUME NEW b \in Block, NEW n \in Nat, n <= b.size, NEW c, c.start = b.start, c.size = n
  PROVE  /\ IsBlock(c) /\ Part(c, b) /\ IsBlock(b)
         /\ Apart(Remainder(b, n), c)
<1>1. b.start \in Nat /\ b.size \in Nat
  BY BlockFields
<1>2. Remainder(b, n).start = b.start + n
  BY DEF Remainder
<1>. QED
  BY <1>1, <1>2 DEF IsBlock, Part, Apart

\* new_process, a block is large enough.
LEMMA AllocateStep ==
  ASSUME IInv, NEW n \in Requests, Allocate(n)
  PROVE  IInv'
<1>1. PICK size \in SizeOf(n) :
        /\ Fit(F, size) # 0
        /\ \E G \in TakeFrom(F, Fit(F, size), size) : SetFree(G)
        /\ allocated' = <<[pid |-> pid + 1, size |-> size,
                           start |-> free_block[Fit(F, size)].start]>> \o allocated
        /\ zero_made' = (zero_made \/ size = 0)
  BY DEF Allocate
<1>2. size \in Nat
  BY SizeOfIs
<1>. DEFINE i == Fit(F, size)
            new == [pid |-> pid + 1, size |-> size, start |-> free_block[i].start]
<1>3. /\ F \in FreeLists /\ F.list = free_block
      /\ free_block \in Seq(Block) /\ ma_algorithm \in Algorithms /\ SortedFor(ma_algorithm, free_block)
      /\ allocated \in Seq(AllocBlock) /\ mem_size \in Nat /\ pid \in 0..MaxPid
  BY IInvGives
<1>4. /\ AllApart(free_block) /\ AllApart(allocated) /\ DistinctPids(allocated)
      /\ \A a \in DOMAIN free_block, k \in DOMAIN allocated : Apart(free_block[a], allocated[k])
      /\ \A a \in DOMAIN free_block : Inside(free_block[a], mem_size)
      /\ \A k \in DOMAIN allocated : Inside(allocated[k], mem_size)
      /\ \A k \in DOMAIN allocated : allocated[k].pid <= pid
  BY IInvGives
<1>5. i \in DOMAIN free_block /\ free_block[i].size >= size
  BY <1>1, <1>3, FitIs
<1>6. PICK G \in TakeFrom(F, i, size) : free_block' = G.list /\ free_block_len' = G.len
  BY <1>1 DEF SetFree
<1>7. /\ free_block[i] \in Block /\ IsBlock(free_block[i]) /\ size <= free_block[i].size
      /\ \A a \in DOMAIN free_block : IsBlock(free_block[a])
  BY <1>2, <1>3, <1>5, BlocksOf DEF IsBlock
<1>. HIDE DEF i
<1>8. new.start = free_block[i].start /\ new.size = size /\ new.pid = pid + 1
  OBVIOUS
<1>9. pid + 1 \in 1..MaxPid /\ pid' = pid + 1 /\ status = "run" /\ status' = status
  BY <1>3, SizeAssumption DEF Allocate, NewProcess
<1>10. new \in AllocBlock
  BY <1>2, <1>7, <1>9 DEF AllocBlock, IsBlock
<1>11. allocated' = <<new>> \o allocated
  BY <1>1 DEF i
<1>. HIDE DEF new
<1>12. AllocBlocks(allocated)
  BY <1>3, AllocBlocksIs
<1>13. IsBlock(new) /\ Part(new, free_block[i]) /\ Apart(Remainder(free_block[i], size), new)
  BY <1>2, <1>7, <1>8, HeadIs
<1>14. /\ allocated' \in Seq(AllocBlock) /\ Len(allocated') = Len(allocated) + 1
       /\ allocated'[1] = new /\ \A k \in DOMAIN allocated : allocated'[k+1] = allocated[k]
       /\ \A a \in DOMAIN allocated' : allocated'[a] = new \/ \E k \in DOMAIN allocated : allocated'[a] = allocated[k]
       /\ Positive(allocated) /\ new.size > 0 => Positive(allocated')
       /\ AllApart(allocated) /\ (\A k \in DOMAIN allocated : Apart(allocated[k], new)) => AllApart(allocated')
  BY <1>3, <1>10, <1>11, InsertIs
<1>15. \A k \in DOMAIN allocated : Apart(allocated[k], new)
  <2>1. TAKE k \in DOMAIN allocated
  <2>2. IsBlock(allocated[k]) /\ Apart(free_block[i], allocated[k])
    BY <1>4, <1>5, <1>12 DEF AllocBlocks
  <2>. QED
    BY <1>7, <1>13, <2>2, PartKeeps
<1>16. /\ G \in FreeLists /\ AllApart(G.list) /\ SortedFor(ma_algorithm, G.list)
       /\ \A a \in DOMAIN G.list : \E k \in DOMAIN free_block :
            /\ Part(G.list[a], free_block[k])
            /\ k = i => G.list[a] = Remainder(free_block[i], size)
       /\ Positive(free_block) => Positive(G.list)
       /\ Positive(free_block) /\ Unmergeable(free_block) => Unmergeable(G.list)
  BY <1>2, <1>3, <1>4, <1>5, <1>6, <1>7, TakeFromIs
<1>17. LayoutOf(G.list, allocated, mem_size)
  <2>1. LayoutOf(free_block, allocated, mem_size)
    BY DEF IInv, Layout
  <2>. QED
    BY <1>2, <1>3, <1>5, <1>6, <1>7, <1>12, <2>1, TakeLayout
<1>18. \A a \in DOMAIN G.list : IsBlock(G.list[a])
  BY <1>16, FreeBlocksIs
<1>19. ASSUME NEW a \in DOMAIN G.list PROVE Apart(G.list[a], new)
  <2>1. PICK k \in DOMAIN free_block :
          Part(G.list[a], free_block[k]) /\ (k = i => G.list[a] = Remainder(free_block[i], size))
    BY <1>16
  <2>2. CASE k = i
    BY <1>13, <2>1, <2>2
  <2>3. CASE k # i
    <3>1. Apart(free_block[k], free_block[i]) /\ IsBlock(free_block[k])
      BY <1>4, <1>5, <1>7, <2>3 DEF AllApart
    <3>2. Apart(G.list[a], free_block[i])
      BY <1>7, <1>18, <2>1, <3>1, PartKeeps
    <3>. QED
      BY <1>7, <1>13, <1>18, <3>2, PartKeeps
  <2>. QED
    BY <2>2, <2>3
<1>20. Inside(new, mem_size)
  BY <1>3, <1>4, <1>5, <1>7, <1>13, PartKeeps
<1>21. LayoutOf(free_block', allocated', mem_size)
  BY <1>4, <1>6, <1>14, <1>15, <1>17, <1>19, <1>20, Zenon DEF LayoutOf
<1>22. DistinctPids(allocated') /\ \A k \in DOMAIN allocated' : allocated'[k].pid <= pid + 1
  <2>1. /\ Len(allocated) \in Nat /\ DOMAIN allocated = 1..Len(allocated)
        /\ \A k \in DOMAIN allocated : allocated[k].pid \in Nat
    BY <1>12 DEF AllocBlocks
  <2>2. /\ DOMAIN allocated' = 1..(Len(allocated) + 1)
        /\ \A a \in DOMAIN allocated' : a = 1 \/ (a - 1 \in DOMAIN allocated /\ allocated'[a] = allocated[a-1])
    BY <1>14, <2>1
  <2>3. \A k \in DOMAIN allocated : allocated[k].pid < pid + 1
    BY <1>3, <1>4, <2>1
  <2>4. ASSUME NEW a \in DOMAIN allocated', NEW e \in DOMAIN allocated', a # e
        PROVE  allocated'[a].pid # allocated'[e].pid
    <3>1. CASE a = 1
      BY <1>3, <1>8, <1>14, <2>1, <2>2, <2>3, <2>4, <3>1
    <3>2. CASE e = 1
      BY <1>3, <1>8, <1>14, <2>1, <2>2, <2>3, <2>4, <3>2
    <3>3. CASE a # 1 /\ e # 1
      <4>1. /\ a - 1 \in DOMAIN allocated /\ e - 1 \in DOMAIN allocated /\ a - 1 # e - 1
            /\ allocated'[a] = allocated[a-1] /\ allocated'[e] = allocated[e-1]
        BY <2>1, <2>2, <2>4, <3>3
      <4>. QED
        BY <1>4, <4>1 DEF DistinctPids
    <3>. QED
      BY <3>1, <3>2, <3>3
  <2>5. \A a \in DOMAIN allocated' : allocated'[a].pid <= pid + 1
    BY <1>3, <1>8, <1>14, <2>1, <2>2, <2>3
  <2>. QED
    BY <2>4, <2>5 DEF DistinctPids
<1>23. ~zero_made' => MergedOf(free_block', allocated')
  <2>1. ASSUME ~zero_made' PROVE MergedOf(free_block', allocated')
    <3>1. ~zero_made /\ size # 0
      BY <1>1, <2>1
    <3>2. Positive(free_block) /\ Positive(allocated) /\ Unmergeable(free_block)
      BY <3>1 DEF IInv, Merged, MergedOf
    <3>3. new.size > 0
      BY <1>2, <1>8, <3>1
    <3>. QED
      BY <1>6, <1>14, <1>16, <3>2, <3>3 DEF MergedOf
  <2>. QED
    BY <2>1
<1>24. free_block' \in Seq(Block) /\ free_block_len' \in Nat /\ free_block_len' = Len(free_block')
  BY <1>6, <1>16 DEF FreeLists
<1>25. /\ UNCHANGED <<mem_size, ma_algorithm>> /\ flag' = 1 /\ ret' \in {1, 2}
       /\ zero_made' \in BOOLEAN
  BY <1>1 DEF Allocate
<1>26. Fresh' /\ RecursionNeedsLoss'
  BY <1>9, <1>25 DEF Fresh, RecursionNeedsLoss
<1>27. mem_size \in Nat \ {0}
  BY OtherTypes
<1>28. SortedFor(ma_algorithm', free_block') /\ LayoutOf(free_block', allocated', mem_size')
  BY <1>6, <1>16, <1>21, <1>25
<1>29. pid' \in 0..MaxPid /\ \A k \in DOMAIN allocated' : allocated'[k].pid <= pid'
  BY <1>9, <1>22
<1>. QED
  BY <1>3, <1>9, <1>14, <1>22, <1>23, <1>24, <1>25, <1>26, <1>27, <1>28, <1>29, IInvNext

\* new_process after the last kill, when no memory was lost and no neighbours
\* kept apart: the free memory is one block, which fits if the total does.
LEMMA OneBlock ==
  ASSUME IInv, ~zero_made, CellsOf(free_block) = 0..(mem_size - 1)
  PROVE  /\ Len(free_block) = 1 /\ free_block[1].size = mem_size
         /\ TotalSize(free_block) = mem_size
<1>1. /\ free_block \in Seq(Block) /\ AllApart(free_block)
      /\ \A i \in DOMAIN free_block : Inside(free_block[i], mem_size)
  BY IInvGives
<1>2. /\ Len(free_block) \in Nat /\ DOMAIN free_block = 1..Len(free_block)
      /\ \A i \in 1..Len(free_block) :
           free_block[i] \in Block /\ free_block[i].start \in Nat /\ free_block[i].size \in Nat
  BY <1>1, BlocksOf
<1>3. Positive(free_block) /\ Unmergeable(free_block) /\ mem_size \in Nat \ {0}
  BY OtherTypes DEF IInv, Merged, MergedOf
<1>4. \A x \in 0..(mem_size - 1) : \E i \in DOMAIN free_block : x \in Cells(free_block[i])
  BY InCellsOf
<1>5. PICK i \in DOMAIN free_block : 0 \in Cells(free_block[i])
  BY <1>3, <1>4
<1>6. free_block[i].start = 0 /\ free_block[i].size > 0 /\ free_block[i].size \in Nat
  BY <1>2, <1>3, <1>5 DEF Cells, Positive
<1>7. free_block[i].size = mem_size
  <2>1. free_block[i].size <= mem_size
    <3>1. Inside(free_block[i], mem_size)
      BY <1>1
    <3>. QED
      BY <1>6, <3>1 DEF Inside
  <2>2. ASSUME free_block[i].size < mem_size PROVE FALSE
    <3>1. PICK j \in DOMAIN free_block : free_block[i].size \in Cells(free_block[j])
      BY <1>3, <1>4, <1>6, <2>2
    <3>2. /\ free_block[j].start \in Nat /\ free_block[j].size \in Nat
          /\ free_block[j].start <= free_block[i].size
          /\ free_block[i].size < free_block[j].start + free_block[j].size
      BY <1>2, <1>6, <3>1 DEF Cells
    <3>3. free_block[i].start + free_block[i].size # free_block[j].start /\ free_block[j].size > 0
      BY <1>3 DEF Unmergeable, Positive
    <3>4. i # j
      BY <1>6, <3>2
    <3>5. Apart(free_block[i], free_block[j])
      BY <1>1, <3>4 DEF AllApart
    <3>. QED
      BY <1>6, <3>2, <3>3, <3>5 DEF Apart
  <2>. QED
    BY <1>3, <1>6, <2>1, <2>2
<1>8. ASSUME NEW j \in DOMAIN free_block, j # i PROVE FALSE
  <2>1. Apart(free_block[i], free_block[j]) /\ Inside(free_block[j], mem_size) /\ free_block[j].size > 0
    BY <1>1, <1>3, <1>8 DEF AllApart, Positive
  <2>2. free_block[j].start \in Nat /\ free_block[j].size \in Nat
    BY <1>2
  <2>. QED
    BY <1>3, <1>6, <1>7, <2>1, <2>2 DEF Apart, Inside
<1>9. Len(free_block) = 1 /\ i = 1
  <2>1. i \in 1..Len(free_block) /\ 1 \in 1..Len(free_block) /\ Len(free_block) \in 1..Len(free_block)
    BY <1>2
  <2>. QED
    BY <1>2, <1>8, <2>1
<1>10. TotalSize(free_block) = SumTo(free_block)[1]
  BY <1>9 DEF TotalSize
<1>11. SumTo(free_block)[0] = 0 /\ SumTo(free_block)[1] = SumTo(free_block)[1-1] + free_block[1].size
  BY <1>2, <1>9, SumToDef
<1>. QED
  BY <1>3, <1>7, <1>9, <1>10, <1>11

\* The endless recursion starts from memory that was lost or kept apart.
LEMMA RecurseStep ==
  ASSUME IInv, NEW n \in Requests, RecurseForEver(n)
  PROVE  IInv'
<1>1. PICK size \in SizeOf(n) : Fit(F, size) = 0 /\ TotalSize(free_block) >= size
  BY DEF RecurseForEver, Fragmented
<1>2. ASSUME ~zero_made, CellsOf(free_block) = 0..(mem_size - 1) PROVE FALSE
  <2>1. Len(free_block) = 1 /\ free_block[1].size = mem_size /\ TotalSize(free_block) = mem_size
    BY <1>2, OneBlock
  <2>2. F \in FreeLists /\ F.list = free_block /\ free_block \in Seq(Block)
    BY IInvGives
  <2>3. \A i \in DOMAIN free_block : ~(free_block[i].size >= size)
    BY <1>1, <2>2, FitIs
  <2>4. 1 \in DOMAIN free_block
    BY <2>1, <2>2
  <2>5. ~(mem_size >= size)
    BY <2>1, <2>3, <2>4
  <2>. QED
    BY <1>1, <2>1, <2>5
<1>3. UNCHANGED <<zero_made, free_block, mem_size>>
  BY DEF RecurseForEver
<1>4. RecursionNeedsLoss'
  BY <1>2, <1>3 DEF RecursionNeedsLoss, CellsOf, Cells
<1>5. /\ UNCHANGED <<mem_size, ma_algorithm, free_block, free_block_len, allocated, zero_made, flag, ret>>
      /\ status' = "overflow" /\ pid' = pid + 1 /\ pid < MaxPid
  BY DEF RecurseForEver, NewProcess
<1>6. pid' \in pid..MaxPid /\ flag' \in {0, 1} /\ ret' \in {-1, 0, 1, 2}
  BY <1>5, OtherTypes
<1>. QED
  BY <1>4, <1>5, <1>6, UnmovedStep

\* The menu entries that change no list.
LEMMA QuietStep ==
  ASSUME IInv,
         \/ \E n \in Requests : NoDescriptor(n) \/ Refuse(n)
         \/ \E q \in 1..MaxPid : KillNobody(q)
         \/ DisplayMemUsage \/ Exit
  PROVE  IInv'
<1>1. /\ UNCHANGED <<mem_size, ma_algorithm, free_block, free_block_len, allocated, zero_made>>
      /\ status = "run" /\ status' \in {"run", "exit"}
      /\ (flag' = 1 \/ flag' = flag) /\ (ret' \in {-1, 0} \/ ret' = ret)
      /\ (pid' = pid \/ (pid' = pid + 1 /\ pid < MaxPid))
  BY DEF NoDescriptor, Refuse, KillNobody, DisplayMemUsage, Exit, NewProcess
<1>2. RecursionNeedsLoss'
  BY <1>1 DEF RecursionNeedsLoss
<1>3. /\ pid' \in pid..MaxPid /\ flag' \in {0, 1} /\ (flag' = 0 => flag = 0)
      /\ ret' \in {-1, 0, 1, 2} /\ status' \in {"run", "exit", "overflow"}
  BY <1>1, OtherTypes
<1>. QED
  BY <1>1, <1>2, <1>3, UnmovedStep

\* set_mem_size, which works only on the memory init_free_block left.
LEMMA SetMemSizeStep ==
  ASSUME IInv, NEW n \in MemSizes, SetMemSize(n)
  PROVE  IInv'
<1>1. /\ UNCHANGED <<ma_algorithm, pid, free_block_len, allocated, status, zero_made>>
      /\ status = "run" /\ ret' \in {0, 1}
  BY DEF SetMemSize
<1>2. RecursionNeedsLoss'
  BY <1>1 DEF RecursionNeedsLoss
<1>3. CASE UNCHANGED <<mem_size, free_block>> /\ (flag' = flag \/ flag' = 1)
  <2>1. /\ pid' \in pid..MaxPid /\ flag' \in {0, 1} /\ (flag' = 0 => flag = 0)
        /\ ret' \in {-1, 0, 1, 2} /\ status' \in {"run", "exit", "overflow"}
    BY <1>1, <1>3, OtherTypes
  <2>. QED
    BY <1>1, <1>2, <1>3, <2>1, UnmovedStep
<1>4. CASE flag = 0 /\ n > 0 /\ mem_size' = n /\ free_block' = [free_block EXCEPT ![1].size = n] /\ flag' = 1
  <2>. DEFINE b == [start |-> 0, size |-> n]
  <2>1. free_block = <<[start |-> 0, size |-> mem_size]>> /\ allocated = <<>>
    BY <1>4 DEF IInv, Fresh
  <2>2. free_block' = <<b>> /\ allocated' = <<>>
    BY <1>1, <1>4, <2>1
  <2>3. n \in Nat \ {0} /\ b \in Block /\ b.start = 0 /\ b.size = n
    BY <1>4, SizeAssumption DEF Block
  <2>4. free_block_len = 1
    BY <2>1, IInvGives DEF F, FreeLists
  <2>. HIDE DEF b
  <2>5. /\ free_block' \in Seq(Block) /\ DOMAIN free_block' = {1} /\ free_block'[1] = b
        /\ Len(free_block') = 1 /\ allocated' \in Seq(AllocBlock) /\ DOMAIN allocated' = {}
    BY <2>2, <2>3
  <2>6. LayoutOf(free_block', allocated', mem_size')
    <3>1. Inside(b, mem_size')
      BY <1>4, <2>3 DEF Inside
    <3>2. \A i, j \in DOMAIN free_block' : i = 1 /\ j = 1
      BY <2>5
    <3>. QED
      BY <2>5, <3>1, <3>2, Zenon DEF LayoutOf, AllApart
  <2>7. SortedFor(ma_algorithm', free_block')
    BY <2>5 DEF SortedFor
  <2>8. MergedOf(free_block', allocated')
    BY <2>3, <2>5 DEF MergedOf, Positive, Unmergeable
  <2>9. DistinctPids(allocated') /\ (\A k \in DOMAIN allocated' : allocated'[k].pid <= pid') /\ Fresh'
    BY <1>4, <2>5 DEF DistinctPids, Fresh
  <2>10. /\ pid' \in 0..MaxPid /\ ma_algorithm' \in Algorithms /\ zero_made' \in BOOLEAN
         /\ status' \in {"run", "exit", "overflow"} /\ mem_size' \in Nat \ {0}
         /\ flag' \in {0, 1} /\ ret' \in {-1, 0, 1, 2}
         /\ free_block_len' \in Nat /\ free_block_len' = Len(free_block')
    BY <1>1, <1>4, <2>3, <2>4, <2>5, OtherTypes, IInvGives
  <2>. QED
    BY <1>2, <2>5, <2>6, <2>7, <2>8, <2>9, <2>10, IInvNext
<1>. QED
  BY <1>3, <1>4 DEF SetMemSize

\* set_algorithm puts the same blocks in another order.
LEMMA SetAlgorithmStep ==
  ASSUME IInv, NEW a \in 0..3, SetAlgorithm(a)
  PROVE  IInv'
<1>1. PICK G \in rearrange_by(ma_algorithm', F) : free_block' = G.list /\ free_block_len' = G.len
  BY DEF SetAlgorithm, SetFree
<1>2. /\ UNCHANGED <<mem_size, pid, allocated, ret, status, zero_made>> /\ flag' = 1 /\ status = "run"
      /\ ma_algorithm' = (IF a \in 1..3 THEN a ELSE ma_algorithm)
  BY DEF SetAlgorithm
<1>3. ma_algorithm' \in Algorithms
  <2>1. ma_algorithm \in Algorithms
    BY IInvGives
  <2>2. 1..3 \subseteq Algorithms
    BY DEF Algorithms, MA_FF, MA_BF, MA_WF
  <2>. QED
    BY <1>2, <2>1, <2>2
<1>4. F \in FreeLists /\ F.list = free_block
  BY IInvGives
<1>5. G \in FreeLists /\ Permuted(free_block, G.list) /\ SortedFor(ma_algorithm', G.list)
  <2>1. G \in FreeLists /\ Permuted(free_block, G.list) /\ Ordered(ma_algorithm', G.list)
    BY <1>1, <1>4, RearrangeIs
  <2>. QED
    BY <1>3, <2>1, OrderedIsSorted
<1>6. /\ \A i \in DOMAIN G.list : \E k \in DOMAIN free_block : G.list[i] = free_block[k]
      /\ AllApart(free_block) => AllApart(G.list)
      /\ Unmergeable(free_block) => Unmergeable(G.list)
      /\ Positive(free_block) => Positive(G.list)
  <2>1. Permuted(free_block, G.list)
    BY <1>5
  <2>. QED
    BY <2>1, PermutedKeeps
<1>7. LayoutOf(free_block, allocated, mem_size)
  BY DEF IInv, Layout
<1>8. LayoutOf(G.list, allocated, mem_size)
  BY <1>6, <1>7, Zenon DEF LayoutOf
<1>9. ~zero_made => MergedOf(G.list, allocated)
  BY <1>6, Zenon DEF IInv, Merged, MergedOf
<1>10. free_block' \in Seq(Block) /\ free_block_len' \in Nat /\ free_block_len' = Len(free_block')
  BY <1>1, <1>5 DEF FreeLists
<1>11. Fresh' /\ RecursionNeedsLoss'
  BY <1>2 DEF Fresh, RecursionNeedsLoss
<1>12. /\ pid' \in 0..MaxPid /\ zero_made' \in BOOLEAN /\ mem_size' \in Nat \ {0}
       /\ status' \in {"run", "exit", "overflow"} /\ flag' \in {0, 1} /\ ret' \in {-1, 0, 1, 2}
  BY <1>2, OtherTypes
<1>13. /\ allocated' \in Seq(AllocBlock) /\ DistinctPids(allocated')
       /\ \A k \in DOMAIN allocated' : allocated'[k].pid <= pid'
  BY <1>2, IInvGives
<1>14. /\ LayoutOf(free_block', allocated', mem_size') /\ SortedFor(ma_algorithm', free_block')
       /\ ~zero_made' => MergedOf(free_block', allocated')
  BY <1>1, <1>2, <1>5, <1>8, <1>9
<1>. QED
  BY <1>3, <1>10, <1>11, <1>12, <1>13, <1>14, IInvNext

\* The list of processes without process k.
LEMMA DisposeIs ==
  ASSUME IInv, NEW k \in DOMAIN allocated, NEW B, B = RemoveAt(allocated, k)
  PROVE  /\ B \in Seq(AllocBlock) /\ Len(B) = Len(allocated) - 1
         /\ \A a \in DOMAIN B : \E l \in DOMAIN allocated : l # k /\ B[a] = allocated[l]
         /\ \A l \in DOMAIN allocated : l # k => \E a \in DOMAIN B : B[a] = allocated[l]
         /\ AllApart(B) /\ DistinctPids(B) /\ \A a \in DOMAIN B : B[a].pid <= pid
         /\ Positive(allocated) => Positive(B)
         /\ LayoutOf(free_block, B, mem_size)
<1>1. /\ allocated \in Seq(AllocBlock) /\ AllApart(allocated) /\ DistinctPids(allocated)
      /\ \A l \in DOMAIN allocated : allocated[l].pid <= pid
  BY IInvGives
<1>2. /\ B \in Seq(AllocBlock) /\ Len(B) = Len(allocated) - 1
      /\ \A a \in DOMAIN B : \E l \in DOMAIN allocated : l # k /\ B[a] = allocated[l]
      /\ AllApart(allocated) => AllApart(B)
      /\ Positive(allocated) => Positive(B)
  BY <1>1, RemoveKeeps
<1>3. /\ \A a \in DOMAIN B : B[a] = allocated[Was(k, a)] /\ Was(k, a) \in DOMAIN allocated
      /\ \A a, e \in DOMAIN B : a # e => Was(k, a) # Was(k, e)
      /\ \A l \in DOMAIN allocated : l # k => \E a \in DOMAIN B : Was(k, a) = l
  BY <1>1, RemoveAtIs
<1>4. DistinctPids(B)
  <2>1. ASSUME NEW a \in DOMAIN B, NEW e \in DOMAIN B, a # e PROVE B[a].pid # B[e].pid
    <3>1. /\ Was(k, a) # Was(k, e) /\ Was(k, a) \in DOMAIN allocated /\ Was(k, e) \in DOMAIN allocated
          /\ B[a] = allocated[Was(k, a)] /\ B[e] = allocated[Was(k, e)]
      BY <1>3, <2>1, Zenon
    <3>2. allocated[Was(k, a)].pid # allocated[Was(k, e)].pid
      BY <1>1, <3>1, Zenon DEF DistinctPids
    <3>. QED
      BY <3>1, <3>2
  <2>. QED
    BY <2>1, Zenon DEF DistinctPids
<1>5. \A l \in DOMAIN allocated : l # k => \E a \in DOMAIN B : B[a] = allocated[l]
  BY <1>3, Zenon
<1>6. LayoutOf(free_block, allocated, mem_size)
  BY DEF IInv, Layout
<1>7. LayoutOf(free_block, B, mem_size)
  BY <1>1, <1>2, <1>6, Zenon DEF LayoutOf
<1>8. \A a \in DOMAIN B : B[a].pid <= pid
  BY <1>1, <1>2, Zenon
<1>. QED
  BY <1>1, <1>2, <1>4, <1>5, <1>7, <1>8

\* free_mem of block k of the list of processes.
LEMMA FreeProcessIs ==
  ASSUME IInv, NEW k \in DOMAIN allocated, NEW H \in free_mem(allocated[k])
  PROVE  /\ H \in FreeLists /\ SortedFor(ma_algorithm, H.list)
         /\ CellsOf(H.list) = CellsOf(free_block) \cup Cells(allocated[k])
         /\ Positive(free_block) /\ allocated[k].size > 0 => Positive(H.list) /\ Unmergeable(H.list)
         /\ AllApart(H.list)
         /\ \A a \in DOMAIN H.list : Inside(H.list[a], mem_size)
         /\ \A a \in DOMAIN H.list, l \in DOMAIN allocated : l # k => Apart(H.list[a], allocated[l])
<1>. DEFINE b == allocated[k]
<1>1. /\ F \in FreeLists /\ ma_algorithm \in Algorithms /\ mem_size \in Nat
      /\ allocated \in Seq(AllocBlock) /\ AllApart(free_block) /\ AllApart(allocated)
      /\ \A i \in DOMAIN free_block, l \in DOMAIN allocated : Apart(free_block[i], allocated[l])
      /\ \A i \in DOMAIN free_block : Inside(free_block[i], mem_size)
      /\ \A l \in DOMAIN allocated : Inside(allocated[l], mem_size)
  BY IInvGives
<1>2. \A l \in DOMAIN allocated : IsBlock(allocated[l])
  BY <1>1, AllocBlocksIs DEF AllocBlocks
<1>3. /\ IsBlock(b) /\ Inside(b, mem_size) /\ \A i \in DOMAIN free_block : Apart(free_block[i], b)
      /\ H \in free_mem(b)
  BY <1>1, <1>2
<1>. HIDE DEF b
<1>4. /\ H \in FreeLists /\ AllApart(H.list) /\ SortedFor(ma_algorithm, H.list)
      /\ CellsOf(H.list) = CellsOf(free_block) \cup Cells(b)
      /\ Positive(free_block) /\ b.size > 0 => Positive(H.list) /\ Unmergeable(H.list)
  BY <1>1, <1>3, FreeMemIs
<1>5. \A c \in Block : Apart(b, c) /\ (\A i \in DOMAIN free_block : Apart(free_block[i], c))
                         => \A a \in DOMAIN H.list : Apart(H.list[a], c)
  BY <1>1, <1>3, FreeMemIs
<1>6. \A m \in Nat : Inside(b, m) /\ (\A i \in DOMAIN free_block : Inside(free_block[i], m))
                       => \A a \in DOMAIN H.list : Inside(H.list[a], m)
  BY <1>1, <1>3, FreeMemIs
<1>7. \A a \in DOMAIN H.list : Inside(H.list[a], mem_size)
  BY <1>1, <1>3, <1>6
<1>8. ASSUME NEW a \in DOMAIN H.list, NEW l \in DOMAIN allocated, l # k
      PROVE  Apart(H.list[a], allocated[l])
  <2>. DEFINE p == Place(allocated[l])
  <2>1. /\ p \in Block
        /\ \A c : Apart(c, p) <=> Apart(c, allocated[l])
    BY <1>2, PlaceIs
  <2>. HIDE DEF p
  <2>2. Apart(b, p) /\ \A i \in DOMAIN free_block : Apart(free_block[i], p)
    BY <1>1, <1>8, <2>1 DEF AllApart, b
  <2>. QED
    BY <1>5, <2>1, <2>2
<1>. QED
  BY <1>4, <1>7, <1>8 DEF b

\* kill_process.
LEMMA KillStep ==
  ASSUME IInv, NEW q \in 1..MaxPid, KillProcess(q)
  PROVE  IInv'
<1>1. PICK k \in DOMAIN allocated :
        /\ allocated[k].pid = q
        /\ \/ \E G \in free_mem(allocated[k]) : SetFree(G)
           \/ MallocFails /\ UNCHANGED <<free_block, free_block_len>>
        /\ allocated' = RemoveAt(allocated, k)
  BY DEF KillProcess
<1>2. UNCHANGED <<mem_size, ma_algorithm, pid, ret, status, zero_made>> /\ flag' = 1 /\ status = "run"
  BY DEF KillProcess
<1>. DEFINE B == RemoveAt(allocated, k)
<1>b. allocated' = B
  BY <1>1
<1>3. /\ B \in Seq(AllocBlock) /\ Len(B) = Len(allocated) - 1
      /\ \A a \in DOMAIN B : \E l \in DOMAIN allocated : l # k /\ B[a] = allocated[l]
      /\ AllApart(B) /\ DistinctPids(B) /\ \A a \in DOMAIN B : B[a].pid <= pid
      /\ Positive(allocated) => Positive(B)
      /\ LayoutOf(free_block, B, mem_size)
  BY DisposeIs
<1>. HIDE DEF B
<1>4. Fresh' /\ RecursionNeedsLoss'
  BY <1>2 DEF Fresh, RecursionNeedsLoss
<1>5. /\ pid' \in 0..MaxPid /\ zero_made' \in BOOLEAN /\ mem_size' \in Nat \ {0}
      /\ status' \in {"run", "exit", "overflow"} /\ flag' \in {0, 1} /\ ret' \in {-1, 0, 1, 2}
      /\ ma_algorithm' \in Algorithms
  BY <1>2, OtherTypes, IInvGives
<1>6. /\ allocated' \in Seq(AllocBlock) /\ DistinctPids(allocated')
      /\ \A a \in DOMAIN allocated' : allocated'[a].pid <= pid'
  BY <1>2, <1>3, <1>b
<1>7. CASE \E G \in free_mem(allocated[k]) : SetFree(G)
  <2>1. PICK G \in free_mem(allocated[k]) : free_block' = G.list /\ free_block_len' = G.len
    BY <1>7 DEF SetFree
  <2>2. /\ G \in FreeLists /\ SortedFor(ma_algorithm, G.list)
        /\ Positive(free_block) /\ allocated[k].size > 0 => Positive(G.list) /\ Unmergeable(G.list)
        /\ AllApart(G.list)
        /\ \A a \in DOMAIN G.list : Inside(G.list[a], mem_size)
        /\ \A a \in DOMAIN G.list, l \in DOMAIN allocated : l # k => Apart(G.list[a], allocated[l])
    BY FreeProcessIs
  <2>3. LayoutOf(G.list, B, mem_size)
    BY <1>3, <2>2, Zenon DEF LayoutOf
  <2>4. ~zero_made => MergedOf(G.list, B)
    <3>1. ~zero_made => Positive(free_block) /\ Positive(allocated)
      BY DEF IInv, Merged, MergedOf
    <3>2. Positive(allocated) => allocated[k].size > 0
      BY DEF Positive
    <3>. QED
      BY <1>3, <2>2, <3>1, <3>2, Zenon DEF MergedOf
  <2>5. free_block' \in Seq(Block) /\ free_block_len' \in Nat /\ free_block_len' = Len(free_block')
    BY <2>1, <2>2 DEF FreeLists
  <2>6. /\ LayoutOf(free_block', allocated', mem_size') /\ SortedFor(ma_algorithm', free_block')
        /\ ~zero_made' => MergedOf(free_block', allocated')
    BY <1>2, <1>b, <2>1, <2>2, <2>3, <2>4
  <2>. QED
    BY <1>4, <1>5, <1>6, <2>5, <2>6, IInvNext
<1>8. CASE UNCHANGED <<free_block, free_block_len>>
  <2>1. ~zero_made => MergedOf(free_block, B)
    BY <1>3, Zenon DEF IInv, Merged, MergedOf
  <2>2. /\ LayoutOf(free_block', allocated', mem_size')
        /\ ~zero_made' => MergedOf(free_block', allocated')
    BY <1>2, <1>3, <1>8, <1>b, <2>1
  <2>3. free_block' \in Seq(Block) /\ free_block_len' \in Nat /\ SortedFor(ma_algorithm', free_block')
    BY <1>2, <1>8, IInvGives
  <2>4. free_block_len' = Len(free_block')
    BY <1>8, ListSortedIs DEF IInv
  <2>. QED
    BY <1>4, <1>5, <1>6, <2>2, <2>3, <2>4, IInvNext
<1>. QED
  BY <1>1, <1>7, <1>8

\* compact_memory: the blocks in use lie at the beginning of the memory, the
\* free memory is one block behind them, or none.
LEMMA CompactedIs ==
  ASSUME IInv, NEW t \in Sorted(MA_FF, allocated)
  PROVE  /\ Moved(t) \in Seq(AllocBlock) /\ DistinctPids(Moved(t)) /\ Len(Moved(t)) = Len(allocated)
         /\ \A k \in DOMAIN Moved(t) : Moved(t)[k].pid <= pid
         /\ Positive(allocated) => Positive(Moved(t))
         /\ CompactedFree(t) \in FreeLists
         /\ LayoutOf(CompactedFree(t).list, Moved(t), mem_size)
         /\ LayoutOf(<<>>, Moved(t), mem_size)
         /\ SortedFor(ma_algorithm, CompactedFree(t).list)
         /\ Positive(CompactedFree(t).list) /\ Unmergeable(CompactedFree(t).list)
<1>. DEFINE M == Moved(t)
            C == CompactedFree(t)
            used == TotalSize(t)
<1>1. /\ allocated \in Seq(AllocBlock) /\ AllApart(allocated) /\ DistinctPids(allocated)
      /\ mem_size \in Nat /\ \A k \in DOMAIN allocated : Inside(allocated[k], mem_size)
      /\ \A k \in DOMAIN allocated : allocated[k].pid <= pid
  BY IInvGives
<1>2. /\ used \in Nat /\ used <= mem_size
      /\ M \in Seq(AllocBlock) /\ Len(M) = Len(allocated) /\ DOMAIN M = DOMAIN allocated
      /\ \A k \in DOMAIN allocated :
           /\ M[k].pid = allocated[k].pid /\ M[k].size = allocated[k].size
           /\ M[k].start + M[k].size <= used
      /\ AllApart(M)
  BY <1>1, CompactionKeeps
<1>3. C = IF used < mem_size
          THEN [list |-> <<[start |-> used, size |-> mem_size - used]>>, len |-> 1]
          ELSE [list |-> <<>>, len |-> 0]
  BY DEF CompactedFree
<1>. HIDE DEF M, C, used
<1>4. \A k \in DOMAIN M : IsBlock(M[k])
  BY <1>2, AllocBlocksIs DEF AllocBlocks
<1>5. DistinctPids(M) /\ \A k \in DOMAIN M : M[k].pid <= pid
  BY <1>1, <1>2 DEF DistinctPids
<1>6. Positive(allocated) => Positive(M)
  BY <1>2 DEF Positive
<1>7. \A k \in DOMAIN M : Inside(M[k], mem_size)
  BY <1>1, <1>2, <1>4 DEF Inside, IsBlock
<1>8. LayoutOf(<<>>, M, mem_size)
  BY <1>2, <1>7 DEF LayoutOf, AllApart
<1>9. CASE used < mem_size
  <2>. DEFINE b == [start |-> used, size |-> mem_size - used]
              s == <<b>>
  <2>1. b \in Block /\ b.start = used /\ b.size = mem_size - used /\ mem_size - used > 0
    BY <1>1, <1>2, <1>9 DEF Block
  <2>2. C = [list |-> s, len |-> 1]
    BY <1>3, <1>9
  <2>. HIDE DEF b
  <2>3. s \in Seq(Block) /\ Len(s) = 1 /\ DOMAIN s = {1} /\ s[1] = b
    BY <2>1
  <2>. HIDE DEF s
  <2>4. C \in FreeLists /\ C.list = s
    BY <2>2, <2>3 DEF FreeLists
  <2>5. \A k \in DOMAIN M : Apart(b, M[k])
    BY <1>2, <1>4, <2>1 DEF Apart, IsBlock
  <2>6. Inside(b, mem_size)
    BY <1>1, <1>2, <2>1 DEF Inside
  <2>7. \A i, j \in DOMAIN s : i = 1 /\ j = 1 /\ s[i] = b
    BY <2>3
  <2>8. LayoutOf(s, M, mem_size)
    BY <1>2, <1>7, <2>5, <2>6, <2>7, Zenon DEF LayoutOf, AllApart
  <2>9. SortedFor(ma_algorithm, s)
    BY <2>3 DEF SortedFor
  <2>10. Positive(s)
    BY <2>1, <2>7 DEF Positive
  <2>11. Unmergeable(s)
    BY <1>1, <1>2, <2>1, <2>7 DEF Unmergeable
  <2>. QED
    BY <1>2, <1>5, <1>6, <1>8, <2>4, <2>8, <2>9, <2>10, <2>11 DEF M, C
<1>10. CASE ~(used < mem_size)
  <2>1. C = [list |-> <<>>, len |-> 0]
    BY <1>3, <1>10
  <2>2. C \in FreeLists /\ C.list = <<>>
    BY <2>1 DEF FreeLists
  <2>3. SortedFor(ma_algorithm, <<>>) /\ Positive(<<>>) /\ Unmergeable(<<>>)
    BY DEF SortedFor, Positive, Unmergeable
  <2>. QED
    BY <1>2, <1>5, <1>6, <1>8, <2>2, <2>3 DEF M, C
<1>. QED
  BY <1>9, <1>10

\* new_process, enough memory but not in one block.
LEMMA CompactStep ==
  ASSUME IInv, NEW n \in Requests, CompactAndDrop(n)
  PROVE  IInv'
<1>1. PICK t \in Sorted(MA_FF, allocated), size \in SizeOf(n) :
        /\ allocated' = Moved(t)
        /\ \E G \in TakeIfFits(CompactedFree(t), size) : SetFree(G)
  BY DEF CompactAndDrop
<1>2. /\ UNCHANGED <<mem_size, ma_algorithm, status, zero_made>> /\ status = "run"
      /\ ret' = -1 /\ pid' = pid + 1 /\ flag' = 1 /\ pid < MaxPid
  BY DEF CompactAndDrop, NewProcess
<1>. DEFINE M == Moved(t)
            C == CompactedFree(t)
            i == Fit(C, size)
<1>3. /\ M \in Seq(AllocBlock) /\ DistinctPids(M) /\ \A k \in DOMAIN M : M[k].pid <= pid
      /\ Positive(allocated) => Positive(M)
      /\ C \in FreeLists /\ LayoutOf(C.list, M, mem_size) /\ SortedFor(ma_algorithm, C.list)
      /\ Positive(C.list) /\ Unmergeable(C.list)
  BY CompactedIs
<1>4. size \in Nat /\ ma_algorithm \in Algorithms /\ mem_size \in Nat
  BY SizeOfIs, IInvGives
<1>5. PICK G \in TakeIfFits(C, size) : free_block' = G.list /\ free_block_len' = G.len
  BY <1>1 DEF SetFree
<1>6. allocated' = M
  BY <1>1
<1>7. G = C \/ (i # 0 /\ G \in TakeFrom(C, i, size))
  BY <1>5 DEF TakeIfFits
<1>. HIDE DEF M, C
<1>8. /\ G \in FreeLists /\ LayoutOf(G.list, M, mem_size) /\ SortedFor(ma_algorithm, G.list)
      /\ Positive(G.list) /\ Unmergeable(G.list)
  <2>1. CASE G = C
    BY <1>3, <2>1
  <2>2. CASE i # 0 /\ G \in TakeFrom(C, i, size)
    <3>1. i \in DOMAIN C.list /\ C.list[i].size >= size
      BY <1>3, <2>2, FitIs
    <3>2. C.list[i].size \in Nat /\ size <= C.list[i].size
      BY <1>3, <1>4, <3>1, FreeBlocksIs DEF IsBlock
    <3>3. AllApart(C.list) /\ AllocBlocks(M)
      BY <1>3, AllocBlocksIs DEF LayoutOf
    <3>. HIDE DEF i
    <3>4. LayoutOf(G.list, M, mem_size)
      BY <1>3, <1>4, <2>2, <3>1, <3>2, <3>3, TakeLayout
    <3>5. /\ G \in FreeLists /\ SortedFor(ma_algorithm, G.list)
          /\ Positive(C.list) => Positive(G.list)
          /\ Positive(C.list) /\ Unmergeable(C.list) => Unmergeable(G.list)
      BY <1>3, <1>4, <2>2, <3>1, <3>2, <3>3, TakeFromIs
    <3>. QED
      BY <1>3, <3>4, <3>5
  <2>. QED
    BY <1>7, <2>1, <2>2
<1>9. ~zero_made => MergedOf(G.list, M)
  BY <1>3, <1>8, Zenon DEF IInv, Merged, MergedOf
<1>10. free_block' \in Seq(Block) /\ free_block_len' \in Nat /\ free_block_len' = Len(free_block')
  BY <1>5, <1>8 DEF FreeLists
<1>11. Fresh' /\ RecursionNeedsLoss'
  BY <1>2 DEF Fresh, RecursionNeedsLoss
<1>12. /\ pid' \in 0..MaxPid /\ zero_made' \in BOOLEAN /\ mem_size' \in Nat \ {0}
       /\ status' \in {"run", "exit", "overflow"} /\ flag' \in {0, 1} /\ ret' \in {-1, 0, 1, 2}
       /\ ma_algorithm' \in Algorithms
  BY <1>2, <1>4, OtherTypes
<1>13. /\ LayoutOf(free_block', allocated', mem_size') /\ SortedFor(ma_algorithm', free_block')
       /\ ~zero_made' => MergedOf(free_block', allocated')
       /\ allocated' \in Seq(AllocBlock) /\ DistinctPids(allocated')
  BY <1>2, <1>3, <1>5, <1>6, <1>8, <1>9
<1>14. \A k \in DOMAIN allocated' : allocated'[k].pid <= pid'
  <2>1. AllocBlocks(M) /\ pid \in Nat
    BY <1>3, AllocBlocksIs, OtherTypes
  <2>2. \A k \in DOMAIN M : M[k].pid \in Nat /\ M[k].pid <= pid + 1
    BY <1>3, <2>1 DEF AllocBlocks
  <2>. QED
    BY <1>2, <1>6, <2>2
<1>. QED
  BY <1>10, <1>11, <1>12, <1>13, <1>14, IInvNext

\* compact_memory without the memory it needs itself.
LEMMA CompactFailsStep ==
  ASSUME IInv, NEW n \in Requests, CompactFails(n)
  PROVE  IInv'
<1>1. /\ UNCHANGED <<mem_size, ma_algorithm, status, zero_made>> /\ status = "run"
      /\ ret' = -1 /\ pid' = pid + 1 /\ flag' = 1 /\ pid < MaxPid
  BY DEF CompactFails, NewProcess
<1>2. Fresh' /\ RecursionNeedsLoss'
  BY <1>1 DEF Fresh, RecursionNeedsLoss
<1>3. /\ pid' \in pid..MaxPid /\ pid' \in 0..MaxPid /\ zero_made' \in BOOLEAN /\ mem_size' \in Nat \ {0}
      /\ status' \in {"run", "exit", "overflow"} /\ flag' \in {0, 1} /\ ret' \in {-1, 0, 1, 2}
      /\ ma_algorithm' \in Algorithms /\ pid \in Nat
  BY <1>1, OtherTypes, IInvGives
<1>4. CASE UNCHANGED <<allocated, free_block, free_block_len>>
  BY <1>1, <1>2, <1>3, <1>4, UnmovedStep
<1>5. CASE /\ \E t \in Sorted(MA_FF, allocated) : allocated' = Moved(t)
           /\ SetFree([list |-> <<>>, len |-> 0])
  <2>1. PICK t \in Sorted(MA_FF, allocated) : allocated' = Moved(t)
    BY <1>5
  <2>. DEFINE M == Moved(t)
  <2>2. /\ M \in Seq(AllocBlock) /\ DistinctPids(M) /\ \A k \in DOMAIN M : M[k].pid <= pid
        /\ Positive(allocated) => Positive(M)
        /\ LayoutOf(<<>>, M, mem_size)
    BY CompactedIs
  <2>3. allocated' = M
    BY <2>1
  <2>. HIDE DEF M
  <2>4. free_block' = <<>> /\ free_block_len' = 0
    BY <1>5 DEF SetFree
  <2>5. free_block' \in Seq(Block) /\ free_block_len' \in Nat /\ free_block_len' = Len(free_block')
    BY <2>4
  <2>6. Positive(<<>>) /\ Unmergeable(<<>>) /\ SortedFor(ma_algorithm', <<>>)
    BY DEF Positive, Unmergeable, SortedFor
  <2>7. ~zero_made => MergedOf(<<>>, M)
    BY <2>2, <2>6, Zenon DEF IInv, Merged, MergedOf
  <2>8. \A k \in DOMAIN M : M[k].pid \in Nat /\ M[k].pid <= pid + 1
    <3>1. AllocBlocks(M)
      BY <2>2, AllocBlocksIs
    <3>. QED
      BY <1>3, <2>2, <3>1 DEF AllocBlocks
  <2>9. /\ LayoutOf(free_block', allocated', mem_size') /\ SortedFor(ma_algorithm', free_block')
        /\ ~zero_made' => MergedOf(free_block', allocated')
        /\ allocated' \in Seq(AllocBlock) /\ DistinctPids(allocated')
        /\ \A k \in DOMAIN allocated' : allocated'[k].pid <= pid'
    BY <1>1, <2>2, <2>3, <2>4, <2>6, <2>7, <2>8
  <2>. QED
    BY <1>2, <1>3, <2>5, <2>9, IInvNext
<1>. QED
  BY <1>4, <1>5 DEF CompactFails

---------------------------------------------------------------------------
(* The theorems.                                                           *)

\* IInv holds at the start: one block, the whole memory.
LEMMA InitIInv == Init => IInv
<1>. SUFFICES ASSUME Init PROVE IInv
  OBVIOUS
<1>. DEFINE b == [start |-> 0, size |-> DEFAULT_MEM_SIZE]
<1>1. /\ mem_size = DEFAULT_MEM_SIZE /\ ma_algorithm = MA_FF /\ flag = 0 /\ pid = 0
      /\ free_block = <<b>> /\ free_block_len = 1
      /\ allocated = <<>> /\ ret = 0 /\ zero_made = FALSE /\ status = "run"
  BY DEF Init
<1>2. DEFAULT_MEM_SIZE \in Nat \ {0} /\ MaxPid \in Nat /\ b \in Block /\ b.start = 0 /\ b.size = mem_size
  BY <1>1, SizeAssumption DEF Block
<1>f. Fresh
  BY <1>1 DEF Fresh
<1>. HIDE DEF b
<1>3. /\ free_block \in Seq(Block) /\ DOMAIN free_block = {1} /\ free_block[1] = b
      /\ Len(free_block) = 1 /\ allocated \in Seq(AllocBlock) /\ DOMAIN allocated = {}
  BY <1>1, <1>2
<1>4. TypeOK
  <2>1. mem_size \in Nat \ {0} /\ pid \in 0..MaxPid /\ free_block_len \in Nat
    BY <1>1, <1>2
  <2>2. /\ ma_algorithm \in {MA_FF, MA_BF, MA_WF} /\ flag \in {0, 1} /\ ret \in {-1, 0, 1, 2}
        /\ zero_made \in BOOLEAN /\ status \in {"run", "exit", "overflow"}
    BY <1>1
  <2>. QED
    BY <1>3, <2>1, <2>2, Zenon DEF TypeOK, AllocBlock
<1>5. Layout
  <2>1. Inside(b, mem_size)
    BY <1>1, <1>2 DEF Inside
  <2>2. \A i, j \in DOMAIN free_block : i = 1 /\ j = 1
    BY <1>3
  <2>. QED
    BY <1>3, <2>1, <2>2, Zenon DEF Layout, LayoutOf, AllApart
<1>6. Pids /\ RecursionNeedsLoss
  BY <1>1, <1>3 DEF Pids, DistinctPids, RecursionNeedsLoss
<1>7. ListSorted
  BY <1>1, <1>3 DEF ListSorted
<1>8. Merged
  BY <1>1, <1>2, <1>3 DEF Merged, MergedOf, Positive, Unmergeable
<1>. QED
  BY <1>4, <1>5, <1>6, <1>7, <1>8, <1>f DEF IInv

\* A step that changes nothing.
LEMMA StutterStep ==
  ASSUME IInv, UNCHANGED vars
  PROVE  IInv'
<1>1. /\ UNCHANGED <<mem_size, ma_algorithm, free_block, free_block_len, allocated, zero_made>>
      /\ flag' = flag /\ pid' = pid /\ ret' = ret /\ status' = status
  BY DEF vars
<1>2. RecursionNeedsLoss'
  BY <1>1 DEF IInv, RecursionNeedsLoss, CellsOf, Cells
<1>3. /\ pid' \in pid..MaxPid /\ flag' \in {0, 1} /\ (flag' = 0 => flag = 0)
      /\ ret' \in {-1, 0, 1, 2} /\ status' \in {"run", "exit", "overflow"}
  BY <1>1, OtherTypes
<1>. QED
  BY <1>1, <1>2, <1>3, UnmovedStep

\* IInv through every menu entry.
LEMMA NextIInv == IInv /\ [Next]_vars => IInv'
<1>. SUFFICES ASSUME IInv, [Next]_vars PROVE IInv'
  OBVIOUS
<1>1. CASE \E n \in Requests : NoDescriptor(n) \/ Refuse(n)
  BY <1>1, QuietStep
<1>2. CASE \E n \in Requests : Allocate(n)
  BY <1>2, AllocateStep
<1>3. CASE \E n \in Requests : CompactAndDrop(n)
  BY <1>3, CompactStep
<1>4. CASE \E n \in Requests : CompactFails(n)
  BY <1>4, CompactFailsStep
<1>5. CASE \E n \in Requests : RecurseForEver(n)
  BY <1>5, RecurseStep
<1>6. CASE \E q \in 1..MaxPid : KillProcess(q)
  BY <1>6, KillStep
<1>7. CASE \E q \in 1..MaxPid : KillNobody(q)
  BY <1>7, QuietStep
<1>8. CASE \E n \in MemSizes : SetMemSize(n)
  BY <1>8, SetMemSizeStep
<1>9. CASE \E a \in 0..3 : SetAlgorithm(a)
  BY <1>9, SetAlgorithmStep
<1>10. CASE DisplayMemUsage \/ Exit
  BY <1>10, QuietStep
<1>11. CASE Ended \/ UNCHANGED vars
  BY <1>11, StutterStep DEF Ended
<1>. QED
  BY <1>1, <1>2, <1>3, <1>4, <1>5, <1>6, <1>7, <1>8, <1>9, <1>10, <1>11, Zenon DEF Next

\* The inductive invariant of the allocator holds in every reachable state.
THEOREM Invariant == Spec => []IInv
  BY InitIInv, NextIInv, PTL DEF Spec

\* The free list is in the order of the algorithm in use between any two menu
\* entries, and free_block_len is its length.
THEOREM ListOrder == Spec => []ListSorted
<1>1. IInv => ListSorted
  BY DEF IInv
<1>. QED
  BY <1>1, Invariant, PTL

\* allocate_mem recurses for ever only after memory has been lost or a block of
\* size 0 has been given out.
THEOREM RecursionCause == Spec => []RecursionNeedsLoss
<1>1. IInv => RecursionNeedsLoss
  BY DEF IInv
<1>. QED
  BY <1>1, Invariant, PTL

\* Blocks that are apart have no cell in common.
LEMMA ApartCells ==
  ASSUME NEW b, NEW c, IsBlock(b), IsBlock(c), Apart(b, c)
  PROVE  Cells(b) \cap Cells(c) = {}
  BY DEF IsBlock, Apart, Cells

\* A block inside the memory has its cells there.
LEMMA InsideCells ==
  ASSUME NEW b, IsBlock(b), NEW m \in Nat, Inside(b, m)
  PROVE  Cells(b) \subseteq 0..(m - 1)
  BY DEF IsBlock, Inside, Cells

\* No cell is ever in two blocks, free or in use, and no block leaves the
\* memory: for every memory, every sequence of menu entries, every malloc that
\* fails.
THEOREM Disjoint == Spec => []BlocksDisjoint
<1>1. ASSUME IInv PROVE BlocksDisjoint
  <2>. DEFINE all == free_block \o allocated
              n == Len(free_block)
              l == Len(allocated)
  <2>1. /\ free_block \in Seq(Block) /\ allocated \in Seq(AllocBlock) /\ mem_size \in Nat
        /\ AllApart(free_block) /\ AllApart(allocated)
        /\ \A i \in DOMAIN free_block, k \in DOMAIN allocated : Apart(free_block[i], allocated[k])
        /\ \A i \in DOMAIN free_block : Inside(free_block[i], mem_size)
        /\ \A k \in DOMAIN allocated : Inside(allocated[k], mem_size)
    BY <1>1, IInvGives
  <2>2. /\ n \in Nat /\ DOMAIN free_block = 1..n /\ l \in Nat /\ DOMAIN allocated = 1..l
        /\ \A i \in 1..n : IsBlock(free_block[i])
        /\ \A k \in 1..l : IsBlock(allocated[k])
    BY <2>1, BlocksOf, AllocBlocksIs DEF AllocBlocks, IsBlock
  <2>3. DOMAIN all = 1..(n + l)
    <3>1. n \in Nat /\ l \in Nat /\ free_block \in Seq(Block) /\ allocated \in Seq(AllocBlock)
      BY <2>1, <2>2
    <3>. QED
      BY <3>1
  <2>4. \A i \in 1..(n+l) : IF i <= n THEN all[i] = free_block[i] ELSE all[i] = allocated[i - n]
    <3>1. n \in Nat /\ l \in Nat /\ free_block \in Seq(Block) /\ allocated \in Seq(AllocBlock)
      BY <2>1, <2>2
    <3>. QED
      BY <3>1
  <2>. HIDE DEF all, n, l
  <2>5. \A i \in 1..(n+l) : \/ i \in 1..n /\ all[i] = free_block[i]
                            \/ i - n \in 1..l /\ all[i] = allocated[i-n]
    BY <2>2, <2>4
  <2>6. \A i \in 1..(n+l) : IsBlock(all[i]) /\ Inside(all[i], mem_size)
    BY <2>1, <2>2, <2>5
  <2>7. ASSUME NEW i \in 1..(n+l), NEW j \in 1..(n+l), i # j PROVE Apart(all[i], all[j])
    <3>0. \A b, c : Apart(b, c) => Apart(c, b)
      BY DEF Apart
    <3>1. CASE i \in 1..n /\ all[i] = free_block[i] /\ j \in 1..n /\ all[j] = free_block[j]
      BY <2>1, <2>2, <2>7, <3>1 DEF AllApart
    <3>2. CASE i \in 1..n /\ all[i] = free_block[i] /\ j - n \in 1..l /\ all[j] = allocated[j-n]
      BY <2>1, <2>2, <3>2
    <3>3. CASE i - n \in 1..l /\ all[i] = allocated[i-n] /\ j \in 1..n /\ all[j] = free_block[j]
      BY <2>1, <2>2, <3>0, <3>3
    <3>4. CASE i - n \in 1..l /\ all[i] = allocated[i-n] /\ j - n \in 1..l /\ all[j] = allocated[j-n]
      <4>1. i - n # j - n
        BY <2>2, <2>7
      <4>. QED
        BY <2>1, <2>2, <3>4, <4>1 DEF AllApart
    <3>. QED
      BY <2>5, <3>1, <3>2, <3>3, <3>4
  <2>8. \A i, j \in DOMAIN all : /\ Cells(all[i]) \subseteq 0..(mem_size - 1)
                                 /\ i # j => Cells(all[i]) \cap Cells(all[j]) = {}
    BY <2>1, <2>3, <2>6, <2>7, ApartCells, InsideCells
  <2>9. TypeOK
    BY <1>1 DEF IInv
  <2>. QED
    BY <2>8, <2>9, Zenon DEF BlocksDisjoint, all
<1>. QED
  BY <1>1, Invariant, PTL

\* Only new_process makes the list of processes longer, only kill_process makes
\* it shorter.
LEMMA WhoChangesAllocated ==
  ASSUME IInv, [Next]_vars
  PROVE  /\ Len(allocated') > Len(allocated) => \E n \in Requests : Allocate(n)
         /\ Len(allocated') < Len(allocated) => \E q \in 1..MaxPid : KillProcess(q)
<1>1. allocated \in Seq(AllocBlock)
  BY IInvGives
<1>2. Len(allocated) \in Nat
  BY <1>1
<1>3. CASE UNCHANGED allocated
  BY <1>2, <1>3
<1>4. CASE \E t \in Sorted(MA_FF, allocated) : allocated' = Moved(t)
  <2>1. PICK t \in Sorted(MA_FF, allocated) : allocated' = Moved(t)
    BY <1>4
  <2>2. Len(Moved(t)) = Len(allocated)
    BY CompactedIs
  <2>. QED
    BY <1>2, <2>1, <2>2
<1>5. CASE \E n \in Requests : Allocate(n)
  <2>1. PICK n \in Requests : Allocate(n)
    BY <1>5
  <2>2. PICK size \in SizeOf(n) :
          allocated' = <<[pid |-> pid + 1, size |-> size, start |-> free_block[Fit(F, size)].start]>> \o allocated
    BY <2>1 DEF Allocate
  <2>. DEFINE new == [pid |-> pid + 1, size |-> size, start |-> free_block[Fit(F, size)].start]
  <2>3. allocated' = <<new>> \o allocated
    BY <2>2
  <2>. HIDE DEF new
  <2>. DEFINE X == AllocBlock \cup {new}
  <2>4. allocated \in Seq(X) /\ new \in X
    BY <1>1
  <2>. HIDE DEF X
  <2>5. Len(<<new>> \o allocated) = Len(allocated) + 1
    BY <2>4, InsertIs
  <2>. QED
    BY <1>2, <1>5, <2>3, <2>5
<1>6. CASE \E q \in 1..MaxPid : KillProcess(q)
  <2>1. PICK k \in DOMAIN allocated : allocated' = RemoveAt(allocated, k)
    BY <1>6 DEF KillProcess
  <2>2. Len(RemoveAt(allocated, k)) = Len(allocated) - 1
    BY DisposeIs
  <2>. QED
    BY <1>2, <1>6, <2>1, <2>2
<1>7. CASE Next
  <2>1. CASE \E n \in Requests : CompactAndDrop(n) \/ CompactFails(n)
    BY <1>3, <1>4, <2>1 DEF CompactAndDrop, CompactFails
  <2>2. CASE \E n \in Requests : NoDescriptor(n) \/ Refuse(n) \/ RecurseForEver(n)
    BY <1>3, <2>2 DEF NoDescriptor, Refuse, RecurseForEver
  <2>3. CASE \/ \E q \in 1..MaxPid : KillNobody(q)
             \/ \E n \in MemSizes : SetMemSize(n)
             \/ \E a \in 0..3 : SetAlgorithm(a)
             \/ DisplayMemUsage \/ Exit \/ Ended
    BY <1>3, <2>3 DEF KillNobody, SetMemSize, SetAlgorithm, DisplayMemUsage, Exit, Ended, vars
  <2>. QED
    BY <1>5, <1>6, <1>7, <2>1, <2>2, <2>3, Zenon DEF Next
<1>8. CASE UNCHANGED vars
  BY <1>3, <1>8 DEF vars
<1>. QED
  BY <1>7, <1>8

\* A process that is allocated gets the right block.
LEMMA FitStep ==
  ASSUME IInv, [Next]_vars
  PROVE  RightBlockTaken
<1>. SUFFICES ASSUME Len(allocated') > Len(allocated), allocated'[1].size > 0
              PROVE  LET new  == allocated'[1]
                         fits == {i \in DOMAIN free_block : free_block[i].size >= new.size}
                     IN  \E i \in fits :
                           /\ free_block[i].start = new.start
                           /\ \A j \in fits : AtLeastAsGood(ma_algorithm, free_block[i], free_block[j])
  BY DEF RightBlockTaken
<1>1. PICK n \in Requests : Allocate(n)
  BY WhoChangesAllocated
<1>2. PICK size \in SizeOf(n) :
        /\ Fit(F, size) # 0
        /\ allocated' = <<[pid |-> pid + 1, size |-> size,
                           start |-> free_block[Fit(F, size)].start]>> \o allocated
  BY <1>1 DEF Allocate
<1>. DEFINE i == Fit(F, size)
            new == [pid |-> pid + 1, size |-> size, start |-> free_block[i].start]
<1>3. allocated' = <<new>> \o allocated /\ new.size = size /\ new.start = free_block[i].start
  BY <1>2
<1>4. /\ allocated \in Seq(AllocBlock) /\ F \in FreeLists /\ F.list = free_block
      /\ SortedFor(ma_algorithm, free_block) /\ free_block \in Seq(Block)
  BY IInvGives
<1>5. /\ i \in DOMAIN free_block /\ free_block[i].size >= size
      /\ \A j \in DOMAIN free_block : free_block[j].size >= size => i <= j
  BY <1>2, <1>4, FitIs
<1>. HIDE DEF i, new
<1>6. allocated'[1] = new
  <2>. DEFINE X == AllocBlock \cup {new}
  <2>1. allocated \in Seq(X) /\ new \in X
    BY <1>4
  <2>. HIDE DEF X
  <2>2. (<<new>> \o allocated)[1] = new
    BY <2>1, InsertIs
  <2>. QED
    BY <1>3, <2>2
<1>7. size \in Nat /\ size > 0
  BY <1>3, <1>6, SizeOfIs
<1>8. /\ Len(free_block) \in Nat /\ DOMAIN free_block = 1..Len(free_block)
      /\ \A j \in 1..Len(free_block) : IsBlock(free_block[j])
  BY <1>4, BlocksOf DEF IsBlock
<1>9. ASSUME NEW j \in DOMAIN free_block, free_block[j].size >= size
      PROVE  AtLeastAsGood(ma_algorithm, free_block[i], free_block[j])
  <2>1. IsBlock(free_block[i]) /\ IsBlock(free_block[j]) /\ free_block[i].size > 0 /\ free_block[j].size > 0
    BY <1>5, <1>7, <1>8, <1>9 DEF IsBlock
  <2>2. CASE i = j
    BY <2>1, <2>2 DEF AtLeastAsGood, IsBlock
  <2>3. CASE i < j
    BY <1>4, <1>5, <2>1, <2>3 DEF SortedFor
  <2>. QED
    BY <1>5, <1>8, <1>9, <2>2, <2>3
<1>. QED
  BY <1>3, <1>5, <1>6, <1>9

\* First, best and worst fit find the lowest, the smallest and the largest
\* block that fits, after any sequence of menu entries.
THEOREM FitCorrect == Spec => FitIsRight
<1>1. IInv /\ [Next]_vars => [RightBlockTaken]_vars
  BY FitStep
<1>. QED
  BY <1>1, Invariant, PTL DEF Spec, FitIsRight

\* What a kill does to the lists.
LEMMA KillIs ==
  ASSUME IInv, [Next]_vars, Len(allocated') < Len(allocated)
  PROVE  \E k \in DOMAIN allocated :
           /\ allocated' = RemoveAt(allocated, k)
           /\ \/ \E G \in free_mem(allocated[k]) : free_block' = G.list
              \/ MallocFails /\ free_block' = free_block
<1>1. PICK q \in 1..MaxPid : KillProcess(q)
  BY WhoChangesAllocated
<1>. QED
  BY <1>1 DEF KillProcess, SetFree

\* A kill leaves no two neighbours free.
LEMMA MergeStep ==
  ASSUME IInv, [Next]_vars
  PROVE  NeighboursJoined
<1>. SUFFICES ASSUME Len(allocated') < Len(allocated), free_block' # free_block,
                     Positive(free_block), Positive(allocated)
              PROVE  Unmergeable(free_block')
  BY Zenon DEF NeighboursJoined, Positive, Unmergeable
<1>1. PICK k \in DOMAIN allocated : \E G \in free_mem(allocated[k]) : free_block' = G.list
  BY KillIs
<1>2. PICK G \in free_mem(allocated[k]) : free_block' = G.list
  BY <1>1
<1>3. allocated[k].size > 0
  BY DEF Positive
<1>4. Unmergeable(G.list)
  BY <1>3, FreeProcessIs
<1>. QED
  BY <1>2, <1>4

\* After a kill no two free blocks are left that touch, if no block of size 0
\* stands between them.
THEOREM MergeCorrect == Spec => FreeMemMerges
<1>1. IInv /\ [Next]_vars => [NeighboursJoined]_vars
  BY MergeStep
<1>. QED
  BY <1>1, Invariant, PTL DEF Spec, FreeMemMerges

\* A kill frees the cells of its process.
LEMMA FreedStep ==
  ASSUME IInv, [Next]_vars
  PROVE  AllFreedOrNone
<1>. SUFFICES ASSUME Len(allocated') < Len(allocated), ~(MallocFails /\ free_block' = free_block)
              PROVE  CellsOf(free_block') = CellsOf(free_block) \cup (CellsOf(allocated) \ CellsOf(allocated'))
  BY Zenon DEF AllFreedOrNone
<1>1. PICK k \in DOMAIN allocated :
        /\ allocated' = RemoveAt(allocated, k)
        /\ \E G \in free_mem(allocated[k]) : free_block' = G.list
  BY KillIs
<1>2. PICK G \in free_mem(allocated[k]) : free_block' = G.list
  BY <1>1
<1>3. CellsOf(G.list) = CellsOf(free_block) \cup Cells(allocated[k])
  BY FreeProcessIs
<1>. DEFINE B == RemoveAt(allocated, k)
<1>4. /\ \A a \in DOMAIN B : \E l \in DOMAIN allocated : l # k /\ B[a] = allocated[l]
      /\ \A l \in DOMAIN allocated : l # k => \E a \in DOMAIN B : B[a] = allocated[l]
  <2>1. allocated \in Seq(AllocBlock)
    BY IInvGives
  <2>2. /\ \A a \in DOMAIN B : B[a] = allocated[Was(k, a)] /\ Was(k, a) \in DOMAIN allocated /\ Was(k, a) # k
        /\ \A l \in DOMAIN allocated : l # k => \E a \in DOMAIN B : Was(k, a) = l
    BY <2>1, RemoveAtIs
  <2>. HIDE DEF B
  <2>. QED
    BY <2>2, Zenon
<1>5. allocated' = B
  BY <1>1
<1>. HIDE DEF B
<1>6. \A l \in DOMAIN allocated : l # k => Cells(allocated[l]) \cap Cells(allocated[k]) = {}
  <2>1. allocated \in Seq(AllocBlock) /\ AllApart(allocated)
    BY IInvGives
  <2>2. \A l \in DOMAIN allocated : IsBlock(allocated[l])
    BY <2>1, AllocBlocksIs DEF AllocBlocks
  <2>. QED
    BY <2>1, <2>2, ApartCells DEF AllApart
<1>7. \A x : x \in CellsOf(allocated) /\ x \notin CellsOf(B) <=> x \in Cells(allocated[k])
  <2>1. TAKE x
  <2>2. x \in CellsOf(allocated) <=> \E l \in DOMAIN allocated : x \in Cells(allocated[l])
    BY InCellsOf
  <2>3. x \in CellsOf(B) <=> \E a \in DOMAIN B : x \in Cells(B[a])
    BY InCellsOf
  <2>4. x \in CellsOf(B) <=> \E l \in DOMAIN allocated : l # k /\ x \in Cells(allocated[l])
    BY <1>4, <2>3
  <2>. QED
    BY <1>6, <2>2, <2>4
<1>8. CellsOf(allocated) \ CellsOf(B) = Cells(allocated[k])
  BY <1>7
<1>. QED
  BY <1>2, <1>3, <1>5, <1>8

\* A kill gives back every cell of the process and no other, or none at all
\* when malloc fails in free_mem.
THEOREM KillCorrect == Spec => KillFreesItsCells
<1>1. IInv /\ [Next]_vars => [AllFreedOrNone]_vars
  BY FreedStep
<1>. QED
  BY <1>1, Invariant, PTL DEF Spec, KillFreesItsCells
=============================================================================
