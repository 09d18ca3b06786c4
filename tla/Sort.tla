--------------------------- MODULE Sort ---------------------------
(***************************************************************************)
(* algo/sort.c: the comparison sorts and the radix sorts, on arrays [0 ..  *)
(* n - 1] of elements [key, tag]; the comparator and the radix look at the *)
(* key alone, so the tags tell what moved.  The checks of the arguments    *)
(* and the refused allocation, which leave the array as it was, are left   *)
(* out.                                                                    *)
(*                                                                         *)
(* util/arrays.c: quicksort and binary search over int32 and int64 arrays  *)
(* (one code, written twice).  Position i of the code is data[i].          *)
(*                                                                         *)
(* objects/probable_objects.c and util/random.c: objects with weights in a *)
(* pool of fixed capacity, and one drawn with a chance of its weight in    *)
(* the total.  A slot keeps the running total up to and with it.           *)
(***************************************************************************)
EXTENDS Integers, Sequences, FiniteSets

-----------------------------------------------------------------------------
(* Sorts *)

CONSTANTS
  Cutoff,   \* ranges up to this size are left to the insertion sort, 16
  Radix,    \* the values of one digit of a key, 256
  Passes    \* the digits of a key, 4 or 8

SX == INSTANCE SequencesExt

Size(v) == Cardinality(DOMAIN v)
Below(x, y) == x.key < y.key
Exchange(v, i, j) == [v EXCEPT ![i] = v[j], ![j] = v[i]]

\* A loop over lo, lo + 1 .. hi, or hi, hi - 1 .. lo: each turn remakes the array.
Upwards(lo, hi, v, Turn(_, _)) == SX!FoldLeft(Turn, v, [i \in 1 .. hi - lo + 1 |-> lo + i - 1])
Downwards(hi, lo, v, Turn(_, _)) == SX!FoldLeft(Turn, v, [i \in 1 .. hi - lo + 1 |-> hi - i + 1])

RECURSIVE Sink(_, _, _), SiftRoot(_, _, _, _), QuickRange(_, _, _, _), MergeRuns(_, _),
          Bubbles(_, _)

\* The inner loop of the insertion sort.
Sink(v, begin, i) ==
  IF i > begin /\ Below(v[i], v[i - 1]) THEN Sink(Exchange(v, i, i - 1), begin, i - 1) ELSE v

\* insertionSortRange on [begin, end)
InsertionRange(v, begin, end) ==
  Upwards(begin + 1, end - 1, v, LAMBDA w, i : Sink(w, begin, i))
InsertionSort(v) == InsertionRange(v, 0, Size(v))

\* The first of the least from here on changes places with this one.
SelectionSort(v) ==
  Upwards(0, Size(v) - 1, v, LAMBDA w, first :
    Exchange(w, first,
      CHOOSE m \in first .. Size(v) - 1 :
        /\ \A c \in first .. Size(v) - 1 : ~Below(w[c], w[m])
        /\ \A c \in first .. m - 1 : Below(w[m], w[c])))

\* Bubble sort: passes over a shorter and shorter front, until one changes nothing.
Bubbles(v, unsorted) ==
  LET after == Upwards(1, unsorted - 1, v,
                 LAMBDA w, i : IF Below(w[i], w[i - 1]) THEN Exchange(w, i, i - 1) ELSE w)
  IN IF unsorted <= 1 \/ after = v THEN v ELSE Bubbles(after, unsorted - 1)
BubbleSort(v) == Bubbles(v, Size(v))

\* siftDown on the heap of count elements that begins at base.
SiftRoot(v, base, root, count) ==
  LET left == 2 * root + 1
      child == IF left + 1 < count /\ Below(v[base + left], v[base + left + 1])
               THEN left + 1 ELSE left
  IN IF root >= count \div 2 \/ ~Below(v[base + root], v[base + child]) THEN v
     ELSE SiftRoot(Exchange(v, base + root, base + child), base, child, count)

\* heapSortRange on [begin, end)
HeapRange(v, begin, end) ==
  LET n == end - begin
      heap == Downwards(n \div 2 - 1, 0, v, LAMBDA w, parent : SiftRoot(w, begin, parent, n))
  IN Downwards(n, 2, heap, LAMBDA w, remaining :
       SiftRoot(Exchange(w, begin, begin + remaining - 1), begin, 0, remaining - 1))
HeapSort(v) == HeapRange(v, 0, Size(v))

\* partitionRange on [begin, end): the middle of three goes to the end and is
\* the pivot; <<array, boundary>>.
Ordered(v, i, j) == IF Below(v[j], v[i]) THEN Exchange(v, i, j) ELSE v
Partition(v, begin, end) ==
  LET last == end - 1
      middle == begin + (last - begin) \div 2
      three == Ordered(Ordered(Ordered(v, begin, middle), middle, last), begin, middle)
      start == Exchange(three, middle, last)
      done == SX!FoldLeft(
                LAMBDA s, c : IF Below(s[1][c], s[1][last])
                              THEN <<Exchange(s[1], s[2], c), s[2] + 1>> ELSE s,
                <<start, begin>>, [i \in 1 .. last - begin |-> begin + i - 1])
  IN <<Exchange(done[1], done[2], last), done[2]>>

\* quickSortRange on [begin, end): the two parts are disjoint, so which of them
\* is recursive and which goes round the loop is all one.
QuickRange(v, begin, end, depth) ==
  IF end - begin <= Cutoff THEN InsertionRange(v, begin, end)
  ELSE IF depth = 0 THEN HeapRange(v, begin, end)
  ELSE LET p == Partition(v, begin, end) IN
       QuickRange(QuickRange(p[1], begin, p[2], depth - 1), p[2] + 1, end, depth - 1)

\* Sort_quickSort starts with twice the logarithm; a smaller limit is what a
\* larger array has left further down.
QuickSort(v, depth) == QuickRange(v, 0, Size(v), depth)

\* A variant for checking: of two alike the right one is taken first.
MergeRightFirst(a, b) ==
  LET m[i \in 0 .. Len(a), j \in 0 .. Len(b)] ==
        IF i = Len(a) THEN SubSeq(b, j + 1, Len(b))
        ELSE IF j = Len(b) THEN SubSeq(a, i + 1, Len(a))
        ELSE IF Below(a[i + 1], b[j + 1]) THEN <<a[i + 1]>> \o m[i + 1, j]
        ELSE <<b[j + 1]>> \o m[i, j + 1]
  IN m[0, 0]

Merge(a, b) ==
  LET m[i \in 0 .. Len(a), j \in 0 .. Len(b)] ==
        IF i = Len(a) THEN SubSeq(b, j + 1, Len(b))
        ELSE IF j = Len(b) THEN SubSeq(a, i + 1, Len(a))
        ELSE IF ~Below(b[j + 1], a[i + 1]) THEN <<a[i + 1]>> \o m[i + 1, j]
        ELSE <<b[j + 1]>> \o m[i, j + 1]
  IN m[0, 0]

\* Sort_mergeSort from the bottom up: runs of this length, two by two.
MergeRuns(s, run) ==
  LET n == Len(s)
      Piece(from, to) == SubSeq(s, from + 1, IF to < n THEN to ELSE n)
      pairs == (n + 2 * run - 1) \div (2 * run)
      merged == SX!FlattenSeq([k \in 1 .. pairs |->
                  Merge(Piece(2 * run * (k - 1), 2 * run * (k - 1) + run),
                        Piece(2 * run * (k - 1) + run, 2 * run * k))])
  IN IF run >= n THEN s ELSE MergeRuns(merged, IF run > n \div 2 THEN n ELSE run * 2)

FromZero(s) == [i \in 0 .. Len(s) - 1 |-> s[i + 1]]
ToSeq(v) == [i \in 1 .. Size(v) |-> v[i - 1]]
MergeSort(v) == FromZero(MergeRuns(ToSeq(v), 1))

\* One pass of the radix sorts, by the digit of this weight: an element goes
\* to the offset of its bucket, behind those of its bucket that came before.
RadixPass(v, weight) ==
  LET Bucket(i) == (v[i].key \div weight) % Radix
      Target(i) == Cardinality({j \in DOMAIN v : Bucket(j) < Bucket(i)})
                     + Cardinality({j \in DOMAIN v : j < i /\ Bucket(j) = Bucket(i)})
  IN [t \in DOMAIN v |-> v[CHOOSE i \in DOMAIN v : Target(i) = t]]
RadixSort(v) == Upwards(0, Passes - 1, v, LAMBDA w, pass : RadixPass(w, Radix ^ pass))

\* Sort_partitionInt32
PartitionBy(v, pivot) ==
  SX!FoldLeft(LAMBDA s, i : IF s[1][i].key < pivot THEN <<Exchange(s[1], s[2], i), s[2] + 1>> ELSE s,
              <<v, 0>>, [i \in 1 .. Size(v) |-> i - 1])

-----------------------------------------------------------------------------
IsSorted(v) == \A i, j \in DOMAIN v : i < j => ~Below(v[j], v[i])
\* The elements are told apart by their tags.
SameElements(v, w) == {v[i] : i \in DOMAIN v} = {w[i] : i \in DOMAIN w}
\* Elements alike keep their order; tags count in the order of the input.
IsStable(v) == \A i, j \in DOMAIN v : i < j /\ v[i].key = v[j].key => v[i].tag < v[j].tag

\* Every sort orders the array and loses nothing, the quick sort also when its
\* limit sends it to the heap; the radix sorts, as sort.h says, and those that
\* compare neighbours or merge keep what is alike in its order; the partition
\* puts what is below the pivot before its boundary and the rest behind it.
SortsSort(v) ==
  LET stable == {InsertionSort(v), BubbleSort(v), MergeSort(v), RadixSort(v)}
      others == {SelectionSort(v), HeapSort(v)} \cup {QuickSort(v, d) : d \in 0 .. 2}
  IN /\ \A w \in stable \cup others : DOMAIN w = DOMAIN v /\ IsSorted(w) /\ SameElements(v, w)
     /\ \A w \in stable : IsStable(w)
     /\ \A pivot \in {v[i].key : i \in DOMAIN v} :
          LET p == PartitionBy(v, pivot) IN
          /\ SameElements(v, p[1])
          /\ \A i \in DOMAIN v : p[1][i].key < pivot <=> i < p[2]

-----------------------------------------------------------------------------
(* Arrays of integers *)

\* swap_int, swap_long.
SwappedInts(data, i, j) == [data EXCEPT ![i] = data[j], ![j] = data[i]]

\* partition_int, partition_long: the array after the scan up to j and where the
\* next small element goes; the pivot moves there at the end.
PartitionInts(data, low, high) ==
  LET scan[j \in low .. high] ==
        IF j = low THEN [data |-> data, at |-> low]
        ELSE LET s == scan[j - 1] IN
             IF s.data[j - 1] <= data[high]
             THEN [data |-> SwappedInts(s.data, s.at, j - 1), at |-> s.at + 1]
             ELSE s
      end == scan[high]
  IN [data |-> SwappedInts(end.data, end.at, high), at |-> end.at]

RECURSIVE Quicksort(_, _, _), Search(_, _, _, _)
\* quicksort_int, quicksort_long: an index is never negative, so neither side is
\* entered past the end of the array.
Quicksort(data, low, high) ==
  IF low >= high THEN data
  ELSE LET p == PartitionInts(data, low, high)
           left == IF p.at > low THEN Quicksort(p.data, low, p.at - 1) ELSE p.data
       IN IF p.at < high THEN Quicksort(left, p.at + 1, high) ELSE left

\* Arrays_sortInt, Arrays_sortLong.
SortInt(data, n) == IF n <= 1 THEN data ELSE Quicksort(data, 0, n - 1)

\* Arrays_binarySearchInt, Arrays_binarySearchLong: an index of the key, or the
\* place it would go to, as -(place + 1).
Search(data, key, low, high) ==
  IF low >= high THEN -(low + 1)
  ELSE LET mid == low + (high - low) \div 2 IN
       CASE data[mid] < key -> Search(data, key, mid + 1, high)
         [] data[mid] > key -> Search(data, key, low, mid)
         [] OTHER -> mid
\* A variant of it: the last element is left out.
BinarySearchShort(data, n, key) == Search(data, key, 0, n - 1)
BinarySearch(data, n, key) == Search(data, key, 0, n)

-----------------------------------------------------------------------------
\* The array is ordered and has what it had as often as before; a key that is
\* there is found, and one that is not belongs right where the answer says.
ArraysAgree(data, n, keys) ==
  LET sorted == SortInt(data, n)
      often(a, k) == Cardinality({i \in 0 .. n - 1 : a[i] = k})
  IN /\ \A i, j \in 0 .. n - 1 : i < j => sorted[i] <= sorted[j]
     /\ \A i \in 0 .. n - 1 : often(sorted, data[i]) = often(data, data[i])
     /\ \A k \in keys :
          LET at == BinarySearch(sorted, n, k) IN
          IF often(data, k) > 0 THEN at \in 0 .. n - 1 /\ sorted[at] = k
          ELSE -at - 1 = Cardinality({i \in 0 .. n - 1 : data[i] < k})

-----------------------------------------------------------------------------
(* Weighted choice *)

CONSTANT WeightMax   \* UINT32_MAX, the largest total

EmptyPool(capacity) == [capacity |-> capacity, slots |-> <<>>, total |-> 0]
Nothing == 0

Refused(pool, weight) ==
  \/ Len(pool.slots) >= pool.capacity
  \/ weight > WeightMax - pool.total

\* ProbableObjects_add, refused when the pool is full or the total would overflow.
Add(pool, object, weight) ==
  IF Refused(pool, weight) THEN pool
  ELSE LET running == pool.total + weight IN
       [pool EXCEPT !.slots = Append(@, [object |-> object, cumulative |-> running, weight |-> weight]),
                    !.total = running]

RECURSIVE SlotOf(_, _, _, _)
\* A variant of it: a slot without weight owns the target of the slot before it.
SlotOfBefore(pool, target, low, high) ==
  IF low >= high THEN low
  ELSE LET mid == (low + high) \div 2 IN
       IF pool.slots[mid + 1].cumulative < target THEN SlotOf(pool, target, mid + 1, high)
       ELSE SlotOf(pool, target, low, mid)
\* The binary search over the running totals.
SlotOf(pool, target, low, high) ==
  IF low >= high THEN low
  ELSE LET mid == (low + high) \div 2 IN
       IF pool.slots[mid + 1].cumulative <= target THEN SlotOf(pool, target, mid + 1, high)
       ELSE SlotOf(pool, target, low, mid)

\* Random_probablePool, for the non-negative number the generator gives.
Drawn(pool, val) ==
  LET n == Len(pool.slots) IN
  CASE n = 0 -> Nothing
    [] n > 0 /\ pool.total = 0 -> pool.slots[(val % n) + 1].object
    [] OTHER -> pool.slots[SlotOf(pool, val % pool.total, 0, n - 1) + 1].object

\* Random_getWeight and Random_sample: the generator gives a number, val, only for a
\* weight that leaves the answer open.
IsOpen(weight, total) == weight \in 1 .. total - 1
GetWeight(val, weight, total) ==
  IF IsOpen(weight, total) THEN val % total < weight ELSE total # 0 /\ weight >= total
Sampled(val, probable) ==
  IF GetWeight(val, probable.weight, probable.total) THEN probable.object ELSE Nothing

-----------------------------------------------------------------------------
\* Of as many numbers in a row as the total, each object is drawn by as many as it
\* was given weight; all alike when none was given any.  One object is sampled by as many of
\* the numbers as its weight, and of all or none without the generator.
ChanceIsWeight(pool) ==
  LET n == Len(pool.slots)
      slot(val) == CHOOSE i \in 1 .. n : pool.slots[i].object = Drawn(pool, val)
      chance(i) == {val \in 0 .. pool.total - 1 : slot(val) = i}
      size(S) == IF S = {} THEN 0
                 ELSE 1 + (CHOOSE x \in S : \A y \in S : y <= x) - (CHOOSE x \in S : \A y \in S : x <= y)
  IN /\ n <= pool.capacity /\ pool.total <= WeightMax
     /\ n = 0 => Drawn(pool, 7) = Nothing
     /\ n > 0 /\ pool.total = 0 => {slot(val) : val \in 0 .. n - 1} = 1 .. n
     /\ \A i \in 1 .. n : pool.total > 0 => size(chance(i)) = pool.slots[i].weight
     /\ \A i \in 1 .. n, total \in 0 .. WeightMax :
          LET alone == [object |-> pool.slots[i].object, weight |-> pool.slots[i].weight, total |-> total]
              hits == {val \in 3 .. 2 + total : Sampled(val, alone) = alone.object}
          IN /\ Cardinality(hits) = IF alone.weight > total THEN total ELSE alone.weight
             /\ ~IsOpen(alone.weight, total) => Cardinality({Sampled(val, alone) : val \in 0 .. 9}) = 1
=============================================================================
