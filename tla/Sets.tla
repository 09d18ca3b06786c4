--------------------------------- MODULE Sets ---------------------------------
(***************************************************************************)
(* struct/set.c: a set of elements in an open-addressing table.  Elements  *)
(* of a reference class are hashed and compared by what they point to, all *)
(* others by their bits.  A removal leaves a tombstone; before an          *)
(* insertion a table three quarters full is replaced by one twice as       *)
(* large, if there is memory.                                              *)
(*                                                                         *)
(* One caller uses a set at a time and does not change what an element in  *)
(* it points to.  The probe of an insertion has no bound: where it would   *)
(* run for ever, the call does not return.                                 *)
(*                                                                         *)
(* struct/sparseset.c: the entities of a set packed in dense, their places *)
(* in sparse, and their components beside them.  A removal moves the last  *)
(* entity and its component into the hole.                                 *)
(*                                                                         *)
(* One caller uses a set at a time.  The pointer that add returns is used  *)
(* at once: a component is written with the add.                           *)
(*                                                                         *)
(* struct/minheap.c: a binary heap of items with priorities in two arrays  *)
(* that count from 1; here one sequence of [item, prio].  A full heap      *)
(* refuses a push.  Priorities are numbers that compare: a NaN, which the  *)
(* comparisons of the code would let stand anywhere, is left out.          *)
(*                                                                         *)
(* algo/segment_index.c: names of segments, and for every segment the list *)
(* of the places where it stands, <<entry, position>>.  A query is a run of *)
(* segments; it walks the shortest list among those of its segments and     *)
(* looks the others up by binary search.                                    *)
(*                                                                         *)
(* A name is the sequence of its segments, folded and checked already by    *)
(* VariableSlot_foldName, which is not in this repository; its segments are *)
(* one letter long, so that a longer name has more segments and strcmp      *)
(* orders names of one length by their segments.  Entries and positions     *)
(* count from 0, as in the code.                                            *)
(***************************************************************************)
EXTENDS Integers, Sequences, FiniteSets, Bags, BagsExt

-----------------------------------------------------------------------------
(* The hash set *)

HX == INSTANCE SequencesExt

CONSTANTS
  Members,    \* the elements callers hold
  Word,       \* an element as a number
  Block,      \* [type, bytes]: the block it points to; type 0 when it points to none
  FirstRef,   \* the least number that can be a pointer, 4096
  Fnv, Mix,   \* Hash_fnv1a64 of bytes and Hash_murmur3Mix64 of a number
  SlotWidth,  \* 256 to the power of the stride of the list that lists the set
  SetCap,     \* the first capacity: a power of two, at least 4
  SetMax,     \* the largest capacity there is memory for
  NoElement

ASSUME HashSetAssumption ==
  /\ Word \in [Members -> Nat] /\ DOMAIN Block = Members
  /\ SetCap \in Nat \ {0} /\ SetMax \in Nat /\ SlotWidth \in Nat \ {0}
  /\ \A e \in Members : Block[e].type # 0 => Block[e].bytes # <<>>
  /\ NoElement \notin Members

VARIABLES
  table,     \* the slots
  setLive,      \* activeCount
  setCalls,  \* "running", or "hung" in the probe of Set_add
  contents   \* auxiliary: the contents in the set

setVars == <<table, setLive, setCalls, contents>>

SlotEmpty == [state |-> "empty", elem |-> NoElement]
SlotOf(e) == [state |-> "occupied", elem |-> e]
SetCapacity(t) == Cardinality(DOMAIN t)
EmptyTable(cap) == [s \in 0 .. cap - 1 |-> SlotEmpty]

\* computeHash, in a set of a reference class.
PointsToBlock(e) == Word[e] >= FirstRef /\ Block[e].type # 0
ComputeHash(e) ==
  IF Word[e] = 0 THEN 0
  ELSE IF PointsToBlock(e) /\ Block[e].bytes # <<>> THEN Fnv[Block[e].bytes]
  ELSE Mix[Word[e]]

At(t, e, i) == (ComputeHash(e) + i) % SetCapacity(t)
StateAt(t, e, i) == t[At(t, e, i)].state

\* elementsEqual, after the hashes agreed.
ElementsEqual(d, e) ==
  \/ Word[d] = Word[e]
  \/ Word[d] # 0 /\ Word[e] # 0 /\ PointsToBlock(d) /\ PointsToBlock(e) /\ Block[d] = Block[e]
Same(d, e) == ComputeHash(d) = ComputeHash(e) /\ ElementsEqual(d, e)

\* What two equal elements have in common.
Content(e) == IF PointsToBlock(e) THEN Block[e] ELSE [type |-> 0, bytes |-> <<Word[e]>>]
Narrow(e) == Word[e] % SlotWidth
SameAt(t, e, i) == StateAt(t, e, i) = "occupied" /\ Same(t[At(t, e, i)].elem, e)

\* The first of some places in a probe, -1 if there is none.
FirstOf(places) ==
  IF places = {} THEN -1 ELSE CHOOSE i \in places : \A j \in places : i <= j
PlacesOf(t, e, states) == {i \in DOMAIN t : StateAt(t, e, i) \in states}

\* Where a probe for e ends: at an element equal to it or at an empty slot.
EndOf(t, e) == FirstOf(PlacesOf(t, e, {"empty"}) \cup {i \in DOMAIN t : SameAt(t, e, i)})

\* Set_contains: both ends, or every slot seen.
SetContains(t, e) == EndOf(t, e) >= 0 /\ SameAt(t, e, EndOf(t, e))

\* rehash: what is occupied, in slot order, without comparing.
SetRehashed(t, cap) ==
  LET place(new, slot) ==
        IF slot.state # "occupied" THEN new
        ELSE [new EXCEPT ![At(new, slot.elem,
                FirstOf(PlacesOf(new, slot.elem, {"empty", "deleted"})))] = slot]
  IN HX!FoldLeft(place, EmptyTable(cap), [i \in 1 .. SetCapacity(t) |-> t[i - 1]])

SetInit ==
  /\ table = EmptyTable(SetCap)
  /\ setLive = 0 /\ setCalls = "running" /\ contents = {}

LoadOf(cap) == cap - cap \div 4
Before(t) == IF setLive >= LoadOf(SetCapacity(t)) /\ 2 * SetCapacity(t) <= SetMax
             THEN SetRehashed(t, 2 * SetCapacity(t)) ELSE t

\* The place an insertion goes to: the first tombstone met, or the end.
TargetOf(t, e) ==
  LET before == {i \in PlacesOf(t, e, {"deleted"}) : i < EndOf(t, e)} IN
  IF before = {} THEN EndOf(t, e) ELSE FirstOf(before)

\* Set_add in the table t the load test left it with.
AddTo(t, e) ==
  IF EndOf(t, e) < 0
  THEN setCalls' = "hung" /\ table' = t /\ UNCHANGED <<setLive, contents>>
  ELSE IF SameAt(t, e, EndOf(t, e))
  THEN table' = t /\ UNCHANGED <<setLive, setCalls, contents>>
  ELSE /\ table' = [t EXCEPT ![At(t, e, TargetOf(t, e))] = SlotOf(e)]
       /\ setLive' = setLive + 1
       /\ contents' = contents \cup {Content(e)}
       /\ UNCHANGED setCalls

SetAdd(e) == setCalls = "running" /\ AddTo(Before(table), e)

\* Set_remove
SetRemove(e) ==
  /\ setCalls = "running" /\ SetContains(table, e)
  /\ table' = [table EXCEPT ![At(table, e, EndOf(table, e))] =
                 [state |-> "deleted", elem |-> NoElement]]
  /\ setLive' = setLive - 1
  /\ contents' = contents \ {Content(e)}
  /\ UNCHANGED setCalls

SetNext == \E e \in Members : SetAdd(e) \/ SetRemove(e)
SetSpec == SetInit /\ [][SetNext]_setVars

\* Set_toList: the occupied slots in order, each element as wide as a slot of the list.
ToList(t) ==
  LET listed(list, slot) == IF slot.state = "occupied" THEN Append(list, Narrow(slot.elem)) ELSE list
  IN HX!FoldLeft(listed, <<>>, [i \in 1 .. SetCapacity(t) |-> t[i - 1]])

-----------------------------------------------------------------------------
\* Through collisions, tombstones, their reuse, growth and refused growth, the
\* set holds a content when it was added and not removed since, and once: the
\* size says how many, and the list has each of them.  A call that hangs found
\* no empty slot, and then the set is over its load.
SetIsASet ==
  /\ \A e \in Members : SetContains(table, e) <=> Content(e) \in contents
  /\ setLive = Cardinality(contents)
  /\ Len(ToList(table)) = setLive
  /\ HX!ToSet(ToList(table)) \subseteq {Narrow(e) : e \in Members}
  /\ \A c \in contents : \E e \in Members : Content(e) = c /\ Narrow(e) \in HX!ToSet(ToList(table))
  /\ setCalls = "hung" => \A s \in DOMAIN table : table[s].state # "empty"

-----------------------------------------------------------------------------
(* The sparse set *)

CONSTANTS
  MaxEntities,    \* entity ids are 0 .. MaxEntities - 1
  DenseCapacity,
  Components      \* what a caller writes for an entity

ASSUME SparseAssumption ==
  /\ MaxEntities \in Nat /\ DenseCapacity \in Nat
  /\ 0 \in Components

Entity == 0 .. MaxEntities - 1
DensePlace == 0 .. DenseCapacity - 1
Absent == -1

VARIABLES
  sparse,     \* sparse[e]: the place of e, or -1
  dense,      \* dense[p]: the entity at p; what is past the count is stale
  components, \* the component at each place
  spCount,
  members     \* auxiliary: the component last written for each member

sparseVars == <<sparse, dense, components, spCount, members>>

SparseInit ==
  /\ sparse = [e \in Entity |-> Absent]
  /\ dense \in [DensePlace -> {0}]
  /\ components = [p \in DensePlace |-> 0]
  /\ spCount = 0
  /\ members = [e \in {} |-> 0]

\* SparseSet_add of an entity that is there: its own slot again.
AddAgain(e, x) ==
  /\ sparse[e] # Absent
  /\ components' = [components EXCEPT ![sparse[e]] = x]
  /\ members' = [members EXCEPT ![e] = x]
  /\ UNCHANGED <<sparse, dense, spCount>>

\* SparseSet_add of a new one; a full set refuses and changes nothing.
Add(e, x) ==
  /\ sparse[e] = Absent /\ spCount < DenseCapacity
  /\ dense' = [dense EXCEPT ![spCount] = e]
  /\ sparse' = [sparse EXCEPT ![e] = spCount]
  /\ components' = [components EXCEPT ![spCount] = x]
  /\ spCount' = spCount + 1
  /\ members' = [m \in DOMAIN members \cup {e} |-> IF m = e THEN x ELSE members[m]]

LastPlace == spCount - 1
LastEntity == dense[LastPlace]

\* SparseSet_remove: a member that is not last leaves its place to the last.
RemoveEntity(e) ==
  /\ sparse[e] # Absent
  /\ IF sparse[e] = LastPlace
     THEN sparse' = [sparse EXCEPT ![e] = Absent] /\ UNCHANGED <<dense, components>>
     ELSE /\ dense' = [dense EXCEPT ![sparse[e]] = LastEntity]
          /\ sparse' = [sparse EXCEPT ![LastEntity] = sparse[e], ![e] = Absent]
          /\ components' = [components EXCEPT ![sparse[e]] = components[LastPlace]]
  /\ spCount' = LastPlace
  /\ members' = [m \in DOMAIN members \ {e} |-> members[m]]

SparseNext ==
  \E e \in Entity :
    \/ \E x \in Components : AddAgain(e, x) \/ Add(e, x)
    \/ RemoveEntity(e)

SparseSpec == SparseInit /\ [][SparseNext]_sparseVars

SparseTypeOK ==
  /\ sparse \in [Entity -> DensePlace \cup {Absent}]
  /\ dense \in [DensePlace -> Entity \cup {0}]
  /\ components \in [DensePlace -> Components]
  /\ spCount \in 0 .. DenseCapacity

\* The two arrays are inverse to each other below the count, and nothing else
\* is a member.
ArraysAreInverse ==
  /\ \A p \in 0 .. spCount - 1 : dense[p] \in Entity /\ sparse[dense[p]] = p
  /\ \A e \in Entity : sparse[e] # Absent => sparse[e] < spCount /\ dense[sparse[e]] = e

\* contains, get and the dense iteration agree about every entity: each member
\* is met once, with the component last written for it, wherever removals have
\* moved it.
ComponentsFollowEntities ==
  /\ ArraysAreInverse
  /\ DOMAIN members = {e \in Entity : sparse[e] # Absent}
  /\ \A e \in DOMAIN members : components[sparse[e]] = members[e]

-----------------------------------------------------------------------------
(* The heap *)

CONSTANTS HeapCapacity, HeapItems, Priorities

ASSUME HeapAssumption == HeapCapacity \in Nat /\ Priorities \subseteq Int

VARIABLES
  heap,     \* items[1 .. size], priorities[1 .. size]
  pushed,   \* auxiliary: the bag of what was pushed and not popped yet
  popped    \* auxiliary: the last entry popped and what was in the heap then

heapVars == <<heap, pushed, popped>>

HeapInit == heap = <<>> /\ pushed = EmptyBag /\ popped = <<>>

HeapEntry(i, p) == [item |-> i, prio |-> p]

RECURSIVE SiftUp(_, _, _), SiftDown(_, _, _)

\* sift_up: the hole rises while its parent is larger than x.
SiftUp(h, hole, x) ==
  IF hole > 1 /\ x.prio < h[hole \div 2].prio
  THEN SiftUp([h EXCEPT ![hole] = h[hole \div 2]], hole \div 2, x)
  ELSE [h EXCEPT ![hole] = x]

\* The smaller child, the left one of two alike.
SmallerChild(h, hole) ==
  IF 2 * hole + 1 <= Len(h) /\ h[2 * hole + 1].prio < h[2 * hole].prio
  THEN 2 * hole + 1 ELSE 2 * hole

\* sift_down: the hole sinks while its smaller child is smaller than x.
SiftDown(h, hole, x) ==
  IF hole <= Len(h) \div 2 /\ x.prio > h[SmallerChild(h, hole)].prio
  THEN SiftDown([h EXCEPT ![hole] = h[SmallerChild(h, hole)]], SmallerChild(h, hole), x)
  ELSE [h EXCEPT ![hole] = x]

HeapPush(i, p) ==
  /\ Len(heap) < HeapCapacity
  /\ heap' = SiftUp(Append(heap, HeapEntry(i, p)), Len(heap) + 1, HeapEntry(i, p))
  /\ pushed' = BagAdd(pushed, HeapEntry(i, p))
  /\ popped' = <<>>

\* popItem: the last entry takes the root's place and sinks.
HeapPop ==
  LET rest == SubSeq(heap, 1, Len(heap) - 1) IN
  /\ heap # <<>>
  /\ heap' = IF rest = <<>> THEN rest
             ELSE SiftDown([rest EXCEPT ![1] = heap[Len(heap)]], 1, heap[Len(heap)])
  /\ pushed' = BagRemove(pushed, heap[1])
  /\ popped' = <<heap[1], BagToSet(pushed)>>

HeapNext == HeapPop \/ \E i \in HeapItems, p \in Priorities : HeapPush(i, p)

HeapBag == [x \in {heap[k] : k \in DOMAIN heap} |-> Cardinality({k \in DOMAIN heap : heap[k] = x})]

\* What is popped was pushed and not popped before, nothing in the heap then
\* had a smaller priority, and nothing is lost in a sift.
HeapYieldsLeast ==
  /\ pushed = HeapBag
  /\ popped # <<>> => /\ popped[1] \in popped[2]
                      /\ \A x \in popped[2] : popped[1].prio <= x.prio

-----------------------------------------------------------------------------

SS == INSTANCE SequencesExt

CONSTANTS
  Letters,       \* Letters[s]: the rank of segment s in strcmp's order
  NameLengths,   \* the lengths of the names added
  QueryLengths,
  NameMax,       \* SEGMENT_NAME_MAX, in characters
  QueryMax,      \* SEGMENT_QUERY_SEGMENTS_MAX
  Caps,          \* the room a caller of query gives
  MaxEntries

Segments == DOMAIN Letters
Names == UNION {[1 .. n -> Segments] : n \in NameLengths}
Queries == UNION {[1 .. n -> Segments] : n \in QueryLengths}

\* VariableSlot_foldName refuses what has more letters and dots than a name holds.
Folds(name) == 2 * Len(name) - 1 <= NameMax

\* splitFold: a query of more segments than there is room for is cut.
SplitFold(query) ==
  IF Folds(query) THEN SubSeq(query, 1, IF Len(query) < QueryMax THEN Len(query) ELSE QueryMax) ELSE <<>>

VARIABLES
  entries,   \* the rows, [name, segments]: segments is how many were posted
  postings   \* for every segment ever posted, its list

indexVars == <<entries, postings>>

IndexInit == entries = <<>> /\ postings = [s \in {} |-> <<>>]

PostingsOf(s) == IF s \in DOMAIN postings THEN postings[s] ELSE <<>>

\* postSegment for the first k segments of an entry, one after the other.
Posted(entry, name, k) ==
  [s \in DOMAIN postings \cup {name[j] : j \in 1 .. k} |->
     PostingsOf(s) \o [m \in 1 .. Cardinality({j \in 1 .. k : name[j] = s}) |->
       [entry |-> entry,
        pos |-> (CHOOSE j \in 1 .. k :
                   name[j] = s /\ Cardinality({i \in 1 .. j : name[i] = s}) = m) - 1]]]

\* SegmentIndex_add.  With k short of the name the post of segment k + 1 found
\* no memory: the row and what was posted stay, and the caller is answered
\* NONE.  The map may then have a new, empty list for that segment.
AddName(name, k, minted) ==
  LET after == Posted(Len(entries), name, k) IN
  /\ Folds(name)
  /\ Len(entries) < MaxEntries
  /\ entries' = Append(entries, [name |-> name, segments |-> k])
  /\ postings' =
       IF minted /\ name[k + 1] \notin DOMAIN after
       THEN [s \in DOMAIN after \cup {name[k + 1]} |-> IF s \in DOMAIN after THEN after[s] ELSE <<>>]
       ELSE after

\* SegmentIndex_clear; the new row list was allocated.
ClearIndex ==
  /\ entries # <<>>
  /\ entries' = <<>> /\ postings' = [s \in {} |-> <<>>]

IndexNext ==
  \/ \E name \in Names, k \in 0 .. 3 :
       /\ k <= Len(name)
       /\ \E minted \in BOOLEAN : (minted => k < Len(name)) /\ AddName(name, k, minted)
  \/ ClearIndex

-----------------------------------------------------------------------------
(* SegmentIndex_query *)

RECURSIVE LowerBound(_, _, _, _), InsertAll(_, _, _)

\* The first index in lo .. hi of a posting of this entry or a later one.
LowerBound(list, entry, lo, hi) ==
  IF lo >= hi THEN lo
  ELSE LET mid == lo + (hi - lo) \div 2 IN
       IF list[mid + 1].entry < entry THEN LowerBound(list, entry, mid + 1, hi)
       ELSE LowerBound(list, entry, lo, mid)

\* A variant for checking: only the first posting of the entry is looked at.
FindPostingFirst(list, entry, pos) ==
  LET lo == LowerBound(list, entry, 0, Len(list)) IN
  lo < Len(list) /\ list[lo + 1] = [entry |-> entry, pos |-> pos]

\* findPosting: the run of equal entries from there on.
FindPosting(list, entry, pos) ==
  LET lo == LowerBound(list, entry, 0, Len(list)) IN
  \E i \in lo .. Len(list) - 1 :
    /\ list[i + 1].pos = pos
    /\ \A j \in lo .. i : list[j + 1].entry = entry

Exact == 0
Suffix == 1
Contains == 2
TierOf(start, n, segments) ==
  IF n = segments /\ start = 0 THEN Exact
  ELSE IF start + n = segments THEN Suffix ELSE Contains

RECURSIVE NameBefore(_, _)
NameBefore(a, b) ==
  /\ a # <<>>
  /\ \/ Letters[a[1]] < Letters[b[1]]
     \/ a[1] = b[1] /\ NameBefore(Tail(a), Tail(b))

\* matchBefore
MatchBefore(a, b) ==
  LET na == entries[a.entry + 1].name
      nb == entries[b.entry + 1].name
  IN IF a.tier # b.tier THEN a.tier < b.tier
     ELSE IF a.start # b.start THEN a.start < b.start
     ELSE IF Len(na) # Len(nb) THEN Len(na) < Len(nb)
     ELSE NameBefore(na, nb)

\* insertMatch: behind all that do not rank below it; the last of a full
\* array falls out.
Insert(out, m, cap) ==
  LET pos == CHOOSE p \in 0 .. Len(out) :
               /\ \A i \in 1 .. p : ~MatchBefore(m, out[i])
               /\ p < Len(out) => MatchBefore(m, out[p + 1])
      all == SubSeq(out, 1, pos) \o <<m>> \o SubSeq(out, pos + 1, Len(out))
  IN IF pos >= cap THEN out ELSE SubSeq(all, 1, IF Len(out) < cap THEN Len(out) + 1 ELSE cap)

InsertAll(out, ms, cap) ==
  IF ms = <<>> THEN out ELSE InsertAll(Insert(out, Head(ms), cap), Tail(ms), cap)

\* The index, from 0, of the first shortest list.
Rarest(q) ==
  (CHOOSE k \in DOMAIN q :
     /\ \A j \in DOMAIN q : Len(PostingsOf(q[k])) <= Len(PostingsOf(q[j]))
     /\ \A j \in 1 .. k - 1 : Len(PostingsOf(q[j])) > Len(PostingsOf(q[k]))) - 1

\* The matches in the order in which the walk finds them.
Matches(q) ==
  LET rarest == Rarest(q)
      Hit(p) == /\ p.pos >= rarest
                /\ \A k \in 0 .. Len(q) - 1 : FindPosting(PostingsOf(q[k + 1]), p.entry, p.pos - rarest + k)
      hits == SelectSeq(PostingsOf(q[rarest + 1]), Hit)
  IN [i \in DOMAIN hits |->
        [entry |-> hits[i].entry, start |-> hits[i].pos - rarest,
         tier |-> TierOf(hits[i].pos - rarest, Len(q), entries[hits[i].entry + 1].segments)]]

Query(query, cap) ==
  LET q == SplitFold(query)
      found == IF q = <<>> \/ \E k \in DOMAIN q : q[k] \notin DOMAIN postings THEN <<>> ELSE Matches(q)
      out == InsertAll(<<>>, found, cap)
  IN [total |-> Len(found), out |-> out, truncated |-> Len(found) > Len(out)]

-----------------------------------------------------------------------------
\* Where the query stands in the posted part of a name, found by looking at it.
StandsAt(q, e, s) ==
  /\ s + Len(q) <= entries[e].segments
  /\ SubSeq(entries[e].name, s + 1, s + Len(q)) = q

Occurrences(q) ==
  UNION {{[entry |-> e - 1, start |-> s, tier |-> TierOf(s, Len(q), entries[e].segments)] :
            s \in {x \in 0 .. 2 : StandsAt(q, e, x)}} : e \in DOMAIN entries}

\* A query that is a name finds every place where its segments stand in a row, no other and
\* none twice, whichever list is the shortest, however names repeat their
\* segments and whatever an add that ran out of memory has left behind; it
\* keeps the best, in order, and says when it has kept fewer than it found.
QueryIsExact ==
  \A q \in Queries : \A cap \in Caps :
    LET r == Query(q, cap)
        all == IF Folds(q) THEN Occurrences(q) ELSE {}
        kept == SS!ToSet(r.out)
    IN /\ r.total = Cardinality(all)
       /\ r.truncated <=> r.total > cap
       /\ Len(r.out) = Cardinality(kept)
       /\ kept \subseteq all
       /\ Len(r.out) = IF r.total < cap THEN r.total ELSE cap
       /\ \A i, j \in DOMAIN r.out : i < j => ~MatchBefore(r.out[j], r.out[i])
       /\ \A m \in all \ kept, i \in DOMAIN r.out : ~MatchBefore(m, r.out[i])
=============================================================================
