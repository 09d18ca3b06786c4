---------------------------- MODULE ChunkedList ----------------------------
(***************************************************************************)
(* struct/chunked_list.c: rows in leaves that never move, reached through  *)
(* a root that is replaced by a larger copy when it is full and through    *)
(* internal nodes of fixed radix.  Writers hold the gate, a spin lock taken *)
(* with a deadline; readers take no lock.                                  *)
(*                                                                         *)
(* Memory is a sequence of objects, each an array of pointers: a root has  *)
(* its slots, an internal node its children, a leaf its tail link.  The    *)
(* pointer to object o is o, and 0 is null.  A step is one access that     *)
(* another thread can see.                                                 *)
(***************************************************************************)
EXTENDS SpinLock, SequencesExt

CONSTANTS
  Readers,   \* the threads that read; the others, Threads, write
  Orders,    \* the numbers paged may be asked with
  Budgets,   \* the bytes of a leaf that callers may ask for
  Stride,    \* bytes of a row
  MinBytes,  \* the least budget, 16
  PageBytes, \* VEX_CHUNKED_PAGE_BYTES, 4096
  InternalRadix, \* VEX_CHUNKED_INTERNAL_RADIX_DEFAULT, 512
  Reserves,  \* the rows reserve may ask for
  DirInit,   \* VEX_CHUNKED_DIR_INIT, 64
  MaxIndex   \* UINT32_MAX

ASSUME ListAssumption ==
  /\ DirInit \in Nat \ {0} /\ MaxIndex \in Nat \ {0}
  /\ Budgets \subseteq Nat /\ Reserves \subseteq 0 .. MaxIndex
  /\ \A order \in Orders : order \in Seq(Int)
  /\ Stride \in Nat \ {0} /\ MinBytes \in Nat /\ PageBytes \in Nat /\ InternalRadix \in Nat \ {0}

VARIABLES
  mem,        \* every object, in the order of allocation; never freed
  roots,      \* the generations of the root; directory is the last
  shape,      \* radices[1 ..]
  chunkCount, \* published leaves
  committed,  \* published rows
  handed,     \* auxiliary: the rows addSlot has returned, <<leaf, offset>>
  wr,         \* where each writer is, and its locals
  rd          \* where each reader is, and its locals

listVars == <<mem, roots, shape, chunkCount, committed, handed>>
vars == <<lockVars, listVars, wr, rd>>

AtLeast(least, n) == IF n < least THEN least ELSE n

\* No odd number but 1 divides it.
IsPow2(p) == \A q \in 3 .. p : p % q = 0 => q % 2 = 0

\* The largest power of two that is not above n, at least 1.
Pow2Floor(n) == Max({p \in 1 .. AtLeast(1, n) : IsPow2(p)})

\* Rows of a leaf of so many bytes.
Pow2Rows(bytes) == Pow2Floor(AtLeast(MinBytes, bytes) \div Stride)
PageLeafRows == Pow2Floor(PageBytes \div Stride)

\* ChunkedList_paged: a negative first number asks for a preset of two or three
\* levels, of which later numbers replace their own; without a preset a number
\* that is not positive is the least there can be.
ThreeLayers == -2
PagedRadices(order) ==
  LET preset == order # <<>> /\ order[1] < 0
      levels == IF preset THEN IF order[1] = ThreeLayers THEN 3 ELSE 2 ELSE AtLeast(2, Len(order))
      least(d) == IF d = 1 THEN DirInit
                  ELSE IF ~preset THEN 1
                  ELSE IF d = levels THEN PageLeafRows ELSE InternalRadix
  IN [d \in 1 .. levels |-> IF d \in DOMAIN order /\ order[d] > 0 THEN order[d] ELSE least(d)]

\* buildPaged: every radix is a power of two, so that a row's digits are bits of
\* its index.  The first is not kept: the root grows from DirInit.
BuildPaged(radices) == [d \in 1 .. Len(radices) - 1 |-> Pow2Floor(radices[d + 1])]

\* ChunkedList_1 to _3 (instant) and ChunkedList_paged.
MadeShapes ==
  {BuildPaged(<<DirInit, Pow2Rows(bytes)>>) : bytes \in Budgets}
    \cup {BuildPaged(PagedRadices(order)) : order \in Orders}

IdleWriter == [at |-> "idle", op |-> "add", need |-> 0, cell |-> <<0, 0>>, depth |-> 1]
IdleReader == [at |-> "idle", i |-> 0, n |-> 0, o |-> 0, depth |-> 0]

Init ==
  /\ LockInit
  /\ mem = <<>> /\ roots = <<>>
  /\ shape \in MadeShapes
  /\ chunkCount = 0 /\ committed = 0 /\ handed = <<>>
  /\ wr = [t \in Threads |-> IdleWriter]
  /\ rd = [r \in Readers |-> IdleReader]

-----------------------------------------------------------------------------
LeafDepth == Len(shape)              \* levels - 1
RowsPerChunk == Last(shape)
Directory == IF roots = <<>> THEN 0 ELSE Last(roots)
Capacity == IF roots = <<>> THEN 0 ELSE Cardinality(DOMAIN mem[Directory])
Blank(n) == [k \in 0 .. n - 1 |-> 0]

\* The rows under one pointer of a node at this depth: 2^shifts[depth], which
\* grows from the leaf up by the radix of the level below.
Span(depth) ==
  LET span[k \in 0 .. LeafDepth] == IF k = 0 THEN 1 ELSE span[k - 1] * shape[LeafDepth + 1 - k]
  IN  span[LeafDepth - depth]

\* digitOf: the root is not masked, because it grows.
Digit(i, depth) ==
  IF depth = 0 THEN i \div Span(0) ELSE (i \div Span(depth)) % shape[depth]

\* One hop: null when the object is null or the root too small.
Child(o, i, depth) ==
  IF o # 0 /\ Digit(i, depth) \in DOMAIN mem[o] THEN mem[o][Digit(i, depth)] ELSE 0

\* leafAtRow, in one go: what the gate's holder meets on its way down to a row.
Path(i) ==
  LET walk[d \in 0 .. LeafDepth] == IF d = 0 THEN Directory ELSE Child(walk[d - 1], i, d - 1)
  IN  walk

LeafAt(i) == Path(i)[LeafDepth]

At(t, from) == wr[t].at = from
Set(t, w) == wr' = [wr EXCEPT ![t] = w]
Leaves(t) == Set(t, [wr[t] EXCEPT !.at = "leave"])

\* The leaf a growing writer is about to add begins with this row.
NewRow == chunkCount * RowsPerChunk

-----------------------------------------------------------------------------
\* addSlot takes the gate with a deadline, and so does a reserve that finds
\* too few leaves.
AddSlot(t) ==
  /\ At(t, "idle")
  /\ TimedLock(t)
  /\ Set(t, [IdleWriter EXCEPT !.at = "gate"])
  /\ UNCHANGED <<listVars, rd>>

Reserve(t, rows) ==
  LET need == (rows + RowsPerChunk - 1) \div RowsPerChunk IN
  /\ At(t, "idle")
  /\ need > chunkCount
  /\ TimedLock(t)
  /\ Set(t, [IdleWriter EXCEPT !.at = "gate", !.op = "reserve", !.need = need])
  /\ UNCHANGED <<listVars, rd>>

\* The deadline passes: null, or false.
GiveUp(t) ==
  /\ At(t, "gate")
  /\ TimedExpire(t)
  /\ Set(t, IdleWriter)
  /\ UNCHANGED <<listVars, rd>>

\* The gate is taken.  addSlot claims the next row, unless the index is spent.
Enter(t) ==
  /\ At(t, "gate")
  /\ TimedTake(t)
  /\ IF wr[t].op = "reserve"
     THEN Set(t, [wr[t] EXCEPT !.at = "grow"])
     ELSE IF committed = MaxIndex
     THEN Leaves(t)
     ELSE Set(t, [wr[t] EXCEPT !.at = "grow", !.need = committed \div RowsPerChunk + 1])
  /\ UNCHANGED <<listVars, rd>>

Growing(t) == At(t, "grow") /\ chunkCount < wr[t].need /\ chunkCount # MaxIndex
RootIsSmall == Digit(NewRow, 0) >= Capacity

\* A variant for checking: the larger root is published before it is filled.
DirGrowThenCopy(t) ==
  /\ Growing(t) /\ RootIsSmall
  /\ mem' = Append(mem, Blank(IF Capacity = 0 THEN DirInit ELSE Capacity * 2))
  /\ roots' = Append(roots, Len(mem) + 1)
  /\ UNCHANGED <<shape, chunkCount, committed, handed, wr, rd, lockVars>>

\* dirGrow: a root of twice the size, filled from the old one, is published.
\* The loop of ensureRootSlotLocked comes back until the slot exists.
DirGrow(t) ==
  LET next == Blank(IF Capacity = 0 THEN DirInit ELSE Capacity * 2) IN
  /\ Growing(t) /\ RootIsSmall
  /\ Capacity <= MaxIndex \div 2
  /\ mem' = Append(mem, [k \in DOMAIN next |-> IF k < Capacity THEN mem[Directory][k] ELSE 0])
  /\ roots' = Append(roots, Len(mem) + 1)
  /\ UNCHANGED <<shape, chunkCount, committed, handed, wr, rd, lockVars>>

\* The walk of chunkAddLocked begins at the root's slot.
Descend(t) ==
  /\ Growing(t) /\ ~RootIsSmall
  /\ Set(t, [wr[t] EXCEPT !.at = "walk", !.depth = 1,
                          !.cell = <<Directory, Digit(NewRow, 0)>>])
  /\ UNCHANGED <<listVars, rd, lockVars>>

Pointer(t) == mem[wr[t].cell[1]][wr[t].cell[2]]
Publish(t, o) == [mem EXCEPT ![wr[t].cell[1]][wr[t].cell[2]] = o]

\* A variant for checking: an internal node is not looked for, only made.
NodeStepAlwaysNew(t) ==
  /\ At(t, "walk") /\ wr[t].depth < LeafDepth
  /\ LET o == Len(mem) + 1 IN
     /\ mem' = Append(Publish(t, o), Blank(shape[wr[t].depth]))
     /\ Set(t, [wr[t] EXCEPT !.cell = <<o, Digit(NewRow, wr[t].depth)>>, !.depth = @ + 1])
  /\ UNCHANGED <<roots, shape, chunkCount, committed, handed, rd, lockVars>>

\* An internal node on the path: taken as it is, or made and published.
NodeStep(t) ==
  /\ At(t, "walk") /\ wr[t].depth < LeafDepth
  /\ LET o == IF Pointer(t) = 0 THEN Len(mem) + 1 ELSE Pointer(t) IN
     /\ mem' = IF o > Len(mem) THEN Append(Publish(t, o), Blank(shape[wr[t].depth])) ELSE mem
     /\ Set(t, [wr[t] EXCEPT !.cell = <<o, Digit(NewRow, wr[t].depth)>>, !.depth = @ + 1])
  /\ UNCHANGED <<roots, shape, chunkCount, committed, handed, rd, lockVars>>

\* A variant for checking: the chain is not extended.
LeafStepUnlinked(t) ==
  /\ At(t, "walk") /\ wr[t].depth = LeafDepth
  /\ mem' = Append(Publish(t, Len(mem) + 1), Blank(1))
  /\ Set(t, [wr[t] EXCEPT !.at = "count"])
  /\ UNCHANGED <<roots, shape, chunkCount, committed, handed, rd, lockVars>>

\* The leaf, zeroed, with an empty tail link.
LeafStep(t) ==
  /\ At(t, "walk") /\ wr[t].depth = LeafDepth
  /\ mem' = Append(Publish(t, Len(mem) + 1), Blank(1))
  /\ Set(t, [wr[t] EXCEPT !.at = "link"])
  /\ UNCHANGED <<roots, shape, chunkCount, committed, handed, rd, lockVars>>

\* A variant for checking: a failed allocation is tried again for ever.
AllocRetries(t) ==
  /\ At(t, "walk") /\ wr[t].depth = LeafDepth
  /\ Set(t, [wr[t] EXCEPT !.at = "grow"])
  /\ UNCHANGED <<listVars, rd, lockVars>>

\* Memory runs out, or a counter: the call fails, and what it has published
\* already stays.
AllocFails(t) ==
  /\ \/ Growing(t) /\ RootIsSmall
     \/ At(t, "walk") /\ (wr[t].depth = LeafDepth \/ Pointer(t) = 0)
     \/ At(t, "grow") /\ chunkCount < wr[t].need /\ chunkCount = MaxIndex
  /\ Leaves(t)
  /\ UNCHANGED <<listVars, rd, lockVars>>

\* The tail link of the leaf before, when there is one.
Link(t) ==
  /\ At(t, "link")
  /\ LET prev == IF chunkCount = 0 THEN 0 ELSE LeafAt((chunkCount - 1) * RowsPerChunk) IN
     mem' = IF prev = 0 THEN mem ELSE [mem EXCEPT ![prev][0] = LeafAt(NewRow)]
  /\ Set(t, [wr[t] EXCEPT !.at = "count"])
  /\ UNCHANGED <<roots, shape, chunkCount, committed, handed, rd, lockVars>>

Count(t) ==
  /\ At(t, "count")
  /\ chunkCount' = chunkCount + 1
  /\ Set(t, [wr[t] EXCEPT !.at = "grow"])
  /\ UNCHANGED <<mem, roots, shape, committed, handed, rd, lockVars>>

Row(i) == <<LeafAt(i), i % RowsPerChunk>>

\* A variant for checking: the first row of a leaf is returned, not counted.
CommitForgets(t) ==
  /\ At(t, "grow") /\ chunkCount >= wr[t].need
  /\ IF wr[t].op = "add" /\ LeafAt(committed) # 0
     THEN /\ committed' = IF committed = NewRow - 1 THEN committed ELSE committed + 1
          /\ handed' = Append(handed, Row(committed))
     ELSE UNCHANGED <<committed, handed>>
  /\ Leaves(t)
  /\ UNCHANGED <<mem, roots, shape, chunkCount, rd, lockVars>>

\* There are leaves enough: reserve is done, addSlot commits its row if the
\* row resolves, and returns it.
Commit(t) ==
  /\ At(t, "grow") /\ chunkCount >= wr[t].need
  /\ IF wr[t].op = "add" /\ LeafAt(committed) # 0
     THEN committed' = committed + 1 /\ handed' = Append(handed, Row(committed))
     ELSE UNCHANGED <<committed, handed>>
  /\ Leaves(t)
  /\ UNCHANGED <<mem, roots, shape, chunkCount, rd, lockVars>>

\* unlock: the owner test, then the releasing store.
Unlock(t) ==
  /\ At(t, "leave")
  /\ \/ /\ lk[t] = "in" /\ UnlockLoad(t) /\ UNCHANGED wr
     \/ /\ UnlockStore(t) /\ Set(t, IdleWriter)
  /\ UNCHANGED <<listVars, rd>>

\* setChunkBytes, at set-up time: only while there is no leaf.
SetChunkBytes(bytes) ==
  /\ \A t \in Threads : At(t, "idle")
  /\ \A r \in Readers : rd[r].at = "idle"
  /\ chunkCount = 0
  /\ shape' = [shape EXCEPT ![Len(shape)] = Pow2Rows(bytes)]
  /\ UNCHANGED <<mem, roots, chunkCount, committed, handed, wr, rd, lockVars>>

-----------------------------------------------------------------------------
Reads(r, e) == rd' = [rd EXCEPT ![r] = e] /\ UNCHANGED <<lockVars, listVars, wr>>

\* slot reads one row below the committed count it has loaded, packInto all of
\* them from the first on, as many as fit.
Observe(r) ==
  /\ rd[r].at = "idle"
  /\ \E n \in 1 .. committed : \E i \in {0, n - 1} :
       Reads(r, [IdleReader EXCEPT !.at = "root", !.i = i, !.n = n])

\* Every row starts from the directory as it is now.
LoadRoot(r) ==
  /\ rd[r].at = "root"
  /\ Reads(r, [rd[r] EXCEPT !.at = "hop", !.o = Directory, !.depth = 0])

Hop(r) ==
  LET o == Child(rd[r].o, rd[r].i, rd[r].depth) IN
  /\ rd[r].at = "hop"
  /\ Reads(r, [rd[r] EXCEPT !.o = o, !.depth = @ + 1,
                            !.at = IF o = 0 THEN "missing"
                                   ELSE IF rd[r].depth + 1 = LeafDepth THEN "found" ELSE "hop"])

\* The row is there: on to the next one, or the call returns.  A null row ends
\* both calls: it truncates packInto, and slot returns it.
NextRow(r) ==
  /\ rd[r].at \in {"found", "missing"}
  /\ Reads(r, IF rd[r].at = "found" /\ rd[r].i + 1 < rd[r].n
              THEN [rd[r] EXCEPT !.at = "root", !.i = @ + 1]
              ELSE IdleReader)

\* forEachChunk, by a reader that has loaded the leaf count; it starts at the
\* first leaf.  The walk down to that one is a step here: both its pointers
\* are written once.
WalkChunks(r) ==
  /\ rd[r].at = "idle" /\ chunkCount > 0
  /\ Reads(r, [IdleReader EXCEPT !.at = "chunk", !.n = chunkCount, !.o = LeafAt(0)])

\* nextChunk: the tail link of the leaf.
NextChunk(r) ==
  /\ rd[r].at = "chunk" /\ rd[r].o # 0
  /\ Reads(r, [rd[r] EXCEPT !.o = mem[rd[r].o][0], !.i = @ + 1])

WalkEnds(r) ==
  /\ rd[r].at = "chunk" /\ rd[r].o = 0
  /\ Reads(r, IdleReader)

-----------------------------------------------------------------------------
Call(t) == AddSlot(t) \/ \E rows \in Reserves : Reserve(t, rows)

Advance(t) ==
  \/ GiveUp(t) \/ Enter(t) \/ DirGrow(t) \/ Descend(t) \/ NodeStep(t) \/ LeafStep(t)
  \/ AllocFails(t) \/ Link(t) \/ Count(t) \/ Commit(t) \/ Unlock(t)

Read(r) ==
  \/ Observe(r) \/ LoadRoot(r) \/ Hop(r) \/ NextRow(r)
  \/ WalkChunks(r) \/ NextChunk(r) \/ WalkEnds(r)

Next ==
  \/ \E t \in Threads : Call(t) \/ Advance(t)
  \/ \E r \in Readers : Read(r)
  \/ \E bytes \in Budgets : SetChunkBytes(bytes)

Spec == Init /\ [][Next]_vars
FairSpec == Spec /\ \A t \in Threads : WF_vars(Advance(t))

-----------------------------------------------------------------------------
\* A reader that has observed a count finds every row below it, under whatever
\* root it started from while writers replace the root, and finds the address
\* that addSlot once returned for it.
PublishedRowsResolve ==
  \A r \in Readers :
    /\ rd[r].at # "missing"
    /\ rd[r].at = "found" => handed[rd[r].i + 1] = <<rd[r].o, rd[r].i % RowsPerChunk>>

\* A walk along the tail links meets the leaves in order, each once, and does
\* not end before the last of those that were counted when it began.
WalkIsWhole ==
  \A r \in Readers :
    rd[r].at = "chunk" =>
      IF rd[r].o = 0 THEN rd[r].i >= rd[r].n
      ELSE rd[r].o = LeafAt(rd[r].i * RowsPerChunk)

\* Without a lock a reader sees whole rows, each for itself and in a walk.
ReadersSeeWholeRows == PublishedRowsResolve /\ WalkIsWhole

\* The objects freeSubtree reaches from the current root, layer by layer.
Layer ==
  LET layer[d \in 0 .. LeafDepth] ==
        IF d = 0 THEN IF roots = <<>> THEN {} ELSE {Directory}
        ELSE UNION {{mem[o][k] : k \in DOMAIN mem[o]} \ {0} : o \in layer[d - 1]}
  IN  layer

\* ChunkedList_free: the tree below the current root, then the generations of it.
Freed == Range(roots) \cup UNION {Layer[d] : d \in 1 .. LeafDepth}

Pointers(o) == {<<o, k>> : k \in {k \in DOMAIN mem[o] : mem[o][k] # 0}}

\* ChunkedList_free reaches every object that was ever allocated, also those
\* that calls left behind which failed half way, and reaches none twice: there
\* are as many pointers in the tree as objects below the root.
FreeReachesAll ==
  LET inner == UNION {Layer[d] : d \in 0 .. LeafDepth - 1} IN
  /\ Freed = DOMAIN mem
  /\ Cardinality(UNION {Pointers(o) : o \in inner})
       = Cardinality(UNION {Layer[d] : d \in 1 .. LeafDepth})

Rows == INSTANCE RowList WITH rows <- handed

\* The rows handed out are a list that only grows: no two callers get the same
\* row, whatever fails or is given up between the claim and the commit.
ImplementsRowList == Rows!Spec

\* Every call of a writer returns, by its deadline if not with the gate, also
\* when memory runs out: nobody is left waiting for the gate.
WritersReturn == \A t \in Threads : wr[t].at # "idle" ~> wr[t].at = "idle"
=============================================================================
