-------------------------- MODULE ChunkedListProofs -------------------------
(***************************************************************************)
(* ChunkedList shows its readers whole rows, hands out every row once and  *)
(* frees what it has allocated: for every number of writers and readers,   *)
(* every radix and every size of root.                                     *)
(*                                                                         *)
(* The way of a row, Path, is what everything is said about: the objects   *)
(* of a list are those on ways, a way is never changed once it is there,   *)
(* and a reader under an old root is on the way that the current root has  *)
(* too.                                                                    *)
(***************************************************************************)
EXTENDS ChunkedList, SpinLockProofs, NumberProofs,
  FiniteSetTheorems, SequenceTheorems, FunctionTheorems

\* leafAtRow's loop: the way down to a row is a function on the depths, and each
\* of its objects is the child of the one before.
LEMMA PathEq ==
  ASSUME NEW S, NEW i, LeafDepth \in Nat, Directory \in S,
         \A o \in S, d \in Nat : Child(o, i, d) \in S
  PROVE  /\ Path(i) \in [0 .. LeafDepth -> S]
         /\ Path(i)[0] = Directory
         /\ \A d \in 1 .. LeafDepth : Path(i)[d] = Child(Path(i)[d - 1], i, d - 1)
<1> DEFINE g == [p \in Nat \X S |-> Child(p[2], i, p[1])]
           n == LeafDepth
           dir == Directory
           Body(f) == [d \in 0 .. n |-> IF d = 0 THEN dir ELSE Child(f[d - 1], i, d - 1)]
<1>1. g \in [Nat \X S -> S]
  OBVIOUS
<1>2. \E f \in [0 .. n -> S] : IsIterate(f, n, dir, g)
  <2> HIDE DEF g, n, dir
  <2>1. n \in Nat /\ dir \in S
    BY DEF n, dir
  <2>2. QED
    BY <1>1, <2>1, Recursion
<1>3. PICK f \in [0 .. n -> S] : IsIterate(f, n, dir, g)
  BY <1>2
<1>4. f = Body(f)
  <2>1. ASSUME NEW d \in 0 .. n, d # 0
        PROVE  g[<<d - 1, f[d - 1]>>] = Child(f[d - 1], i, d - 1)
    <3>1. <<d - 1, f[d - 1]>> \in Nat \X S
      BY <2>1
    <3>2. QED
      BY <3>1
  <2> HIDE DEF g, dir, n
  <2>2. QED
    BY <1>3, <2>1 DEF IsIterate
<1>5. Path(i) = CHOOSE ff : ff = Body(ff)
  BY DEF Path
<1>6. Path(i) = Body(Path(i))
  <2> HIDE DEF Body
  <2>1. QED
    BY <1>4, <1>5
<1>7. /\ DOMAIN Path(i) = 0 .. n
      /\ Path(i) = [d \in 0 .. n |-> Path(i)[d]]
      /\ \A d \in 0 .. n : Path(i)[d] = IF d = 0 THEN dir ELSE Child(Path(i)[d - 1], i, d - 1)
  <2> HIDE DEF dir, n
  <2>1. QED
    BY <1>6
<1>8. 0 .. n \subseteq {k \in 0 .. n : Path(i)[k] \in S}
  <2> DEFINE T == {k \in 0 .. n : Path(i)[k] \in S}
  <2>1. 0 \in T
    <3>1. 0 \in 0 .. n
      OBVIOUS
    <3>2. Path(i)[0] = dir
      BY <1>7, <3>1
    <3>3. QED
      BY <3>1, <3>2
  <2>2. ASSUME NEW k \in 0 .. n - 1, k \in T
        PROVE  k + 1 \in T
    <3>1. k \in Nat /\ k + 1 \in 0 .. n /\ k + 1 # 0 /\ (k + 1) - 1 = k
      OBVIOUS
    <3>2. Path(i)[k + 1] = Child(Path(i)[k], i, k)
      BY <1>7, <3>1
    <3>3. QED
      BY <2>2, <3>1, <3>2
  <2> HIDE DEF T, n
  <2>3. n \in Nat
    BY DEF n
  <2>4. 0 .. n \subseteq T
    BY <2>1, <2>2, <2>3, Induction
  <2>5. QED
    BY <2>4 DEF T
<1>9. QED
  <2>1. Path(i) \in [0 .. n -> S]
    BY <1>7, <1>8
  <2>2. 0 \in 0 .. n /\ \A d \in 1 .. n : d \in 0 .. n /\ d # 0
    OBVIOUS
  <2>3. Path(i)[0] = dir /\ \A d \in 1 .. n : Path(i)[d] = Child(Path(i)[d - 1], i, d - 1)
    BY <1>7, <2>2
  <2>4. QED
    BY <2>1, <2>3

\* radixMath: the rows under one pointer are those of its children together, the
\* radix of the level below times as many.
LEMMA SpanEq ==
  ASSUME NEW n \in Nat \ {0}, shape \in [1 .. n -> Nat \ {0}], Len(shape) = n
  PROVE  /\ \A d \in 0 .. n : Span(d) \in Nat \ {0}
         /\ Span(n) = 1
         /\ \A d \in 1 .. n : Span(d - 1) = Span(d) * shape[d]
<1> DEFINE P == Nat \ {0}
           g == [p \in Nat \X P |-> IF p[1] \in 0 .. n - 1 THEN p[2] * shape[n - p[1]] ELSE 1]
           Body(f) == [k \in 0 .. n |-> IF k = 0 THEN 1 ELSE f[k - 1] * shape[n + 1 - k]]
           span == CHOOSE f : f = Body(f)
<1>1. g \in [Nat \X P -> P]
  <2>1. ASSUME NEW p \in Nat \X P, p[1] \in 0 .. n - 1
        PROVE  p[2] * shape[n - p[1]] \in P
    <3>1. n - p[1] \in 1 .. n
      BY <2>1
    <3>2. shape[n - p[1]] \in P /\ p[2] \in P
      BY <3>1
    <3>3. QED
      BY <3>2
  <2>2. QED
    BY <2>1
<1>2. PICK f \in [0 .. n -> P] : IsIterate(f, n, 1, g)
  <2> HIDE DEF g
  <2>1. 1 \in P
    OBVIOUS
  <2> HIDE DEF P
  <2>2. QED
    BY <1>1, <2>1, Recursion
<1>3. f = Body(f)
  <2>1. ASSUME NEW k \in 0 .. n, k # 0
        PROVE  g[<<k - 1, f[k - 1]>>] = f[k - 1] * shape[n + 1 - k]
    <3>1. <<k - 1, f[k - 1]>> \in Nat \X P /\ k - 1 \in 0 .. n - 1 /\ n - (k - 1) = n + 1 - k
      BY <2>1
    <3>2. QED
      BY <3>1
  <2> HIDE DEF g
  <2>2. QED
    BY <1>2, <2>1 DEF IsIterate
<1>4. span = Body(span)
  <2> HIDE DEF Body
  <2>1. QED
    BY <1>3
<1>5. \A k \in 0 .. n : span[k] = IF k = 0 THEN 1 ELSE span[k - 1] * shape[n + 1 - k]
  <2> HIDE DEF span
  <2>1. QED
    BY <1>4
<1>6. \A d \in 0 .. n : Span(d) = span[n - d]
  BY DEF Span, LeafDepth
<1> HIDE DEF span
<1>7. 0 .. n \subseteq {k \in 0 .. n : span[k] \in P}
  <2> DEFINE T == {k \in 0 .. n : span[k] \in P}
  <2>1. 0 \in T
    BY <1>5
  <2>2. ASSUME NEW k \in 0 .. n - 1, k \in T
        PROVE  k + 1 \in T
    <3>1. k + 1 \in 0 .. n /\ k + 1 # 0 /\ (k + 1) - 1 = k /\ n + 1 - (k + 1) = n - k /\ n - k \in 1 .. n
      OBVIOUS
    <3>2. span[k + 1] = span[k] * shape[n - k]
      BY <1>5, <3>1
    <3>3. shape[n - k] \in P /\ span[k] \in P
      BY <2>2, <3>1
    <3>4. \A a \in P, b \in P : a * b \in P
      OBVIOUS
    <3>5. span[k + 1] \in P
      <4> HIDE DEF P
      <4>1. QED
        BY <3>2, <3>3, <3>4
    <3>6. QED
      BY <3>1, <3>5
  <2> HIDE DEF T
  <2>4. 0 .. n \subseteq T
    BY <2>1, <2>2, Induction
  <2>5. QED
    BY <2>4 DEF T
<1>8. ASSUME NEW d \in 0 .. n
      PROVE  Span(d) \in P
  <2>1. n - d \in 0 .. n
    OBVIOUS
  <2>2. QED
    BY <1>6, <1>7, <2>1
<1>9. Span(n) = 1
  <2>1. n \in 0 .. n /\ 0 \in 0 .. n /\ n - n = 0
    OBVIOUS
  <2>2. QED
    BY <1>5, <1>6, <2>1
<1>10. ASSUME NEW d \in 1 .. n
       PROVE  Span(d - 1) = Span(d) * shape[d]
  <2>1. n - (d - 1) \in 0 .. n /\ n - (d - 1) # 0 /\ (n - (d - 1)) - 1 = n - d /\ n + 1 - (n - (d - 1)) = d
    OBVIOUS
  <2>2. span[n - (d - 1)] = span[n - d] * shape[d]
    BY <1>5, <2>1
  <2>3. QED
    BY <1>6, <2>2
<1>11. QED
  BY <1>8, <1>9, <1>10

-----------------------------------------------------------------------------
ShapeOK == shape \in Seq(Nat \ {0}) /\ Len(shape) >= 1

Arrays == UNION {[0 .. n - 1 -> Nat] : n \in Nat}

MemOK ==
  /\ mem \in Seq(Arrays)
  /\ \A o \in DOMAIN mem : \A k \in DOMAIN mem[o] : mem[o][k] \in 0 .. Len(mem)

RootsOK == roots \in Seq(DOMAIN mem)

TypeInv == ShapeOK /\ MemOK /\ RootsOK

\* The number of a row's pointer among all pointers of its depth.
Index(i, d) == i \div Span(d)

\* Every list the constructors build has a leaf level, at least one row in a
\* leaf, and as many rows under a pointer as the radices below it multiply to.
LEMMA Geometry ==
  ASSUME ShapeOK
  PROVE  /\ LeafDepth \in Nat \ {0}
         /\ RowsPerChunk \in Nat \ {0}
         /\ RowsPerChunk = Span(LeafDepth - 1)
         /\ \A d \in 0 .. LeafDepth : Span(d) \in Nat \ {0}
         /\ \A d \in 1 .. LeafDepth : shape[d] \in Nat \ {0} /\ Span(d - 1) = Span(d) * shape[d]
<1> DEFINE n == LeafDepth
<1>1. n \in Nat \ {0} /\ shape \in [1 .. n -> Nat \ {0}] /\ Len(shape) = n
  BY DEF ShapeOK, LeafDepth
<1>2. RowsPerChunk = shape[n]
  BY DEF RowsPerChunk, Last, LeafDepth
<1> HIDE DEF n
<1>3. /\ \A d \in 0 .. n : Span(d) \in Nat \ {0}
      /\ Span(n) = 1
      /\ \A d \in 1 .. n : Span(d - 1) = Span(d) * shape[d]
  BY <1>1, SpanEq
<1>4. n \in 1 .. n /\ shape[n] \in Nat \ {0}
  BY <1>1
<1>5. Span(n - 1) = shape[n]
  BY <1>3, <1>4
<1>6. QED
  BY <1>1, <1>2, <1>3, <1>4, <1>5 DEF n

\* One hop of leafAtRow ends at an object or at null, whatever the digit.
LEMMA ChildType ==
  ASSUME MemOK, NEW o \in 0 .. Len(mem), NEW i, NEW d
  PROVE  Child(o, i, d) \in 0 .. Len(mem)
<1>1. Len(mem) \in Nat /\ DOMAIN mem = 1 .. Len(mem)
  BY DEF MemOK
<1>2. QED
  BY <1>1 DEF Child, MemOK

\* directory is null until the first root is published and the last root since.
LEMMA DirectoryType ==
  ASSUME MemOK, RootsOK
  PROVE  /\ Directory \in 0 .. Len(mem)
         /\ roots # <<>> => Directory \in DOMAIN mem /\ Directory \in Range(roots)
         /\ Directory = 0 <=> roots = <<>>
<1>1. Len(mem) \in Nat /\ DOMAIN mem = 1 .. Len(mem)
  BY DEF MemOK
<1>2. CASE roots = <<>>
  BY <1>1, <1>2 DEF Directory
<1>3. CASE roots # <<>>
  <2>1. Len(roots) \in DOMAIN roots /\ Directory = roots[Len(roots)]
    BY <1>3 DEF Directory, Last, RootsOK
  <2>2. Directory \in DOMAIN mem
    BY <2>1 DEF RootsOK
  <2>3. Directory \in Range(roots)
    BY <2>1 DEF Range
  <2>4. QED
    BY <1>1, <1>3, <2>2, <2>3
<1>4. QED
  BY <1>2, <1>3

\* What is known of the walk down to a row.
PathFacts ==
  \A i \in Nat :
    /\ Path(i) \in [0 .. LeafDepth -> 0 .. Len(mem)]
    /\ Path(i)[0] = Directory
    /\ \A d \in 1 .. LeafDepth : Path(i)[d] = Child(Path(i)[d - 1], i, d - 1)

\* Of every list leafAtRow's walk is known: it begins at directory and stays
\* among the objects and null.
LEMMA PathsWalk == TypeInv => PathFacts
<1> SUFFICES ASSUME TypeInv, NEW i \in Nat
             PROVE  /\ Path(i) \in [0 .. LeafDepth -> 0 .. Len(mem)]
                    /\ Path(i)[0] = Directory
                    /\ \A d \in 1 .. LeafDepth : Path(i)[d] = Child(Path(i)[d - 1], i, d - 1)
  BY DEF PathFacts
<1>1. LeafDepth \in Nat /\ Directory \in 0 .. Len(mem)
  BY Geometry, DirectoryType DEF TypeInv
<1>2. \A o \in 0 .. Len(mem), d \in Nat : Child(o, i, d) \in 0 .. Len(mem)
  BY ChildType DEF TypeInv
<1>3. QED
  BY <1>1, <1>2, PathEq

IndexFacts ==
  \A i \in Nat :
    /\ \A d \in 0 .. LeafDepth : Index(i, d) \in Nat
    /\ Digit(i, 0) = Index(i, 0)
    /\ \A d \in 1 .. LeafDepth - 1 :
         /\ Digit(i, d) \in 0 .. shape[d] - 1
         /\ Index(i, d) = Index(i, d - 1) * shape[d] + Digit(i, d)
         /\ Index(i, d - 1) = Index(i, d) \div shape[d]

\* digitOf: a row's digit is below the radix at each depth but the root's, and
\* its pointer's number is the parent's number and the digit.
LEMMA RowsHaveDigits == ShapeOK => IndexFacts
<1> SUFFICES ASSUME ShapeOK, NEW i \in Nat
             PROVE  /\ \A d \in 0 .. LeafDepth : Index(i, d) \in Nat
                    /\ Digit(i, 0) = Index(i, 0)
                    /\ \A d \in 1 .. LeafDepth - 1 :
                         /\ Digit(i, d) \in 0 .. shape[d] - 1
                         /\ Index(i, d) = Index(i, d - 1) * shape[d] + Digit(i, d)
                         /\ Index(i, d - 1) = Index(i, d) \div shape[d]
  BY DEF IndexFacts
<1>1. ASSUME NEW d \in 0 .. LeafDepth PROVE Index(i, d) \in Nat
  BY Geometry, DivMod DEF Index
<1>2. Digit(i, 0) = Index(i, 0)
  BY DEF Digit, Index
<1>3. ASSUME NEW d \in 1 .. LeafDepth - 1
      PROVE  /\ Digit(i, d) \in 0 .. shape[d] - 1
             /\ Index(i, d) = Index(i, d - 1) * shape[d] + Digit(i, d)
             /\ Index(i, d - 1) = Index(i, d) \div shape[d]
  <2>1. d \in 0 .. LeafDepth /\ d \in 1 .. LeafDepth /\ d # 0
    BY Geometry
  <2>2. Span(d) \in Nat \ {0} /\ shape[d] \in Nat \ {0} /\ Span(d - 1) = Span(d) * shape[d]
    BY <2>1, Geometry
  <2>3. Index(i, d - 1) = Index(i, d) \div shape[d]
    BY <2>2, DivTwice DEF Index
  <2>4. Index(i, d) \in Nat /\ Digit(i, d) = Index(i, d) % shape[d]
    BY <1>1, <2>1 DEF Digit, Index
  <2>5. QED
    BY <2>2, <2>3, <2>4, DivMod
<1>4. QED
  BY <1>1, <1>2, <1>3

\* Rows with the same number at a depth take the same way down to it.
LEMMA SameWay ==
  TypeInv =>
    \A i, j \in Nat, d \in 1 .. LeafDepth :
      Index(i, d - 1) = Index(j, d - 1) => Path(i)[d] = Path(j)[d]
<1> SUFFICES ASSUME TypeInv
             PROVE  \A i, j \in Nat, d \in 1 .. LeafDepth :
                      Index(i, d - 1) = Index(j, d - 1) => Path(i)[d] = Path(j)[d]
  OBVIOUS
<1> DEFINE Agree(d) == \A i, j \in Nat : Index(i, d - 1) = Index(j, d - 1) => Path(i)[d] = Path(j)[d]
           T == {d \in 0 .. LeafDepth : d = 0 \/ Agree(d)}
<1>1. LeafDepth \in Nat \ {0} /\ PathFacts /\ IndexFacts
  BY Geometry, PathsWalk, RowsHaveDigits DEF TypeInv
<1>2. 0 \in T
  BY <1>1
<1>3. ASSUME NEW k \in 0 .. LeafDepth - 1, k \in T
      PROVE  k + 1 \in T
  <2>1. k + 1 \in 1 .. LeafDepth /\ k + 1 \in 0 .. LeafDepth /\ (k + 1) - 1 = k
    BY <1>1
  <2>2. SUFFICES ASSUME NEW i \in Nat, NEW j \in Nat, Index(i, k) = Index(j, k)
                 PROVE  Path(i)[k + 1] = Path(j)[k + 1]
    BY <2>1
  <2>3. Path(i)[k + 1] = Child(Path(i)[k], i, k) /\ Path(j)[k + 1] = Child(Path(j)[k], j, k)
    BY <1>1, <2>1 DEF PathFacts
  <2>4. CASE k = 0
    BY <1>1, <2>2, <2>3, <2>4 DEF PathFacts, IndexFacts, Child
  <2>5. CASE k # 0
    <3>1. k \in 1 .. LeafDepth - 1
      BY <2>5
    <3>2. Index(i, k - 1) = Index(j, k - 1)
      BY <1>1, <2>2, <3>1 DEF IndexFacts
    <3>3. Path(i)[k] = Path(j)[k]
      BY <1>3, <2>5, <3>2
    <3>4. Digit(i, k) = Digit(j, k)
      BY <2>2, <2>5 DEF Digit, Index
    <3>5. QED
      BY <2>3, <3>3, <3>4 DEF Child
  <2>6. QED
    BY <2>4, <2>5
<1> HIDE DEF T
<1>4. 0 .. LeafDepth \subseteq T
  BY <1>1, <1>2, <1>3, Induction
<1>5. QED
  BY <1>4 DEF T

-----------------------------------------------------------------------------
\* An object below the root is on the way to the rows of one stretch only, is
\* no root itself, and has the radix of its depth.
TreeOK ==
  \A i \in Nat : \A d \in 1 .. LeafDepth :
    Path(i)[d] # 0 =>
      /\ Path(i)[d] \notin Range(roots)
      /\ DOMAIN mem[Path(i)[d]] = IF d = LeafDepth THEN {0} ELSE 0 .. shape[d] - 1
      /\ \A j \in Nat : \A e \in 1 .. LeafDepth :
           Path(j)[e] = Path(i)[d] => e = d /\ Index(j, d - 1) = Index(i, d - 1)

\* Nothing that was allocated is lost.
ReachOK ==
  \A o \in DOMAIN mem : o \in Range(roots) \/ \E i \in Nat : \E d \in 1 .. LeafDepth : Path(i)[d] = o

\* A writer has hung up a leaf that is not counted yet.
Linking == \E t \in Threads : At(t, "link")
Counting == \E t \in Threads : At(t, "count")
Pending == Linking \/ Counting

\* Exactly the rows of the counted leaves, and of a pending one, have a leaf.
Leaved == IF Pending THEN NewRow + RowsPerChunk ELSE NewRow
LeavesOK == \A i \in Nat : LeafAt(i) # 0 <=> i < Leaved

\* The leaves are linked in the order of their rows.
Linked == IF Counting THEN NewRow + RowsPerChunk ELSE NewRow
ChainOK ==
  \A i \in Nat :
    i < Leaved =>
      mem[LeafAt(i)][0] = IF i + RowsPerChunk < Linked THEN LeafAt(i + RowsPerChunk) ELSE 0

RowsOK ==
  /\ chunkCount \in Nat /\ committed \in Nat
  /\ handed \in Seq(Nat \X Nat) /\ Len(handed) = committed
  /\ committed <= NewRow
  /\ \A i \in 0 .. committed - 1 : handed[i + 1] = Row(i)

WriterStates ==
  [at : {"idle", "gate", "grow", "walk", "link", "count", "leave"},
   op : {"add", "reserve"}, need : Nat, cell : Nat \X Nat, depth : Nat]

WriterOK(t) ==
  /\ At(t, "idle") => lk[t] = "out"
  /\ At(t, "gate") => lk[t] = "timed"
  /\ wr[t].at \in {"grow", "walk", "link", "count"} => lk[t] = "in"
  /\ At(t, "leave") => lk[t] \in {"in", "rel"}
  /\ At(t, "walk") =>
       /\ wr[t].depth \in 1 .. LeafDepth
       /\ wr[t].cell = <<Path(NewRow)[wr[t].depth - 1], Digit(NewRow, wr[t].depth - 1)>>
       /\ wr[t].cell[1] # 0 /\ wr[t].cell[2] \in DOMAIN mem[wr[t].cell[1]]

WritersOK == wr \in [Threads -> WriterStates] /\ \A t \in Threads : WriterOK(t)

ReaderStates ==
  [at : {"idle", "root", "hop", "found", "chunk"}, i : Nat, n : Nat, o : Nat, depth : Nat]

ReaderOK(r) ==
  LET i == rd[r].i  o == rd[r].o  depth == rd[r].depth IN
  /\ rd[r].at \in {"root", "hop", "found"} => i < rd[r].n /\ rd[r].n <= committed
  /\ rd[r].at = "hop" =>
       /\ depth \in 0 .. LeafDepth - 1
       /\ o \in DOMAIN mem
       /\ Child(o, i, depth) = Path(i)[depth + 1]
       /\ depth > 0 => o = Path(i)[depth]
  /\ rd[r].at = "found" => o = LeafAt(i)
  /\ rd[r].at = "chunk" =>
       /\ rd[r].n <= chunkCount
       /\ IF o = 0 THEN i >= rd[r].n ELSE o = LeafAt(i * RowsPerChunk)

ReadersOK == rd \in [Readers -> ReaderStates] /\ \A r \in Readers : ReaderOK(r)

ListInv ==
  /\ LockInv /\ TypeInv
  /\ TreeOK /\ ReachOK /\ LeavesOK /\ ChainOK
  /\ RowsOK /\ WritersOK /\ ReadersOK

-----------------------------------------------------------------------------
\* A step that changes neither the objects nor the roots nor the radices leaves
\* every way as it was.
Unmoved ==
  /\ LeafDepth' = LeafDepth /\ RowsPerChunk' = RowsPerChunk /\ Directory' = Directory
  /\ \A i : Path(i)' = Path(i) /\ LeafAt(i)' = LeafAt(i)
  /\ \A i, d : Index(i, d)' = Index(i, d) /\ Digit(i, d)' = Digit(i, d)
  /\ \A o, i, d : Child(o, i, d)' = Child(o, i, d)

\* leafAtRow reads objects, roots and radices and nothing else.
LEMMA StillPaths ==
  ASSUME UNCHANGED <<mem, roots, shape>>
  PROVE  Unmoved
<1>1. LeafDepth' = LeafDepth /\ RowsPerChunk' = RowsPerChunk /\ Directory' = Directory
  BY DEF LeafDepth, RowsPerChunk, Directory, Last
<1>2. \A d : Span(d)' = Span(d)
  BY <1>1 DEF Span
<1>3. \A i, d : Index(i, d)' = Index(i, d) /\ Digit(i, d)' = Digit(i, d)
  BY <1>2 DEF Index, Digit
<1>4. \A o, i, d : Child(o, i, d)' = Child(o, i, d)
  BY <1>3 DEF Child
<1>5. \A i : Path(i)' = Path(i)
  BY <1>1, <1>4 DEF Path
<1>6. QED
  BY <1>1, <1>3, <1>4, <1>5 DEF Unmoved, LeafAt

\* On the way to a leaf no object is missing.
LEMMA LeafHasWay ==
  ASSUME TypeInv, NEW i \in Nat, LeafAt(i) # 0
  PROVE  \A d \in 0 .. LeafDepth : Path(i)[d] # 0
<1> DEFINE T == {k \in 0 .. LeafDepth : Path(i)[LeafDepth - k] # 0}
<1>1. LeafDepth \in Nat /\ PathFacts
  BY Geometry, PathsWalk DEF TypeInv
<1>2. 0 \in T
  BY <1>1 DEF LeafAt
<1>3. ASSUME NEW k \in 0 .. LeafDepth - 1, k \in T
      PROVE  k + 1 \in T
  <2>1. LeafDepth - k \in 1 .. LeafDepth /\ LeafDepth - (k + 1) = (LeafDepth - k) - 1 /\ k + 1 \in 0 .. LeafDepth
    BY <1>1
  <2>2. Path(i)[LeafDepth - k] = Child(Path(i)[(LeafDepth - k) - 1], i, (LeafDepth - k) - 1)
    BY <1>1, <2>1 DEF PathFacts
  <2>3. Path(i)[(LeafDepth - k) - 1] # 0
    BY <1>3, <2>2 DEF Child
  <2>4. QED
    BY <2>1, <2>3
<1> HIDE DEF T
<1>4. 0 .. LeafDepth \subseteq T
  BY <1>1, <1>2, <1>3, Induction
<1>5. ASSUME NEW d \in 0 .. LeafDepth
      PROVE  Path(i)[d] # 0
  <2>1. LeafDepth - d \in 0 .. LeafDepth /\ LeafDepth - (LeafDepth - d) = d
    BY <1>1
  <2>2. LeafDepth - d \in T
    BY <1>4, <2>1
  <2>3. QED
    BY <2>1, <2>2 DEF T
<1>6. QED
  BY <1>5

\* The root is not below any object.
LEMMA RootIsTop ==
  ASSUME TypeInv, TreeOK, NEW i \in Nat, NEW d \in 1 .. LeafDepth, Path(i)[d] # 0
  PROVE  Path(i)[d] # Directory
<1>1. Path(i)[d] \notin Range(roots)
  BY DEF TreeOK
<1>2. QED
  BY <1>1, DirectoryType DEF TypeInv

-----------------------------------------------------------------------------
\* A fresh object is hung up where the way to row a ends, at depth d.
Hangs(a, d) ==
  /\ Path(a)[d - 1] # 0 /\ Path(a)[d] = 0
  /\ Digit(a, d - 1) \in DOMAIN mem[Path(a)[d - 1]]
  /\ mem' = Append([mem EXCEPT ![Path(a)[d - 1]][Digit(a, d - 1)] = Len(mem) + 1],
                   Blank(IF d = LeafDepth THEN 1 ELSE shape[d]))
  /\ UNCHANGED <<roots, shape>>

\* What becomes of the objects.
MemAfter(c, k, x, n) ==
  /\ Len(mem') = x /\ DOMAIN mem' = 1 .. x /\ DOMAIN mem = 1 .. x - 1 /\ x = Len(mem) + 1
  /\ \A o \in DOMAIN mem : mem'[o] = IF o = c THEN [mem[c] EXCEPT ![k] = x] ELSE mem[o]
  /\ mem'[x] = Blank(n)

\* A pointer that is published over null adds its object and writes one cell.
LEMMA HangObjects ==
  ASSUME TypeInv, NEW a \in Nat, NEW d \in 1 .. LeafDepth, Hangs(a, d)
  PROVE  /\ MemAfter(Path(a)[d - 1], Digit(a, d - 1), Len(mem) + 1, IF d = LeafDepth THEN 1 ELSE shape[d])
         /\ TypeInv'
<1> DEFINE c == Path(a)[d - 1]
           k == Digit(a, d - 1)
           x == Len(mem) + 1
           n == IF d = LeafDepth THEN 1 ELSE shape[d]
           new == [mem[c] EXCEPT ![k] = x]
           old == [mem EXCEPT ![c] = new]
<1>1. Len(mem) \in Nat /\ DOMAIN mem = 1 .. Len(mem)
  BY DEF TypeInv, MemOK
<1>2. c \in DOMAIN mem /\ k \in DOMAIN mem[c]
  <2>1. d - 1 \in 0 .. LeafDepth /\ LeafDepth \in Nat
    BY Geometry DEF TypeInv
  <2>2. c \in 0 .. Len(mem)
    BY <2>1, PathsWalk DEF PathFacts
  <2>3. QED
    BY <1>1, <2>2 DEF Hangs
<1>3. n \in Nat \ {0}
  BY Geometry DEF TypeInv
<1>4. mem' = Append(old, Blank(n))
  BY DEF Hangs
<1>5. mem \in Seq(Arrays) /\ \A o \in DOMAIN mem : mem[o] \in Arrays
  BY DEF TypeInv, MemOK
<1> HIDE DEF c, k, n
<1>6. new \in Arrays /\ DOMAIN new = DOMAIN mem[c]
  <2>1. PICK m \in Nat : mem[c] \in [0 .. m - 1 -> Nat]
    BY <1>2, <1>5 DEF Arrays
  <2>2. x \in Nat /\ new = [e \in 0 .. m - 1 |-> IF e = k THEN x ELSE mem[c][e]]
    BY <1>1, <2>1
  <2>3. new \in [0 .. m - 1 -> Nat]
    BY <2>1, <2>2
  <2>4. QED
    BY <2>1, <2>3 DEF Arrays
<1>7. Blank(n) \in Arrays
  <2>1. Blank(n) \in [0 .. n - 1 -> Nat]
    BY <1>3 DEF Blank
  <2>2. QED
    BY <1>3, <2>1 DEF Arrays
<1> HIDE DEF new
<1>8. old \in Seq(Arrays) /\ Len(old) = Len(mem) /\ DOMAIN old = DOMAIN mem
  BY <1>1, <1>2, <1>5, <1>6, ExceptSeq
<1> HIDE DEF old
<1>9. /\ mem' \in Seq(Arrays) /\ Len(mem') = x /\ mem'[x] = Blank(n)
      /\ \A o \in 1 .. Len(mem) : mem'[o] = old[o]
  BY <1>4, <1>7, <1>8, AppendProperties
<1>10. \A o \in DOMAIN mem : mem'[o] = IF o = c THEN new ELSE mem[o]
  BY <1>1, <1>9, <1>5, <1>2 DEF old
<1>11. DOMAIN mem' = 1 .. x /\ DOMAIN mem = 1 .. x - 1
  BY <1>1, <1>9
<1>12. MemAfter(c, k, x, n)
  BY <1>9, <1>10, <1>11 DEF MemAfter, new
<1>13. MemOK'
  <2>1. ASSUME NEW o \in DOMAIN mem', NEW e \in DOMAIN mem'[o]
        PROVE  mem'[o][e] \in 0 .. Len(mem')
    <3>1. CASE o = x
      <4>1. mem'[o] = [f \in 0 .. n - 1 |-> 0]
        BY <1>9, <3>1 DEF Blank
      <4>2. mem'[o][e] = 0
        BY <2>1, <4>1
      <4>3. QED
        BY <1>1, <1>9, <4>2
    <3>2. CASE o # x
      <4>1. o \in DOMAIN mem
        BY <1>1, <1>11, <2>1, <3>2
      <4>2. \A f \in DOMAIN mem[o] : mem[o][f] \in 0 .. Len(mem)
        BY <4>1 DEF TypeInv, MemOK
      <4>3. CASE o = c
        <5>1. mem'[o] = new /\ e \in DOMAIN mem[c]
          BY <1>6, <1>10, <2>1, <4>1, <4>3
        <5>2. new[e] = IF e = k THEN x ELSE mem[c][e]
          BY <5>1 DEF new
        <5>3. QED
          BY <1>1, <1>9, <4>2, <4>3, <5>1, <5>2
      <4>4. CASE o # c
        BY <1>1, <1>9, <1>10, <2>1, <4>1, <4>2, <4>4
      <4>5. QED
        BY <4>3, <4>4
    <3>3. QED
      BY <3>1, <3>2
  <2>2. QED
    BY <1>9, <2>1 DEF MemOK
<1>14. ShapeOK' /\ RootsOK'
  <2>1. roots' \in Seq(DOMAIN mem')
    <3>1. DOMAIN mem \subseteq DOMAIN mem'
      BY <1>1, <1>11
    <3>2. roots \in Seq(DOMAIN mem) /\ roots' = roots
      BY DEF TypeInv, RootsOK, Hangs
    <3>3. QED
      BY <3>1, <3>2, SeqMonotonic
  <2>2. QED
    BY <2>1 DEF TypeInv, ShapeOK, RootsOK, Hangs
<1>15. QED
  BY <1>12, <1>13, <1>14 DEF TypeInv, c, k, n

\* The rows of one number at depth d now meet the fresh object there; every
\* other way is as it was.
PathsAfter(a, d, x) ==
  \A j \in Nat : \A e \in 1 .. LeafDepth :
    Path(j)[e]' = IF e = d /\ Index(j, d - 1) = Index(a, d - 1) THEN x ELSE Path(j)[e]

\* The parts of the geometry do not move with the objects.
SameShape ==
  /\ LeafDepth' = LeafDepth /\ RowsPerChunk' = RowsPerChunk
  /\ \A i, d : Index(i, d)' = Index(i, d) /\ Digit(i, d)' = Digit(i, d)

\* Radices and digits depend on the constructor's numbers alone.
LEMMA StillShape ==
  ASSUME UNCHANGED shape
  PROVE  SameShape
<1>1. LeafDepth' = LeafDepth /\ RowsPerChunk' = RowsPerChunk
  BY DEF LeafDepth, RowsPerChunk, Last
<1>2. \A d : Span(d)' = Span(d)
  BY <1>1 DEF Span
<1>3. QED
  BY <1>1, <1>2 DEF Index, Digit, SameShape

\* Publishing a node or a leaf opens the way for the rows below that cell and
\* leaves the way of every other row as it was.
LEMMA HangPaths ==
  ASSUME TypeInv, TreeOK, NEW a \in Nat, NEW d \in 1 .. LeafDepth, Hangs(a, d)
  PROVE  PathsAfter(a, d, Len(mem) + 1)
<1> DEFINE c == Path(a)[d - 1]
           k == Digit(a, d - 1)
           x == Len(mem) + 1
           n == IF d = LeafDepth THEN 1 ELSE shape[d]
           Same(j) == Index(j, d - 1) = Index(a, d - 1)
           After(j, e) == IF e = d /\ Same(j) THEN x ELSE Path(j)[e]
           Good(j, e) == /\ Path(j)[e]' = After(j, e)
                         /\ e >= d /\ Same(j) => Path(j)[e] = 0
           T == {e \in 0 .. LeafDepth : \A j \in Nat : Good(j, e)}
<1>1. MemAfter(c, k, x, n) /\ TypeInv'
  BY HangObjects
<1>2. PathFacts /\ PathFacts' /\ IndexFacts
  <2>1. TypeInv' => PathFacts'
    BY PathsWalk, PTL
  <2>2. QED
    BY <1>1, <2>1, PathsWalk, RowsHaveDigits DEF TypeInv
<1>3. SameShape /\ Directory' = Directory
  BY StillShape DEF Hangs, Directory
<1>4. /\ LeafDepth \in Nat \ {0} /\ Len(mem) \in Nat /\ DOMAIN mem = 1 .. Len(mem)
      /\ c \in DOMAIN mem /\ k \in DOMAIN mem[c] /\ Path(a)[d] = 0 /\ c # 0
  <2>1. LeafDepth \in Nat \ {0} /\ Len(mem) \in Nat /\ DOMAIN mem = 1 .. Len(mem)
    BY Geometry DEF TypeInv, MemOK
  <2>2. d - 1 \in 0 .. LeafDepth
    BY <2>1
  <2>3. c \in 0 .. Len(mem)
    BY <1>2, <2>2 DEF PathFacts
  <2>4. QED
    BY <2>1, <2>3 DEF Hangs
<1>5. \A j \in Nat : Same(j) => Path(j)[d] = 0 /\ Path(j)[d - 1] = c /\ Digit(j, d - 1) = k
  <2> SUFFICES ASSUME NEW j \in Nat, Same(j)
               PROVE  Path(j)[d] = 0 /\ Path(j)[d - 1] = c /\ Digit(j, d - 1) = k
    OBVIOUS
  <2>1. Path(j)[d] = 0
    BY <1>4, SameWay
  <2>2. CASE d = 1
    BY <1>2, <2>1, <2>2 DEF PathFacts, IndexFacts
  <2>3. CASE d # 1
    <3>1. d - 1 \in 1 .. LeafDepth - 1 /\ d - 1 \in 1 .. LeafDepth /\ d - 1 # 0
      BY <1>4, <2>3
    <3>2. Index(j, (d - 1) - 1) = Index(a, (d - 1) - 1)
      BY <1>2, <3>1 DEF IndexFacts
    <3>3. Path(j)[d - 1] = c
      BY <3>1, <3>2, SameWay
    <3>4. Digit(j, d - 1) = k
      BY <3>1 DEF Digit, Index
    <3>5. QED
      BY <2>1, <3>3, <3>4
  <2>4. QED
    BY <2>2, <2>3
\* Only those rows come through the cell that is written.
<1>6. ASSUME NEW j \in Nat, NEW e \in 0 .. LeafDepth - 1, Path(j)[e] = c, Digit(j, e) = k
      PROVE  e = d - 1 /\ Same(j)
  <2>1. CASE d = 1
    <3>1. c = Directory
      BY <1>2, <2>1 DEF PathFacts
    <3>2. e = 0
      <4> SUFFICES ASSUME e # 0 PROVE FALSE
        BY <1>4
      <4>1. e \in 1 .. LeafDepth /\ Path(j)[e] # 0
        BY <1>4, <1>6
      <4>2. QED
        BY <1>6, <3>1, <4>1, RootIsTop
    <3>3. QED
      BY <1>2, <1>6, <2>1, <3>2 DEF IndexFacts
  <2>2. CASE d # 1
    <3>1. d - 1 \in 1 .. LeafDepth - 1 /\ d - 1 \in 1 .. LeafDepth /\ Path(a)[d - 1] # 0
      BY <1>4, <2>2
    <3>2. e # 0
      BY <1>2, <1>6, <3>1, RootIsTop DEF PathFacts
    <3>3. e \in 1 .. LeafDepth
      BY <1>4, <3>2
    <3>4. e = d - 1 /\ Index(j, (d - 1) - 1) = Index(a, (d - 1) - 1)
      BY <1>6, <3>1, <3>3 DEF TreeOK
    <3>5. Index(j, d - 1) = Index(a, d - 1)
      BY <1>2, <1>6, <3>1, <3>4 DEF IndexFacts
    <3>6. QED
      BY <3>4, <3>5
  <2>3. QED
    BY <2>1, <2>2
<1> HIDE DEF c, k, x, n
<1>7. 0 \in T
  <2>1. ASSUME NEW j \in Nat PROVE Good(j, 0)
    <3>1. Path(j)[0] = Directory /\ Path(j)[0]' = Directory'
      BY <1>2 DEF PathFacts
    <3>2. 0 # d /\ ~(0 >= d)
      BY <1>4
    <3>3. QED
      BY <1>3, <3>1, <3>2
  <2>2. QED
    BY <1>4, <2>1
<1>8. ASSUME NEW e \in 0 .. LeafDepth - 1, e \in T
      PROVE  e + 1 \in T
  <2>1. e + 1 \in 1 .. LeafDepth /\ e + 1 \in 0 .. LeafDepth /\ (e + 1) - 1 = e /\ e \in 0 .. LeafDepth
    BY <1>4
  <2> SUFFICES ASSUME NEW j \in Nat PROVE Good(j, e + 1)
    BY <2>1
  <2> DEFINE p == Path(j)[e]
  <2>2. Good(j, e)
    BY <1>8
  <2>3. Path(j)[e + 1] = Child(p, j, e)
    BY <1>2, <2>1 DEF PathFacts
  <2>4. Path(j)[e + 1]' = IF Path(j)[e]' # 0 /\ Digit(j, e) \in DOMAIN mem'[Path(j)[e]'] THEN mem'[Path(j)[e]'][Digit(j, e)] ELSE 0
    <3>1. Path(j)[e + 1]' = Child(Path(j)[e], j, e)'
      BY <1>2, <1>3, <2>1 DEF PathFacts, SameShape
    <3>2. QED
      BY <1>3, <3>1 DEF Child, SameShape
  <2>5. p \in 0 .. Len(mem)
    BY <1>2, <2>1 DEF PathFacts
  <2>6. e + 1 >= d /\ Same(j) => Path(j)[e + 1] = 0
    <3> SUFFICES ASSUME e + 1 >= d, Same(j) PROVE Path(j)[e + 1] = 0
      OBVIOUS
    <3>1. CASE e + 1 = d
      BY <1>5, <3>1
    <3>2. CASE e >= d
      <4>1. p = 0
        BY <2>2, <3>2
      <4>2. QED
        BY <2>3, <4>1 DEF Child
    <3>3. QED
      BY <3>1, <3>2
  <2>7. Path(j)[e + 1]' = After(j, e + 1)
    <3>1. CASE e = d /\ Same(j)
      <4>1. Path(j)[e]' = x
        BY <2>2, <3>1
      <4>2. mem'[x] = Blank(n)
        BY <1>1 DEF MemAfter
      <4>3. Path(j)[e + 1]' = 0
        BY <2>4, <4>1, <4>2 DEF Blank
      <4>4. Path(j)[e + 1] = 0 /\ e + 1 # d
        BY <2>6, <3>1
      <4>5. QED
        BY <4>3, <4>4
    <3>2. CASE ~(e = d /\ Same(j))
      <4>1. Path(j)[e]' = p
        BY <2>2, <3>2
      <4>2. CASE p = 0
        <5>1. ~(e + 1 = d /\ Same(j))
          BY <1>4, <1>5, <4>2
        <5>2. QED
          BY <2>3, <2>4, <4>1, <4>2, <5>1 DEF Child
      <4>3. CASE p # 0
        <5>1. p \in DOMAIN mem
          BY <1>4, <2>5, <4>3
        <5>2. mem'[p] = IF p = c THEN [mem[c] EXCEPT ![k] = x] ELSE mem[p]
          BY <1>1, <5>1 DEF MemAfter
        <5>3. CASE p = c /\ Digit(j, e) = k
          <6>1. e = d - 1 /\ Same(j)
            BY <1>6, <5>3
          <6>2. Path(j)[e + 1]' = x
            BY <1>4, <2>4, <4>1, <4>3, <5>2, <5>3
          <6>3. QED
            BY <6>1, <6>2, <1>4
        <5>4. CASE ~(p = c /\ Digit(j, e) = k)
          <6>1. ~(e + 1 = d /\ Same(j))
            BY <1>5, <5>4, <2>1
          <6>2. DOMAIN mem'[p] = DOMAIN mem[p]
            BY <5>2
          <6>3. Digit(j, e) \in DOMAIN mem[p] => mem'[p][Digit(j, e)] = mem[p][Digit(j, e)]
            BY <5>2, <5>4
          <6>4. Path(j)[e + 1]' = Path(j)[e + 1]
            BY <2>3, <2>4, <4>1, <6>2, <6>3 DEF Child
          <6>5. QED
            BY <6>1, <6>4
        <5>5. QED
          BY <5>3, <5>4
      <4>4. QED
        BY <4>2, <4>3
    <3>3. QED
      BY <3>1, <3>2
  <2>8. QED
    BY <2>6, <2>7
<1> HIDE DEF T
<1>9. 0 .. LeafDepth \subseteq T
  BY <1>4, <1>7, <1>8, Induction
<1>10. ASSUME NEW j \in Nat, NEW e \in 1 .. LeafDepth
       PROVE  Path(j)[e]' = After(j, e)
  <2>1. e \in T
    BY <1>9
  <2>2. QED
    BY <2>1 DEF T
<1>11. QED
  BY <1>10 DEF PathsAfter, x

\* No pointer that was set is lost, and none moves.
Steady ==
  /\ DOMAIN mem \subseteq DOMAIN mem'
  /\ \A o \in DOMAIN mem :
       /\ DOMAIN mem'[o] = DOMAIN mem[o]
       /\ \A k \in DOMAIN mem[o] : mem[o][k] # 0 => mem'[o][k] = mem[o][k]
  /\ \A i \in Nat : \A d \in 1 .. LeafDepth : Path(i)[d] # 0 => Path(i)[d]' = Path(i)[d]

\* ensureNodeLocked and chunkAddLocked keep the tree a tree: the published object
\* is below one cell only, and no pointer a reader may have loaded changes.
LEMMA HangTree ==
  ASSUME TypeInv, TreeOK, ReachOK, NEW a \in Nat, NEW d \in 1 .. LeafDepth, Hangs(a, d)
  PROVE  TypeInv' /\ TreeOK' /\ ReachOK' /\ Steady /\ SameShape
<1> DEFINE c == Path(a)[d - 1]
           k == Digit(a, d - 1)
           x == Len(mem) + 1
           n == IF d = LeafDepth THEN 1 ELSE shape[d]
           Same(j) == Index(j, d - 1) = Index(a, d - 1)
<1>1. MemAfter(c, k, x, n) /\ TypeInv'
  BY HangObjects
<1>2. \A j \in Nat : \A e \in 1 .. LeafDepth :
        Path(j)[e]' = IF e = d /\ Same(j) THEN x ELSE Path(j)[e]
  BY HangPaths DEF PathsAfter
<1>3. SameShape /\ roots' = roots /\ shape' = shape
  BY StillShape DEF Hangs
<1>4. /\ LeafDepth \in Nat \ {0} /\ Len(mem) \in Nat /\ DOMAIN mem = 1 .. Len(mem)
      /\ \A j \in Nat : \A e \in 0 .. LeafDepth : Path(j)[e] \in 0 .. Len(mem)
      /\ Range(roots) \subseteq DOMAIN mem
  <2>1. LeafDepth \in Nat \ {0} /\ Len(mem) \in Nat /\ DOMAIN mem = 1 .. Len(mem)
    BY Geometry DEF TypeInv, MemOK
  <2>2. \A j \in Nat : \A e \in 0 .. LeafDepth : Path(j)[e] \in 0 .. Len(mem)
    BY PathsWalk DEF PathFacts
  <2>3. Range(roots) \subseteq DOMAIN mem
    BY DEF TypeInv, RootsOK, Range
  <2>4. QED
    BY <2>1, <2>2, <2>3
<1>5. c \in DOMAIN mem /\ k \in DOMAIN mem[c] /\ mem[c][k] = 0 /\ Path(a)[d] = 0
  <2>1. d - 1 \in 0 .. LeafDepth /\ c # 0 /\ k \in DOMAIN mem[c] /\ Path(a)[d] = 0
    BY <1>4 DEF Hangs
  <2>2. Path(a)[d] = Child(c, a, d - 1)
    BY PathsWalk DEF PathFacts
  <2>3. c \in DOMAIN mem
    BY <1>4, <2>1
  <2>4. QED
    BY <2>1, <2>2, <2>3 DEF Child
<1>6. \A j \in Nat : Same(j) => Path(j)[d] = 0
  BY <1>5, SameWay
<1> HIDE DEF c, k, x
<1>7. x \notin DOMAIN mem /\ x # 0 /\ x \notin Range(roots)
  BY <1>4 DEF x
<1>8. ASSUME NEW o \in DOMAIN mem
      PROVE  /\ o \in DOMAIN mem' /\ DOMAIN mem'[o] = DOMAIN mem[o]
             /\ \A f \in DOMAIN mem[o] : mem[o][f] # 0 => mem'[o][f] = mem[o][f]
  <2>1. mem'[o] = IF o = c THEN [mem[c] EXCEPT ![k] = x] ELSE mem[o]
    BY <1>1 DEF MemAfter
  <2>2. DOMAIN mem \subseteq DOMAIN mem'
    BY <1>1, <1>4 DEF MemAfter
  <2>3. QED
    BY <1>5, <2>1, <2>2
<1>9. Steady
  <2>1. \A i \in Nat : \A e \in 1 .. LeafDepth : Path(i)[e] # 0 => Path(i)[e]' = Path(i)[e]
    BY <1>2, <1>6
  <2>2. QED
    BY <1>8, <2>1 DEF Steady
<1>10. TreeOK'
  <2> SUFFICES ASSUME NEW i \in Nat, NEW e \in 1 .. LeafDepth, Path(i)[e]' # 0
               PROVE  /\ Path(i)[e]' \notin Range(roots)
                      /\ DOMAIN mem'[Path(i)[e]'] = IF e = LeafDepth THEN {0} ELSE 0 .. shape[e] - 1
                      /\ \A j \in Nat : \A f \in 1 .. LeafDepth :
                           Path(j)[f]' = Path(i)[e]' => f = e /\ Index(j, e - 1) = Index(i, e - 1)
    <3>1. Range(roots)' = Range(roots)
      BY <1>3 DEF Range
    <3>2. QED
      BY <1>3, <3>1 DEF TreeOK, SameShape
  <2>1. CASE e = d /\ Same(i)
    <3>1. Path(i)[e]' = x
      BY <1>2, <2>1
    <3>2. mem'[x] = Blank(n)
      BY <1>1 DEF MemAfter
    <3>3. DOMAIN mem'[x] = IF e = LeafDepth THEN {0} ELSE 0 .. shape[e] - 1
      <4>1. DOMAIN mem'[x] = 0 .. n - 1
        BY <3>2 DEF Blank
      <4>2. 0 .. 1 - 1 = {0}
        OBVIOUS
      <4>3. QED
        BY <2>1, <4>1, <4>2
    <3>4. ASSUME NEW j \in Nat, NEW f \in 1 .. LeafDepth, Path(j)[f]' = x
          PROVE  f = e /\ Index(j, e - 1) = Index(i, e - 1)
      <4>1. Path(j)[f] # x
        <5>1. f \in 0 .. LeafDepth
          BY <1>4
        <5>2. Path(j)[f] \in 0 .. Len(mem)
          BY <1>4, <5>1
        <5>3. QED
          BY <1>4, <1>7, <5>2
      <4>2. f = d /\ Same(j)
        BY <1>2, <3>4, <4>1
      <4>3. QED
        BY <2>1, <4>2
    <3>5. QED
      BY <1>7, <3>1, <3>3, <3>4
  <2>2. CASE ~(e = d /\ Same(i))
    <3>1. Path(i)[e]' = Path(i)[e] /\ Path(i)[e] # 0
      BY <1>2, <2>2
    <3>2. Path(i)[e] \in DOMAIN mem
      <4>1. e \in 0 .. LeafDepth
        BY <1>4
      <4>2. Path(i)[e] \in 0 .. Len(mem)
        BY <1>4, <4>1
      <4>3. QED
        BY <1>4, <3>1, <4>2
    <3>3. /\ Path(i)[e] \notin Range(roots)
          /\ DOMAIN mem[Path(i)[e]] = IF e = LeafDepth THEN {0} ELSE 0 .. shape[e] - 1
      BY <3>1 DEF TreeOK
    <3>4. DOMAIN mem'[Path(i)[e]] = DOMAIN mem[Path(i)[e]]
      BY <1>8, <3>2
    <3>5. ASSUME NEW j \in Nat, NEW f \in 1 .. LeafDepth, Path(j)[f]' = Path(i)[e]
          PROVE  f = e /\ Index(j, e - 1) = Index(i, e - 1)
      <4>1. Path(j)[f] = Path(i)[e]
        BY <1>2, <1>7, <3>2, <3>5
      <4>2. QED
        BY <3>1, <4>1 DEF TreeOK
    <3>6. QED
      BY <3>1, <3>3, <3>4, <3>5
  <2>3. QED
    BY <2>1, <2>2
<1>11. ReachOK'
  <2> SUFFICES ASSUME NEW o \in DOMAIN mem'
               PROVE  o \in Range(roots) \/ \E i \in Nat : \E e \in 1 .. LeafDepth : Path(i)[e]' = o
    <3>1. Range(roots)' = Range(roots)
      BY <1>3 DEF Range
    <3>2. QED
      BY <1>3, <3>1 DEF ReachOK, SameShape
  <2>1. CASE o = x
    BY <1>2, <2>1
  <2>2. CASE o # x
    <3>1. o \in DOMAIN mem
      BY <1>1, <1>4, <2>2 DEF MemAfter
    <3>2. CASE \E i \in Nat : \E e \in 1 .. LeafDepth : Path(i)[e] = o
      <4>1. PICK i \in Nat, e \in 1 .. LeafDepth : Path(i)[e] = o
        BY <3>2
      <4>2. o # 0
        BY <1>4, <3>1
      <4>3. Path(i)[e]' = o
        BY <1>9, <4>1, <4>2 DEF Steady
      <4>4. QED
        BY <4>3
    <3>3. QED
      BY <3>1, <3>2 DEF ReachOK
  <2>3. QED
    BY <2>1, <2>2
<1>12. QED
  BY <1>1, <1>3, <1>9, <1>10, <1>11

-----------------------------------------------------------------------------
\* Slots of a root are numbered from 0, and Capacity counts them.
LEMMA CapacityCounts ==
  ASSUME TypeInv
  PROVE  /\ Capacity \in Nat
         /\ roots = <<>> => Capacity = 0
         /\ roots # <<>> => DOMAIN mem[Directory] = 0 .. Capacity - 1
<1>1. CASE roots = <<>>
  BY <1>1 DEF Capacity
<1>2. CASE roots # <<>>
  <2>1. mem[Directory] \in Arrays
    BY <1>2, DirectoryType DEF TypeInv, MemOK
  <2>2. PICK m \in Nat : mem[Directory] \in [0 .. m - 1 -> Nat]
    BY <2>1 DEF Arrays
  <2>3. IsFiniteSet(0 .. m - 1) /\ Cardinality(0 .. m - 1) = m
    <3>1. 0 \in Int /\ m - 1 \in Int
      OBVIOUS
    <3>2. /\ IsFiniteSet(0 .. m - 1)
          /\ Cardinality(0 .. m - 1) = IF 0 > m - 1 THEN 0 ELSE (m - 1) - 0 + 1
      BY <3>1, FS_Interval
    <3>3. QED
      BY <3>2
  <2>4. QED
    BY <1>2, <2>2, <2>3 DEF Capacity
<1>3. QED
  BY <1>1, <1>2

\* The root of twice the size, filled from the one before.
Doubled(next) ==
  /\ mem' = Append(mem, [k \in 0 .. next - 1 |-> IF k < Capacity THEN mem[Directory][k] ELSE 0])
  /\ roots' = Append(roots, Len(mem) + 1)
  /\ UNCHANGED shape

\* dirGrow adds the larger root and touches no other object.
LEMMA DoubledObjects ==
  ASSUME TypeInv, NEW next \in Nat, Capacity <= next, Doubled(next)
  PROVE  /\ TypeInv'
         /\ Len(mem') = Len(mem) + 1 /\ Directory' = Len(mem) + 1
         /\ \A o \in DOMAIN mem : o \in DOMAIN mem' /\ mem'[o] = mem[o]
         /\ mem'[Len(mem) + 1] = [k \in 0 .. next - 1 |-> IF k < Capacity THEN mem[Directory][k] ELSE 0]
         /\ Range(roots') = Range(roots) \cup {Len(mem) + 1}
<1> DEFINE x == Len(mem) + 1
           new == [k \in 0 .. next - 1 |-> IF k < Capacity THEN mem[Directory][k] ELSE 0]
<1>1. Len(mem) \in Nat /\ DOMAIN mem = 1 .. Len(mem) /\ mem \in Seq(Arrays)
  BY DEF TypeInv, MemOK
<1>2. \A k \in 0 .. next - 1 : new[k] \in 0 .. Len(mem)
  <2> SUFFICES ASSUME NEW k \in 0 .. next - 1 PROVE new[k] \in 0 .. Len(mem)
    OBVIOUS
  <2>1. CASE k < Capacity
    <3>1. Capacity \in Nat /\ roots # <<>> /\ k \in 0 .. Capacity - 1
      BY <2>1, CapacityCounts
    <3>2. Directory \in DOMAIN mem /\ k \in DOMAIN mem[Directory]
      BY <3>1, CapacityCounts, DirectoryType DEF TypeInv
    <3>3. QED
      BY <2>1, <3>2 DEF TypeInv, MemOK
  <2>2. CASE ~(k < Capacity)
    BY <1>1, <2>2
  <2>3. QED
    BY <2>1, <2>2
<1>3. new \in Arrays /\ DOMAIN new = 0 .. next - 1
  <2>1. \A k \in 0 .. next - 1 : new[k] \in Nat
    BY <1>1, <1>2
  <2>2. new \in [0 .. next - 1 -> Nat]
    <3>1. new = [k \in 0 .. next - 1 |-> new[k]]
      OBVIOUS
    <3> HIDE DEF new
    <3>2. QED
      BY <2>1, <3>1
  <2>3. QED
    BY <2>2 DEF Arrays
<1>4. mem' = Append(mem, new) /\ roots' = Append(roots, x) /\ shape' = shape
  BY DEF Doubled
<1> HIDE DEF new
<1>5. /\ mem' \in Seq(Arrays) /\ Len(mem') = x /\ mem'[x] = new /\ DOMAIN mem' = 1 .. x
      /\ \A o \in 1 .. Len(mem) : mem'[o] = mem[o]
  BY <1>1, <1>3, <1>4, AppendProperties
<1>6. MemOK'
  <2>1. ASSUME NEW o \in DOMAIN mem', NEW e \in DOMAIN mem'[o]
        PROVE  mem'[o][e] \in 0 .. Len(mem')
    <3>1. CASE o = x
      BY <1>1, <1>2, <1>3, <1>5, <2>1, <3>1
    <3>2. CASE o # x
      <4>1. o \in DOMAIN mem /\ mem'[o] = mem[o]
        BY <1>1, <1>5, <2>1, <3>2
      <4>2. mem[o][e] \in 0 .. Len(mem)
        BY <2>1, <4>1 DEF TypeInv, MemOK
      <4>3. QED
        BY <1>1, <1>5, <4>1, <4>2
    <3>3. QED
      BY <3>1, <3>2
  <2>2. QED
    BY <1>5, <2>1 DEF MemOK
<1>7. /\ roots \in Seq(DOMAIN mem') /\ x \in DOMAIN mem'
  <2>1. DOMAIN mem \subseteq DOMAIN mem' /\ x \in DOMAIN mem'
    BY <1>1, <1>5
  <2>2. QED
    BY <2>1, SeqMonotonic DEF TypeInv, RootsOK
<1>8. /\ roots' \in Seq(DOMAIN mem') /\ Len(roots') = Len(roots) + 1 /\ roots'[Len(roots) + 1] = x
      /\ \A g \in 1 .. Len(roots) : roots'[g] = roots[g]
      /\ Len(roots) \in Nat /\ DOMAIN roots = 1 .. Len(roots) /\ DOMAIN roots' = 1 .. Len(roots) + 1
  BY <1>4, <1>7, AppendProperties
<1>9. Directory' = x
  BY <1>8 DEF Directory, Last
<1>10. Range(roots') = Range(roots) \cup {x}
  <2>1. ASSUME NEW g \in DOMAIN roots' PROVE roots'[g] \in Range(roots) \cup {x}
    <3>1. CASE g = Len(roots) + 1
      BY <1>8, <3>1
    <3>2. CASE g # Len(roots) + 1
      BY <1>8, <2>1, <3>2 DEF Range
    <3>3. QED
      BY <3>1, <3>2
  <2>2. ASSUME NEW g \in DOMAIN roots PROVE roots[g] \in Range(roots')
    <3>1. g \in DOMAIN roots' /\ roots'[g] = roots[g]
      BY <1>8, <2>2
    <3>2. QED
      BY <3>1 DEF Range
  <2>3. x \in Range(roots')
    <3>1. Len(roots) + 1 \in DOMAIN roots' /\ roots'[Len(roots) + 1] = x
      BY <1>8
    <3>2. QED
      BY <3>1 DEF Range
  <2>4. QED
    BY <2>1, <2>2, <2>3 DEF Range
<1>11. TypeInv'
  BY <1>4, <1>6, <1>8 DEF TypeInv, ShapeOK, RootsOK
<1>12. QED
  BY <1>1, <1>5, <1>9, <1>10, <1>11 DEF new

\* Below the root nothing moves.
LEMMA DoubledPaths ==
  ASSUME TypeInv, TreeOK, NEW next \in Nat, Capacity <= next, Doubled(next)
  PROVE  \A j \in Nat : \A e \in 1 .. LeafDepth : Path(j)[e]' = Path(j)[e]
<1> DEFINE T == {e \in 0 .. LeafDepth : e = 0 \/ \A j \in Nat : Path(j)[e]' = Path(j)[e]}
           x == Len(mem) + 1
           new == [k \in 0 .. next - 1 |-> IF k < Capacity THEN mem[Directory][k] ELSE 0]
<1>1. /\ TypeInv' /\ Directory' = x /\ mem'[x] = new
      /\ \A o \in DOMAIN mem : o \in DOMAIN mem' /\ mem'[o] = mem[o]
  BY DoubledObjects
<1>2. PathFacts /\ PathFacts'
  <2>1. TypeInv' => PathFacts'
    BY PathsWalk, PTL
  <2>2. QED
    BY <1>1, <2>1, PathsWalk
<1>3. SameShape
  BY StillShape DEF Doubled
<1>4. LeafDepth \in Nat \ {0} /\ Len(mem) \in Nat /\ DOMAIN mem = 1 .. Len(mem)
  BY Geometry DEF TypeInv, MemOK
<1>5. \A j \in Nat : Digit(j, 0) \in Nat
  <2>1. 0 \in 0 .. LeafDepth
    BY <1>4
  <2>2. QED
    BY <2>1, RowsHaveDigits DEF IndexFacts, TypeInv
<1>6. 0 \in T
  BY <1>4
<1>7. ASSUME NEW e \in 0 .. LeafDepth - 1, e \in T
      PROVE  e + 1 \in T
  <2>1. e + 1 \in 1 .. LeafDepth /\ e + 1 \in 0 .. LeafDepth /\ (e + 1) - 1 = e /\ e \in 0 .. LeafDepth
    BY <1>4
  <2> SUFFICES ASSUME NEW j \in Nat PROVE Path(j)[e + 1]' = Path(j)[e + 1]
    BY <2>1
  <2>2. Path(j)[e + 1] = Child(Path(j)[e], j, e)
    BY <1>2, <2>1 DEF PathFacts
  <2>3. Path(j)[e + 1]' = IF Path(j)[e]' # 0 /\ Digit(j, e) \in DOMAIN mem'[Path(j)[e]']
                          THEN mem'[Path(j)[e]'][Digit(j, e)] ELSE 0
    <3>1. Path(j)[e + 1]' = Child(Path(j)[e], j, e)'
      BY <1>2, <1>3, <2>1 DEF PathFacts, SameShape
    <3>2. QED
      BY <1>3, <3>1 DEF Child, SameShape
  <2>4. CASE e = 0
    <3>1. Path(j)[e] = Directory /\ Path(j)[e]' = x /\ x # 0
      <4>1. Path(j)[0] = Directory /\ Path(j)[0]' = Directory'
        BY <1>2 DEF PathFacts
      <4>2. QED
        BY <1>1, <1>4, <2>4, <4>1
    <3>2. Path(j)[e + 1]' = IF Digit(j, 0) \in 0 .. next - 1 /\ Digit(j, 0) < Capacity
                            THEN mem[Directory][Digit(j, 0)] ELSE 0
      BY <1>1, <2>3, <2>4, <3>1
    <3>3. Digit(j, 0) \in 0 .. next - 1 /\ Digit(j, 0) < Capacity <=> Digit(j, 0) \in 0 .. Capacity - 1
      <4>1. Digit(j, 0) \in Nat /\ Capacity \in Nat
        BY <1>5, CapacityCounts
      <4>2. QED
        BY <4>1
    <3>4. Directory # 0 /\ Digit(j, 0) \in DOMAIN mem[Directory] <=> Digit(j, 0) \in 0 .. Capacity - 1
      <4>1. CASE roots = <<>>
        BY <4>1, CapacityCounts DEF Directory
      <4>2. CASE roots # <<>>
        BY <4>2, CapacityCounts, DirectoryType DEF TypeInv
      <4>3. QED
        BY <4>1, <4>2
    <3>5. QED
      BY <2>2, <2>4, <3>1, <3>2, <3>3, <3>4 DEF Child
  <2>5. CASE e # 0
    <3>1. Path(j)[e]' = Path(j)[e]
      BY <1>7, <2>5
    <3>2. Path(j)[e] \in 0 .. Len(mem)
      BY <1>2, <2>1 DEF PathFacts
    <3>3. Path(j)[e] # 0 => mem'[Path(j)[e]] = mem[Path(j)[e]]
      BY <1>1, <1>4, <3>2
    <3>4. QED
      BY <2>2, <2>3, <3>1, <3>3 DEF Child
  <2>6. QED
    BY <2>4, <2>5
<1> HIDE DEF T
<1>8. 0 .. LeafDepth \subseteq T
  BY <1>4, <1>6, <1>7, Induction
<1>9. ASSUME NEW j \in Nat, NEW e \in 1 .. LeafDepth
      PROVE  Path(j)[e]' = Path(j)[e]
  <2>1. e \in T /\ e # 0
    BY <1>4, <1>8
  <2>2. QED
    BY <2>1 DEF T
<1>10. QED
  BY <1>9

\* dirGrow keeps the tree: the larger root leads where the old one led, and the
\* old one still does.
LEMMA DoubledTree ==
  ASSUME TypeInv, TreeOK, ReachOK, NEW next \in Nat, Capacity <= next, Doubled(next)
  PROVE  TypeInv' /\ TreeOK' /\ ReachOK' /\ Steady /\ SameShape
<1> DEFINE x == Len(mem) + 1
<1>1. /\ TypeInv' /\ Len(mem') = x /\ Range(roots') = Range(roots) \cup {x}
      /\ \A o \in DOMAIN mem : o \in DOMAIN mem' /\ mem'[o] = mem[o]
  BY DoubledObjects
<1>2. \A j \in Nat : \A e \in 1 .. LeafDepth : Path(j)[e]' = Path(j)[e]
  BY DoubledPaths
<1>3. SameShape /\ shape' = shape
  BY StillShape DEF Doubled
<1>4. /\ Len(mem) \in Nat /\ DOMAIN mem = 1 .. Len(mem) /\ DOMAIN mem' = 1 .. x
      /\ \A j \in Nat : \A e \in 1 .. LeafDepth : Path(j)[e] \in 0 .. Len(mem)
  <2>1. Len(mem) \in Nat /\ DOMAIN mem = 1 .. Len(mem) /\ DOMAIN mem' = 1 .. x
    BY <1>1 DEF TypeInv, MemOK
  <2>2. LeafDepth \in Nat
    BY Geometry DEF TypeInv
  <2>3. \A j \in Nat : \A e \in 0 .. LeafDepth : Path(j)[e] \in 0 .. Len(mem)
    BY PathsWalk DEF PathFacts
  <2>4. \A e \in 1 .. LeafDepth : e \in 0 .. LeafDepth
    BY <2>2
  <2>5. QED
    BY <2>1, <2>3, <2>4
<1>5. Steady
  <2>1. DOMAIN mem \subseteq DOMAIN mem'
    BY <1>1
  <2>2. QED
    BY <1>1, <1>2, <2>1 DEF Steady
<1>6. TreeOK'
  <2> SUFFICES ASSUME NEW i \in Nat, NEW e \in 1 .. LeafDepth, Path(i)[e] # 0
               PROVE  /\ Path(i)[e] \notin Range(roots')
                      /\ DOMAIN mem'[Path(i)[e]] = IF e = LeafDepth THEN {0} ELSE 0 .. shape[e] - 1
                      /\ \A j \in Nat : \A f \in 1 .. LeafDepth :
                           Path(j)[f] = Path(i)[e] => f = e /\ Index(j, e - 1) = Index(i, e - 1)
    <3>1. Range(roots)' = Range(roots')
      OBVIOUS
    <3>2. QED
      BY <1>2, <1>3, <3>1 DEF TreeOK, SameShape
  <2>1. Path(i)[e] \in DOMAIN mem
    BY <1>4
  <2>2. Path(i)[e] # x
    BY <1>4, <2>1
  <2>3. QED
    BY <1>1, <2>1, <2>2 DEF TreeOK
<1>7. ReachOK'
  <2> SUFFICES ASSUME NEW o \in DOMAIN mem'
               PROVE  o \in Range(roots') \/ \E i \in Nat : \E e \in 1 .. LeafDepth : Path(i)[e] = o
    <3>1. Range(roots)' = Range(roots')
      OBVIOUS
    <3>2. QED
      BY <1>2, <1>3, <3>1 DEF ReachOK, SameShape
  <2>1. o \in DOMAIN mem \/ o = x
    BY <1>4
  <2>2. QED
    BY <1>1, <2>1 DEF ReachOK
<1>8. QED
  BY <1>1, <1>3, <1>5, <1>6, <1>7

-----------------------------------------------------------------------------
\* The tail link of the leaf of row p is set.
Ties(p, leaf) ==
  /\ LeafAt(p) # 0 /\ mem[LeafAt(p)][0] = 0 /\ leaf \in 0 .. Len(mem)
  /\ mem' = [mem EXCEPT ![LeafAt(p)][0] = leaf]
  /\ UNCHANGED <<roots, shape>>

\* Setting the tail link of the last leaf changes no way to a row.
LEMMA TieTree ==
  ASSUME TypeInv, TreeOK, ReachOK, NEW p \in Nat, NEW leaf, Ties(p, leaf)
  PROVE  /\ TypeInv' /\ TreeOK' /\ ReachOK' /\ Steady /\ SameShape
         /\ \A j \in Nat : \A e \in 1 .. LeafDepth : Path(j)[e]' = Path(j)[e]
         /\ \A o \in DOMAIN mem : mem'[o] = IF o = LeafAt(p) THEN [mem[o] EXCEPT ![0] = leaf] ELSE mem[o]
         /\ DOMAIN mem[LeafAt(p)] = {0}
<1> DEFINE c == LeafAt(p)
           new == [mem[c] EXCEPT ![0] = leaf]
           T == {e \in 0 .. LeafDepth : \A j \in Nat : Path(j)[e]' = Path(j)[e]}
<1>1. /\ LeafDepth \in Nat \ {0} /\ LeafDepth \in 1 .. LeafDepth
      /\ Len(mem) \in Nat /\ DOMAIN mem = 1 .. Len(mem)
      /\ mem \in Seq(Arrays) /\ PathFacts
  BY Geometry, PathsWalk DEF TypeInv, MemOK
<1>2. c = Path(p)[LeafDepth] /\ c # 0
  BY DEF Ties, LeafAt
<1>3. c \in DOMAIN mem
  <2>1. LeafDepth \in 0 .. LeafDepth
    BY <1>1
  <2>2. c \in 0 .. Len(mem)
    BY <1>1, <1>2, <2>1 DEF PathFacts
  <2>3. QED
    BY <1>1, <1>2, <2>2
<1>4. DOMAIN mem[c] = {0} /\ mem[c][0] = 0
  BY <1>1, <1>2 DEF TreeOK, Ties
<1> HIDE DEF c
<1>5. mem' = [mem EXCEPT ![c] = new] /\ roots' = roots /\ shape' = shape /\ leaf \in 0 .. Len(mem)
  BY DEF Ties, c
<1>6. new \in Arrays /\ DOMAIN new = {0} /\ new[0] = leaf
  <2>0. mem[c] \in Arrays
    BY <1>1, <1>3
  <2>1. PICK m \in Nat : mem[c] \in [0 .. m - 1 -> Nat]
    BY <2>0 DEF Arrays
  <2>2. 0 .. m - 1 = {0} /\ leaf \in Nat
    <3>1. DOMAIN mem[c] = 0 .. m - 1
      BY <2>1
    <3>2. leaf \in Nat
      BY <1>1, <1>5
    <3>3. QED
      BY <1>4, <3>1, <3>2
  <2>3. new \in [0 .. m - 1 -> Nat]
    BY <2>1, <2>2
  <2>4. QED
    BY <1>4, <2>1, <2>3 DEF Arrays
<1> HIDE DEF new
<1>7. /\ mem' \in Seq(Arrays) /\ Len(mem') = Len(mem) /\ DOMAIN mem' = DOMAIN mem
      /\ \A o \in DOMAIN mem : mem'[o] = IF o = c THEN new ELSE mem[o]
  BY <1>1, <1>3, <1>5, <1>6, ExceptSeq
<1>8. MemOK'
  <2>1. ASSUME NEW o \in DOMAIN mem', NEW e \in DOMAIN mem'[o]
        PROVE  mem'[o][e] \in 0 .. Len(mem')
    <3>1. CASE o = c
      BY <1>5, <1>6, <1>7, <2>1, <3>1
    <3>2. CASE o # c
      BY <1>7, <2>1, <3>2 DEF TypeInv, MemOK
    <3>3. QED
      BY <3>1, <3>2
  <2>2. QED
    BY <1>7, <2>1 DEF MemOK
<1>9. TypeInv'
  BY <1>5, <1>7, <1>8 DEF TypeInv, ShapeOK, RootsOK
<1>10. SameShape /\ Directory' = Directory /\ PathFacts'
  <2>1. TypeInv' => PathFacts'
    BY PathsWalk, PTL
  <2>2. QED
    BY <1>5, <1>9, <2>1, StillShape DEF Directory
\* A leaf is the end of every way.
<1>11. ASSUME NEW j \in Nat, NEW e \in 0 .. LeafDepth - 1
       PROVE  Path(j)[e] # c
  <2>1. CASE e = 0
    <3>1. Path(j)[e] = Directory
      BY <1>1, <2>1 DEF PathFacts
    <3>2. QED
      BY <1>1, <1>2, <3>1, RootIsTop
  <2>2. CASE e # 0
    <3>1. e \in 1 .. LeafDepth /\ e # LeafDepth
      BY <1>1, <2>2
    <3>2. QED
      BY <1>1, <1>2, <3>1 DEF TreeOK
  <2>3. QED
    BY <2>1, <2>2
<1>12. 0 \in T
  <2>1. \A j \in Nat : Path(j)[0] = Directory /\ Path(j)[0]' = Directory'
    BY <1>1, <1>10 DEF PathFacts
  <2>2. QED
    BY <1>1, <1>10, <2>1
<1>13. ASSUME NEW e \in 0 .. LeafDepth - 1, e \in T
       PROVE  e + 1 \in T
  <2>1. e + 1 \in 1 .. LeafDepth /\ e + 1 \in 0 .. LeafDepth /\ (e + 1) - 1 = e /\ e \in 0 .. LeafDepth
    BY <1>1
  <2> SUFFICES ASSUME NEW j \in Nat PROVE Path(j)[e + 1]' = Path(j)[e + 1]
    BY <2>1
  <2>2. Path(j)[e + 1] = Child(Path(j)[e], j, e)
    BY <1>1, <2>1 DEF PathFacts
  <2>3. Path(j)[e + 1]' = IF Path(j)[e]' # 0 /\ Digit(j, e) \in DOMAIN mem'[Path(j)[e]']
                          THEN mem'[Path(j)[e]'][Digit(j, e)] ELSE 0
    <3>1. Path(j)[e + 1]' = Child(Path(j)[e], j, e)'
      BY <1>10, <2>1 DEF PathFacts, SameShape
    <3>2. QED
      BY <1>10, <3>1 DEF Child, SameShape
  <2>4. Path(j)[e]' = Path(j)[e] /\ Path(j)[e] # c /\ Path(j)[e] \in 0 .. Len(mem)
    BY <1>1, <1>11, <1>13, <2>1 DEF PathFacts
  <2>5. Path(j)[e] # 0 => mem'[Path(j)[e]] = mem[Path(j)[e]]
    BY <1>1, <1>7, <2>4
  <2>6. QED
    BY <2>2, <2>3, <2>4, <2>5 DEF Child
<1> HIDE DEF T
<1>14. 0 .. LeafDepth \subseteq T
  BY <1>1, <1>12, <1>13, Induction
<1>15. \A j \in Nat : \A e \in 1 .. LeafDepth : Path(j)[e]' = Path(j)[e]
  <2> SUFFICES ASSUME NEW j \in Nat, NEW e \in 1 .. LeafDepth PROVE Path(j)[e]' = Path(j)[e]
    OBVIOUS
  <2>1. e \in T
    BY <1>1, <1>14
  <2>2. QED
    BY <2>1 DEF T
<1>16. ASSUME NEW o \in DOMAIN mem
       PROVE  /\ DOMAIN mem'[o] = DOMAIN mem[o]
              /\ \A k \in DOMAIN mem[o] : mem[o][k] # 0 => mem'[o][k] = mem[o][k]
  BY <1>4, <1>6, <1>7
<1>17. Steady
  BY <1>7, <1>15, <1>16 DEF Steady
<1>18. TreeOK'
  <2> SUFFICES ASSUME NEW i \in Nat, NEW e \in 1 .. LeafDepth, Path(i)[e] # 0
               PROVE  /\ Path(i)[e] \notin Range(roots)
                      /\ DOMAIN mem'[Path(i)[e]] = IF e = LeafDepth THEN {0} ELSE 0 .. shape[e] - 1
                      /\ \A j \in Nat : \A f \in 1 .. LeafDepth :
                           Path(j)[f] = Path(i)[e] => f = e /\ Index(j, e - 1) = Index(i, e - 1)
    <3>1. Range(roots)' = Range(roots)
      BY <1>5 DEF Range
    <3>2. SameShape /\ shape' = shape
      BY <1>5, <1>10
    <3>3. QED
      BY <1>15, <3>1, <3>2 DEF TreeOK, SameShape
  <2>1. Path(i)[e] \in DOMAIN mem
    <3>1. e \in 0 .. LeafDepth
      BY <1>1
    <3>2. Path(i)[e] \in 0 .. Len(mem)
      BY <1>1, <3>1 DEF PathFacts
    <3>3. QED
      BY <1>1, <3>2
  <2>2. QED
    BY <1>16, <2>1 DEF TreeOK
<1>19. ReachOK'
  <2>1. Range(roots)' = Range(roots)
    BY <1>5 DEF Range
  <2>2. QED
    BY <1>7, <1>10, <1>15, <2>1 DEF ReachOK, SameShape
<1>20. \A o \in DOMAIN mem : mem'[o] = IF o = c THEN [mem[o] EXCEPT ![0] = leaf] ELSE mem[o]
  BY <1>7 DEF new
<1>21. QED
  BY <1>4, <1>9, <1>10, <1>15, <1>17, <1>18, <1>19, <1>20 DEF c

\* A step that leaves the objects alone.
LEMMA QuietTree ==
  ASSUME TypeInv, TreeOK, ReachOK, UNCHANGED <<mem, roots, shape>>
  PROVE  TypeInv' /\ TreeOK' /\ ReachOK' /\ Steady /\ SameShape /\ Unmoved
<1>1. Unmoved /\ mem' = mem /\ roots' = roots /\ shape' = shape
  BY StillPaths
<1>2. SameShape
  BY <1>1 DEF Unmoved, SameShape
<1>3. TypeInv'
  BY <1>1 DEF TypeInv, ShapeOK, MemOK, RootsOK
<1>4. Range(roots)' = Range(roots)
  BY <1>1 DEF Range
<1>5. TreeOK'
  BY <1>1, <1>4 DEF TreeOK, Unmoved
<1>6. ReachOK'
  BY <1>1, <1>4 DEF ReachOK, Unmoved
<1>7. Steady
  BY <1>1 DEF Steady, Unmoved
<1>8. QED
  BY <1>1, <1>2, <1>3, <1>5, <1>6, <1>7

-----------------------------------------------------------------------------
\* Numbers of rows.
LEMMA RowNumbers ==
  ASSUME TypeInv, RowsOK
  PROVE  /\ RowsPerChunk \in Nat \ {0} /\ NewRow \in Nat
         /\ Leaved \in {NewRow, NewRow + RowsPerChunk}
         /\ Linked \in {NewRow, NewRow + RowsPerChunk}
         /\ Linked <= Leaved /\ NewRow <= Linked
         /\ \A j \in Nat : Index(j, LeafDepth - 1) = chunkCount
                             <=> NewRow <= j /\ j < NewRow + RowsPerChunk
<1>1. RowsPerChunk \in Nat \ {0} /\ RowsPerChunk = Span(LeafDepth - 1) /\ chunkCount \in Nat
  BY Geometry DEF TypeInv, RowsOK
<1>2. NewRow \in Nat
  BY <1>1, MulOrder DEF NewRow
<1>3. \A j \in Nat : Index(j, LeafDepth - 1) = chunkCount
                       <=> NewRow <= j /\ j < NewRow + RowsPerChunk
  BY <1>1, InChunk DEF Index, NewRow
<1>4. Leaved \in {NewRow, NewRow + RowsPerChunk} /\ Linked \in {NewRow, NewRow + RowsPerChunk}
  BY DEF Leaved, Linked
<1>5. Linked <= Leaved /\ NewRow <= Linked
  BY <1>1, <1>2 DEF Leaved, Linked, Pending
<1>6. QED
  BY <1>1, <1>2, <1>3, <1>4, <1>5

\* A leaf is the end of every way.
LEMMA LeafIsEnd ==
  ASSUME TypeInv, TreeOK, NEW i \in Nat, NEW a \in Nat, LeafAt(i) # 0, NEW e \in 0 .. LeafDepth - 1
  PROVE  Path(a)[e] # LeafAt(i)
<1>1. LeafDepth \in Nat \ {0} /\ LeafDepth \in 1 .. LeafDepth /\ PathFacts
  BY Geometry, PathsWalk DEF TypeInv
<1>2. LeafAt(i) = Path(i)[LeafDepth]
  BY DEF LeafAt
<1>3. CASE e = 0
  <2>1. Path(a)[e] = Directory
    BY <1>1, <1>3 DEF PathFacts
  <2>2. QED
    BY <1>1, <1>2, <2>1, RootIsTop
<1>4. CASE e # 0
  <2>1. e \in 1 .. LeafDepth /\ e # LeafDepth
    BY <1>1, <1>4
  <2>2. QED
    BY <1>1, <1>2, <2>1 DEF TreeOK
<1>5. QED
  BY <1>3, <1>4

\* What leafAtRow returns is null or an object.
LEMMA LeafType ==
  ASSUME TypeInv, NEW i \in Nat
  PROVE  LeafAt(i) \in 0 .. Len(mem) /\ (LeafAt(i) # 0 => LeafAt(i) \in DOMAIN mem)
<1>1. LeafDepth \in 0 .. LeafDepth /\ DOMAIN mem = 1 .. Len(mem) /\ Len(mem) \in Nat
  BY Geometry DEF TypeInv, MemOK
<1>2. LeafAt(i) \in 0 .. Len(mem)
  BY <1>1, PathsWalk DEF PathFacts, LeafAt
<1>3. QED
  BY <1>1, <1>2

\* A leaf that is found once is found again after any step of a writer: leaves
\* never move.
LEMMA SteadyLeaves ==
  ASSUME TypeInv, Steady, SameShape, NEW i \in Nat, LeafAt(i) # 0
  PROVE  LeafAt(i)' = LeafAt(i)
<1>1. LeafDepth \in 1 .. LeafDepth
  BY Geometry DEF TypeInv
<1>2. Path(i)[LeafDepth]' = Path(i)[LeafDepth]
  <2>1. \A d \in 1 .. LeafDepth : Path(i)[d] # 0 => Path(i)[d]' = Path(i)[d]
    BY DEF Steady
  <2>2. PICK d \in 1 .. LeafDepth : d = LeafDepth
    BY <1>1
  <2>3. Path(i)[d]' = Path(i)[d]
    BY <2>1, <2>2 DEF LeafAt
  <2>4. LeafDepth' = d
    BY <2>2 DEF SameShape
  <2>5. QED
    BY <2>2, <2>3, <2>4
<1>3. QED
  BY <1>2 DEF LeafAt

\* A published row has a leaf.
LEMMA CommittedHasLeaf ==
  ASSUME TypeInv, RowsOK, LeavesOK, NEW i \in Nat, i < committed
  PROVE  LeafAt(i) # 0
<1>1. i < Leaved
  <2>1. committed \in Nat /\ committed <= NewRow
    BY DEF RowsOK
  <2>2. NewRow \in Nat /\ RowsPerChunk \in Nat /\ Leaved \in {NewRow, NewRow + RowsPerChunk}
    BY RowNumbers
  <2>3. QED
    BY <2>1, <2>2
<1>2. QED
  BY <1>1 DEF LeavesOK

\* Readers do not feel the writers' steps.
LEMMA SteadyReaders ==
  ASSUME TypeInv, RowsOK, LeavesOK, ReadersOK, Steady, SameShape, rd' = rd,
         committed' \in Nat, committed <= committed', chunkCount' \in Nat, chunkCount <= chunkCount'
  PROVE  ReadersOK'
<1> SUFFICES ASSUME NEW r \in Readers PROVE ReaderOK(r)'
  BY DEF ReadersOK
<1> DEFINE i == rd[r].i  o == rd[r].o  n == rd[r].n  depth == rd[r].depth
<1>1. rd[r] \in ReaderStates /\ ReaderOK(r) /\ rd'[r] = rd[r]
  BY DEF ReadersOK
<1>2. i \in Nat /\ n \in Nat /\ o \in Nat /\ depth \in Nat
  BY <1>1 DEF ReaderStates
<1>3. committed \in Nat /\ chunkCount \in Nat /\ LeafDepth \in Nat
  BY Geometry DEF RowsOK, TypeInv
<1>4. rd[r].at \in {"root", "hop", "found"} => i < n /\ n <= committed /\ n <= committed' /\ LeafAt(i) # 0
  <2> SUFFICES ASSUME rd[r].at \in {"root", "hop", "found"}
               PROVE  i < n /\ n <= committed /\ n <= committed' /\ LeafAt(i) # 0
    OBVIOUS
  <2>1. i < n /\ n <= committed
    BY <1>1 DEF ReaderOK
  <2>2. i < committed /\ n <= committed'
    BY <1>2, <1>3, <2>1
  <2>3. QED
    BY <1>2, <2>1, <2>2, CommittedHasLeaf
<1>5. ASSUME rd[r].at = "hop"
      PROVE  /\ depth \in 0 .. LeafDepth - 1 /\ o \in DOMAIN mem'
             /\ Child(o, i, depth)' = Path(i)[depth + 1]'
             /\ depth > 0 => o = Path(i)[depth]'
  <2>1. /\ depth \in 0 .. LeafDepth - 1 /\ o \in DOMAIN mem
        /\ Child(o, i, depth) = Path(i)[depth + 1]
        /\ depth > 0 => o = Path(i)[depth]
    BY <1>1, <1>5 DEF ReaderOK
  <2>2. depth + 1 \in 1 .. LeafDepth /\ depth + 1 \in 0 .. LeafDepth /\ depth \in 0 .. LeafDepth
    BY <1>3, <2>1
  <2>3. Path(i)[depth + 1] # 0
    BY <1>2, <1>4, <1>5, <2>2, LeafHasWay
  <2>4. Path(i)[depth + 1]' = Path(i)[depth + 1]
    <3>1. PICK d \in 1 .. LeafDepth : d = depth + 1
      BY <2>2
    <3>2. Path(i)[d]' = Path(i)[d]
      BY <1>2, <2>3, <3>1 DEF Steady
    <3>3. i' = i /\ depth' = depth
      OBVIOUS
    <3> HIDE DEF i, depth
    <3>4. QED
      BY <3>1, <3>2, <3>3
  <2>5. o # 0 /\ Digit(i, depth) \in DOMAIN mem[o] /\ mem[o][Digit(i, depth)] = Path(i)[depth + 1]
    BY <2>1, <2>3 DEF Child
  <2>6. o \in DOMAIN mem' /\ Digit(i, depth) \in DOMAIN mem'[o] /\ mem'[o][Digit(i, depth)] = Path(i)[depth + 1]
    BY <2>1, <2>3, <2>5 DEF Steady
  <2>7. Child(o, i, depth)' = Path(i)[depth + 1]
    <3>1. Digit(i, depth)' = Digit(i, depth)
      BY <1>1 DEF SameShape
    <3>2. QED
      BY <1>1, <2>5, <2>6, <3>1 DEF Child
  <2>8. depth > 0 => o = Path(i)[depth]'
    <3> SUFFICES ASSUME depth > 0 PROVE o = Path(i)[depth]'
      OBVIOUS
    <3>1. PICK d \in 1 .. LeafDepth : d = depth
      BY <1>3, <2>1
    <3>2. Path(i)[d]' = Path(i)[d]
      BY <1>2, <2>1, <2>5, <3>1 DEF Steady
    <3>3. i' = i /\ depth' = depth
      OBVIOUS
    <3>4. Path(i)[d] = o
      BY <2>1, <3>1
    <3> HIDE DEF i, depth, o
    <3>5. QED
      BY <3>1, <3>2, <3>3, <3>4
  <2>9. QED
    BY <2>1, <2>4, <2>6, <2>7, <2>8
<1>6. ASSUME rd[r].at = "found"
      PROVE  o = LeafAt(i)'
  <2>1. o = LeafAt(i)
    BY <1>1, <1>6 DEF ReaderOK
  <2>2. QED
    BY <1>2, <1>4, <1>6, <2>1, SteadyLeaves
<1>7. ASSUME rd[r].at = "chunk"
      PROVE  /\ n <= chunkCount'
             /\ IF o = 0 THEN i >= n ELSE o = LeafAt(i * RowsPerChunk)'
  <2>1. n <= chunkCount /\ (IF o = 0 THEN i >= n ELSE o = LeafAt(i * RowsPerChunk))
    BY <1>1, <1>7 DEF ReaderOK
  <2>2. i * RowsPerChunk \in Nat
    BY <1>2, Geometry, MulOrder DEF TypeInv
  <2>3. o # 0 => LeafAt(i * RowsPerChunk)' = LeafAt(i * RowsPerChunk)
    <3> SUFFICES ASSUME o # 0 PROVE LeafAt(i * RowsPerChunk)' = LeafAt(i * RowsPerChunk)
      OBVIOUS
    <3>1. PICK j \in Nat : j = i * RowsPerChunk
      BY <2>2
    <3>2. LeafAt(j)' = LeafAt(j)
      BY <2>1, <3>1, SteadyLeaves
    <3>3. i' = i /\ RowsPerChunk' = RowsPerChunk
      BY DEF SameShape
    <3> HIDE DEF i
    <3>4. QED
      BY <3>1, <3>2, <3>3
  <2>4. QED
    BY <1>2, <1>3, <2>1, <2>3
<1>8. QED
  BY <1>1, <1>4, <1>5, <1>6, <1>7 DEF ReaderOK, SameShape

\* Rows that addSlot has handed out keep their addresses.
LEMMA SteadyRows ==
  ASSUME TypeInv, RowsOK, LeavesOK, Steady, SameShape, UNCHANGED <<committed, handed>>,
         chunkCount' \in Nat, chunkCount <= chunkCount'
  PROVE  RowsOK'
<1>1. /\ chunkCount \in Nat /\ committed \in Nat /\ handed \in Seq(Nat \X Nat) /\ Len(handed) = committed
      /\ committed <= NewRow /\ \A i \in 0 .. committed - 1 : handed[i + 1] = Row(i)
  BY DEF RowsOK
<1>2. committed <= NewRow'
  <2>1. RowsPerChunk \in Nat \ {0} /\ RowsPerChunk' = RowsPerChunk
    BY RowNumbers DEF SameShape
  <2>2. chunkCount * RowsPerChunk <= chunkCount' * RowsPerChunk /\ NewRow \in Nat
    BY <1>1, <2>1, MulOrder, RowNumbers
  <2>3. NewRow' \in Nat /\ NewRow <= NewRow'
    <3>1. NewRow' = chunkCount' * RowsPerChunk /\ NewRow = chunkCount * RowsPerChunk
      BY <2>1 DEF NewRow
    <3>2. chunkCount' * RowsPerChunk \in Nat
      BY <2>1, MulOrder
    <3>3. QED
      BY <2>2, <3>1, <3>2
  <2>4. QED
    BY <1>1, <2>2, <2>3
<1>3. ASSUME NEW i \in 0 .. committed - 1
      PROVE  Row(i)' = Row(i)
  <2>1. i \in Nat /\ i < committed
    BY <1>1
  <2>2. LeafAt(i)' = LeafAt(i)
    BY <2>1, CommittedHasLeaf, SteadyLeaves
  <2>3. QED
    BY <2>2 DEF Row, SameShape
<1>4. \A i \in 0 .. committed' - 1 : handed'[i + 1] = Row(i)'
  BY <1>1, <1>3
<1>5. QED
  BY <1>1, <1>2, <1>4 DEF RowsOK

\* The chain is as it was when no leaf's link, nor any leaf, is touched.
LEMMA ChainKept ==
  ASSUME TypeInv, RowsOK, LeavesOK, ChainOK, SameShape,
         \A i \in Nat : LeafAt(i)' = LeafAt(i),
         \A i \in Nat : LeafAt(i) # 0 => mem'[LeafAt(i)] = mem[LeafAt(i)],
         Leaved' = Leaved, Linked' = Linked
  PROVE  LeavesOK' /\ ChainOK'
<1>1. LeavesOK'
  BY DEF LeavesOK
<1>2. ASSUME NEW i \in Nat, i < Leaved
      PROVE  mem'[LeafAt(i)'][0] = IF i + RowsPerChunk < Linked THEN LeafAt(i + RowsPerChunk)' ELSE 0
  <2>1. mem[LeafAt(i)][0] = IF i + RowsPerChunk < Linked THEN LeafAt(i + RowsPerChunk) ELSE 0
    BY <1>2 DEF ChainOK
  <2>2. LeafAt(i) # 0
    BY <1>2 DEF LeavesOK
  <2>3. i + RowsPerChunk \in Nat
    BY RowNumbers
  <2>4. LeafAt(i + RowsPerChunk)' = LeafAt(i + RowsPerChunk)
    <3>1. PICK j \in Nat : j = i + RowsPerChunk
      BY <2>3
    <3>2. LeafAt(j)' = LeafAt(j)
      OBVIOUS
    <3>3. RowsPerChunk' = RowsPerChunk
      BY DEF SameShape
    <3>4. QED
      BY <3>1, <3>2, <3>3
  <2>5. QED
    BY <2>1, <2>2, <2>4
<1>3. ChainOK'
  BY <1>2 DEF ChainOK, SameShape
<1>4. QED
  BY <1>1, <1>3

-----------------------------------------------------------------------------
\* The gate: of the writers only one is past it.
Inside == {"grow", "walk", "link", "count", "leave"}

\* The gate keeps all other writers out of the tree while one is in it.
LEMMA Alone ==
  ASSUME LockInv, WritersOK, NEW t \in Threads, wr[t].at \in Inside,
         NEW s \in Threads, s # t
  PROVE  wr[s].at \in {"idle", "gate"}
<1>1. \A u \in Threads : wr[u].at \in Inside => Owns(u)
  BY DEF WritersOK, WriterOK, At, Owns, Inside
<1>2. wr[s].at \notin Inside
  BY <1>1 DEF LockInv, MutualExclusion
<1>3. wr[s] \in WriterStates
  BY DEF WritersOK
<1>4. QED
  BY <1>2, <1>3 DEF WriterStates, Inside

\* So the flags are those of the writer inside.
LEMMA InsideFlags ==
  ASSUME LockInv, WritersOK, NEW t \in Threads, wr[t].at \in Inside,
         NEW w \in WriterStates, Set(t, w)
  PROVE  /\ Linking <=> wr[t].at = "link"
         /\ Counting <=> wr[t].at = "count"
         /\ Linking' <=> w.at = "link"
         /\ Counting' <=> w.at = "count"
<1>1. wr \in [Threads -> WriterStates] /\ wr' = [wr EXCEPT ![t] = w]
  BY DEF WritersOK, Set
<1>2. \A s \in Threads : s # t => wr[s].at \in {"idle", "gate"} /\ wr'[s] = wr[s]
  BY <1>1, Alone
<1>3. wr'[t] = w
  BY <1>1
<1>4. QED
  BY <1>2, <1>3 DEF Linking, Counting, At

\* The other writers' states stand when the one inside moves.
LEMMA InsideWriters ==
  ASSUME LockInv, WritersOK, NEW t \in Threads, wr[t].at \in Inside,
         NEW w \in WriterStates, Set(t, w), lk' = lk, WriterOK(t)'
  PROVE  WritersOK'
<1>1. wr' \in [Threads -> WriterStates] /\ \A s \in Threads : s # t => wr'[s] = wr[s]
  BY DEF WritersOK, Set
<1>2. ASSUME NEW s \in Threads, s # t
      PROVE  WriterOK(s)'
  <2>1. wr[s].at \in {"idle", "gate"} /\ WriterOK(s)
    BY <1>2, Alone DEF WritersOK
  <2>2. QED
    BY <1>1, <1>2, <2>1 DEF WriterOK, At
<1>3. QED
  BY <1>1, <1>2 DEF WritersOK

\* Steps outside the tree: a writer moves, perhaps with the lock, between
\* places where it has no leaf in hand.
LEMMA QuietWriter ==
  ASSUME ListInv, NEW t \in Threads, NEW w \in WriterStates, Set(t, w),
         UNCHANGED <<mem, roots, shape, chunkCount, rd>>,
         committed' \in Nat, committed <= committed', RowsOK',
         LockInv', \A s \in Threads : s # t => lk'[s] = lk[s],
         wr[t].at \notin {"link", "count"}, w.at \notin {"link", "count"},
         WriterOK(t)'
  PROVE  ListInv'
<1> USE DEF ListInv
<1>1. TypeInv' /\ TreeOK' /\ ReachOK' /\ Steady /\ SameShape /\ Unmoved
  BY QuietTree
<1>2. wr' = [wr EXCEPT ![t] = w] /\ wr \in [Threads -> WriterStates]
  BY DEF Set, WritersOK
<1>3. wr'[t] = w /\ wr' \in [Threads -> WriterStates] /\ \A s \in Threads : s # t => wr'[s] = wr[s]
  BY <1>2
<1>4. (Linking' <=> Linking) /\ (Counting' <=> Counting)
  BY <1>3 DEF Linking, Counting, At
<1>5. NewRow' = NewRow
  BY <1>1 DEF NewRow, SameShape
<1>6. Leaved' = Leaved /\ Linked' = Linked
  BY <1>1, <1>4, <1>5 DEF Leaved, Linked, Pending, SameShape
<1>7. LeavesOK' /\ ChainOK'
  <2>1. \A i \in Nat : LeafAt(i)' = LeafAt(i)
    BY <1>1 DEF Unmoved
  <2>2. \A i \in Nat : LeafAt(i) # 0 => mem'[LeafAt(i)] = mem[LeafAt(i)]
    OBVIOUS
  <2>3. QED
    BY <1>1, <1>6, <2>1, <2>2, ChainKept
<1>8. ReadersOK'
  <2>1. chunkCount' \in Nat /\ chunkCount <= chunkCount'
    BY DEF RowsOK
  <2>2. QED
    BY <1>1, <2>1, SteadyReaders
<1>9. WritersOK'
  <2>1. ASSUME NEW s \in Threads, s # t
        PROVE  WriterOK(s)'
    <3>1. WriterOK(s) /\ wr'[s] = wr[s] /\ lk'[s] = lk[s]
      BY <1>3, <2>1 DEF WritersOK
    <3>2. /\ Path(NewRow)' = Path(NewRow) /\ LeafDepth' = LeafDepth /\ mem' = mem
          /\ \A d : Digit(NewRow, d)' = Digit(NewRow, d)
      BY <1>1, <1>5 DEF Unmoved
    <3>3. QED
      BY <3>1, <3>2 DEF WriterOK, At
  <2>2. QED
    BY <1>3, <2>1 DEF WritersOK
<1>10. QED
  BY <1>1, <1>7, <1>8, <1>9

\* A step that hands out no row keeps what is known of the rows.
LEMMA RowsStay ==
  ASSUME ListInv, UNCHANGED <<mem, roots, shape, chunkCount, committed, handed>>
  PROVE  RowsOK' /\ committed' \in Nat /\ committed <= committed'
<1>1. committed \in Nat /\ chunkCount \in Nat
  BY DEF ListInv, RowsOK
<1>2. Steady /\ SameShape
  BY QuietTree DEF ListInv
<1>3. RowsOK'
  BY <1>1, <1>2, SteadyRows DEF ListInv
<1>4. QED
  BY <1>1, <1>3

-----------------------------------------------------------------------------
\* Writers outside the tree, and on the way to the gate and from it.

\* addSlot asks for the gate.
LEMMA AddSlotInv ==
  ASSUME ListInv, NEW t \in Threads, AddSlot(t)
  PROVE  ListInv'
<1> DEFINE w == [IdleWriter EXCEPT !.at = "gate"]
<1>1. w \in WriterStates /\ w.at = "gate"
  BY DEF WriterStates, IdleWriter
<1> HIDE DEF w
<1>2. Set(t, w) /\ UNCHANGED <<mem, roots, shape, chunkCount, committed, handed, rd>> /\ TimedLock(t)
  BY DEF AddSlot, listVars, w
<1>3. LockInv' /\ lk \in [Threads -> {"out", "spin", "timed", "in", "rel"}]
  BY <1>2, LockStepInv DEF LockNext, ListInv, LockInv, LockTypeOK
<1>4. lk'[t] = "timed" /\ \A s \in Threads : s # t => lk'[s] = lk[s]
  BY <1>2, <1>3 DEF TimedLock, Goto
<1>5. wr'[t] = w
  BY <1>2 DEF Set, ListInv, WritersOK
<1>6. WriterOK(t)'
  BY <1>1, <1>4, <1>5 DEF WriterOK, At
<1>7. wr[t].at = "idle"
  BY DEF AddSlot, At
<1>8. RowsOK' /\ committed' \in Nat /\ committed <= committed'
  BY <1>2, RowsStay
<1>9. QED
  BY <1>1, <1>2, <1>3, <1>4, <1>6, <1>7, <1>8, QuietWriter

\* reserve asks for the gate.
LEMMA ReserveInv ==
  ASSUME ListInv, NEW t \in Threads, NEW rows \in Reserves, Reserve(t, rows)
  PROVE  ListInv'
<1> DEFINE need == (rows + RowsPerChunk - 1) \div RowsPerChunk
           w == [IdleWriter EXCEPT !.at = "gate", !.op = "reserve", !.need = need]
<1>1. need \in Nat
  <2>1. RowsPerChunk \in Nat \ {0} /\ rows \in Nat
    BY RowNumbers, ListAssumption DEF ListInv
  <2>2. rows + RowsPerChunk - 1 \in Nat
    BY <2>1
  <2>3. QED
    BY <2>1, <2>2, DivMod
<1> HIDE DEF need
<1>2. w \in WriterStates /\ w.at = "gate"
  BY <1>1 DEF WriterStates, IdleWriter
<1> HIDE DEF w
<1>3. Set(t, w) /\ UNCHANGED <<mem, roots, shape, chunkCount, committed, handed, rd>> /\ TimedLock(t)
  BY DEF Reserve, listVars, w, need
<1>4. LockInv' /\ lk \in [Threads -> {"out", "spin", "timed", "in", "rel"}]
  BY <1>3, LockStepInv DEF LockNext, ListInv, LockInv, LockTypeOK
<1>5. lk'[t] = "timed" /\ \A s \in Threads : s # t => lk'[s] = lk[s]
  BY <1>3, <1>4 DEF TimedLock, Goto
<1>6. wr'[t] = w
  BY <1>3 DEF Set, ListInv, WritersOK
<1>7. WriterOK(t)'
  BY <1>2, <1>5, <1>6 DEF WriterOK, At
<1>8. wr[t].at = "idle"
  BY DEF Reserve, At
<1>9. RowsOK' /\ committed' \in Nat /\ committed <= committed'
  BY <1>3, RowsStay
<1>10. QED
  BY <1>2, <1>3, <1>4, <1>5, <1>7, <1>8, <1>9, QuietWriter

\* The deadline passes at the gate: nothing was touched.
LEMMA GiveUpInv ==
  ASSUME ListInv, NEW t \in Threads, GiveUp(t)
  PROVE  ListInv'
<1>1. IdleWriter \in WriterStates /\ IdleWriter.at = "idle"
  BY DEF WriterStates, IdleWriter
<1>2. Set(t, IdleWriter) /\ UNCHANGED <<mem, roots, shape, chunkCount, committed, handed, rd>> /\ TimedExpire(t)
  BY DEF GiveUp, listVars
<1>3. LockInv' /\ lk \in [Threads -> {"out", "spin", "timed", "in", "rel"}]
  BY <1>2, LockStepInv DEF LockNext, ListInv, LockInv, LockTypeOK
<1>4. lk'[t] = "out" /\ \A s \in Threads : s # t => lk'[s] = lk[s]
  BY <1>2, <1>3 DEF TimedExpire, Goto
<1>5. wr'[t] = IdleWriter
  BY <1>2 DEF Set, ListInv, WritersOK
<1>6. WriterOK(t)'
  BY <1>1, <1>4, <1>5 DEF WriterOK, At
<1>7. wr[t].at = "gate"
  BY DEF GiveUp, At
<1>8. RowsOK' /\ committed' \in Nat /\ committed <= committed'
  BY <1>2, RowsStay
<1>9. QED
  BY <1>1, <1>2, <1>3, <1>4, <1>6, <1>7, <1>8, QuietWriter

\* A writer takes the gate, and addSlot knows the leaves its row needs.
LEMMA EnterInv ==
  ASSUME ListInv, NEW t \in Threads, Enter(t)
  PROVE  ListInv'
<1>1. wr[t] \in WriterStates /\ wr[t].at = "gate"
  BY DEF Enter, At, ListInv, WritersOK
<1>2. committed \div RowsPerChunk + 1 \in Nat
  <2>1. RowsPerChunk \in Nat \ {0} /\ committed \in Nat
    BY RowNumbers DEF ListInv, RowsOK
  <2>2. QED
    BY <2>1, DivMod
<1>3. PICK w \in WriterStates : Set(t, w) /\ w.at \in {"grow", "leave"}
  <2>1. CASE wr[t].op = "reserve"
    <3>1. [wr[t] EXCEPT !.at = "grow"] \in WriterStates
      BY <1>1 DEF WriterStates
    <3>2. [wr[t] EXCEPT !.at = "grow"].at = "grow"
      BY <1>1 DEF WriterStates
    <3>3. QED
      BY <2>1, <3>1, <3>2 DEF Enter
  <2>2. CASE wr[t].op # "reserve" /\ committed = MaxIndex
    <3>1. [wr[t] EXCEPT !.at = "leave"] \in WriterStates
      BY <1>1 DEF WriterStates
    <3>2. [wr[t] EXCEPT !.at = "leave"].at = "leave"
      BY <1>1 DEF WriterStates
    <3>3. QED
      BY <2>2, <3>1, <3>2 DEF Enter, Leaves
  <2>3. CASE wr[t].op # "reserve" /\ committed # MaxIndex
    <3> DEFINE w == [wr[t] EXCEPT !.at = "grow", !.need = committed \div RowsPerChunk + 1]
    <3>1. w \in WriterStates
      BY <1>1, <1>2 DEF WriterStates
    <3>2. w.at = "grow"
      BY <1>1 DEF WriterStates
    <3>3. QED
      BY <2>3, <3>1, <3>2 DEF Enter
  <2>4. QED
    BY <2>1, <2>2, <2>3
<1>4. UNCHANGED <<mem, roots, shape, chunkCount, committed, handed, rd>> /\ TimedTake(t)
  BY DEF Enter, listVars
<1>5. LockInv' /\ lk \in [Threads -> {"out", "spin", "timed", "in", "rel"}]
  BY <1>4, LockStepInv DEF LockNext, ListInv, LockInv, LockTypeOK
<1>6. lk'[t] = "in" /\ \A s \in Threads : s # t => lk'[s] = lk[s]
  BY <1>4, <1>5 DEF TimedTake, Goto
<1>7. wr'[t] = w
  BY <1>3 DEF Set, ListInv, WritersOK
<1>8. WriterOK(t)'
  BY <1>3, <1>6, <1>7 DEF WriterOK, At
<1>9. RowsOK' /\ committed' \in Nat /\ committed <= committed'
  BY <1>4, RowsStay
<1>10. QED
  BY <1>1, <1>3, <1>4, <1>5, <1>6, <1>8, <1>9, QuietWriter

\* A writer leaves the gate.
LEMMA UnlockInv ==
  ASSUME ListInv, NEW t \in Threads, Unlock(t)
  PROVE  ListInv'
<1>1. wr[t] \in WriterStates /\ wr[t].at = "leave" /\ wr = [wr EXCEPT ![t] = wr[t]]
  BY DEF Unlock, At, ListInv, WritersOK
<1>2. UNCHANGED <<mem, roots, shape, chunkCount, committed, handed, rd>>
  BY DEF Unlock, listVars
<1>3. RowsOK' /\ committed' \in Nat /\ committed <= committed'
  BY <1>2, RowsStay
<1>4. lk \in [Threads -> {"out", "spin", "timed", "in", "rel"}] /\ LockInv
  BY DEF ListInv, LockInv, LockTypeOK
<1>5. CASE lk[t] = "in" /\ UnlockLoad(t) /\ UNCHANGED wr
  <2>1. LockInv'
    BY <1>4, <1>5, LockStepInv DEF LockNext
  <2>2. word = Ticket(t) /\ word # 0
    BY <1>4, <1>5, TicketNonZero DEF LockInv, WordIsOwner, Owns
  <2>3. lk'[t] = "rel" /\ \A s \in Threads : s # t => lk'[s] = lk[s]
    BY <1>4, <1>5, <2>2 DEF UnlockLoad, Goto
  <2>4. Set(t, wr[t]) /\ wr'[t] = wr[t]
    BY <1>1, <1>5 DEF Set
  <2>5. WriterOK(t)'
    BY <1>1, <2>3, <2>4 DEF WriterOK, At
  <2>6. QED
    BY <1>1, <1>2, <1>3, <2>1, <2>3, <2>4, <2>5, QuietWriter
<1>6. CASE UnlockStore(t) /\ Set(t, IdleWriter)
  <2>1. LockInv'
    BY <1>4, <1>6, LockStepInv DEF LockNext
  <2>2. lk'[t] = "out" /\ \A s \in Threads : s # t => lk'[s] = lk[s]
    BY <1>4, <1>6 DEF UnlockStore, Goto
  <2>3. IdleWriter \in WriterStates /\ IdleWriter.at = "idle"
    BY DEF WriterStates, IdleWriter
  <2>4. wr'[t] = IdleWriter
    BY <1>6 DEF Set, ListInv, WritersOK
  <2>5. WriterOK(t)'
    BY <2>2, <2>3, <2>4 DEF WriterOK, At
  <2>6. QED
    BY <1>1, <1>2, <1>3, <1>6, <2>1, <2>2, <2>3, <2>5, QuietWriter
<1>7. QED
  BY <1>5, <1>6 DEF Unlock

-----------------------------------------------------------------------------
\* Writers in the tree.

\* A move of the writer inside that leaves lock and list alone, to a place
\* where it has no leaf in hand.
LEMMA InsideMove ==
  ASSUME ListInv, NEW t \in Threads, NEW w \in WriterStates, Set(t, w),
         UNCHANGED <<mem, roots, shape, chunkCount, committed, handed, rd, lockVars>>,
         wr[t].at \in {"grow", "walk"}, w.at \in {"grow", "walk", "leave"},
         w.at = "walk" =>
           /\ w.depth \in 1 .. LeafDepth
           /\ w.cell = <<Path(NewRow)[w.depth - 1], Digit(NewRow, w.depth - 1)>>
           /\ w.cell[1] # 0 /\ w.cell[2] \in DOMAIN mem[w.cell[1]]
  PROVE  ListInv'
<1>1. RowsOK' /\ committed' \in Nat /\ committed <= committed'
  BY RowsStay
<1>2. LockInv' /\ lk' = lk
  <2>1. LockInv /\ word' = word /\ lk' = lk
    BY DEF ListInv, lockVars
  <2>2. QED
    BY <2>1, LockStepInv DEF lockVars
<1>3. lk[t] = "in" /\ wr'[t] = w
  BY DEF ListInv, WritersOK, WriterOK, Set
<1>4. Unmoved /\ NewRow' = NewRow
  <2>1. Unmoved
    BY StillPaths
  <2>2. QED
    BY <2>1 DEF Unmoved, NewRow
<1>5. WriterOK(t)'
  <2>1. /\ Path(NewRow)' = Path(NewRow) /\ LeafDepth' = LeafDepth /\ mem' = mem
        /\ \A d : Digit(NewRow, d)' = Digit(NewRow, d)
    BY <1>4 DEF Unmoved
  <2>2. QED
    BY <1>2, <1>3, <2>1 DEF WriterOK, At
<1>6. QED
  BY <1>1, <1>2, <1>5, QuietWriter

\* A call fails half way: what it has published stays, and the list is sound.
LEMMA AllocFailsInv ==
  ASSUME ListInv, NEW t \in Threads, AllocFails(t)
  PROVE  ListInv'
<1> DEFINE w == [wr[t] EXCEPT !.at = "leave"]
<1>1. wr[t] \in WriterStates /\ wr[t].at \in {"grow", "walk"}
  BY DEF ListInv, WritersOK, AllocFails, Growing, At
<1>2. w \in WriterStates /\ w.at = "leave"
  BY <1>1 DEF WriterStates
<1>3. Set(t, w) /\ UNCHANGED <<mem, roots, shape, chunkCount, committed, handed, rd, lockVars>>
  BY DEF AllocFails, Leaves, listVars
<1> HIDE DEF w
<1>4. QED
  BY <1>1, <1>2, <1>3, InsideMove

\* The walk of chunkAddLocked begins at a slot of the root.
LEMMA DescendInv ==
  ASSUME ListInv, NEW t \in Threads, Descend(t)
  PROVE  ListInv'
<1> DEFINE w == [wr[t] EXCEPT !.at = "walk", !.depth = 1, !.cell = <<Directory, Digit(NewRow, 0)>>]
<1>1. wr[t] \in WriterStates /\ wr[t].at = "grow"
  BY DEF ListInv, WritersOK, Descend, Growing, At
<1>2. /\ NewRow \in Nat /\ LeafDepth \in Nat \ {0} /\ PathFacts
      /\ Capacity \in Nat /\ Digit(NewRow, 0) \in Nat
  <2>1. TypeInv /\ RowsOK
    BY DEF ListInv
  <2>2. 0 \in 0 .. LeafDepth /\ LeafDepth \in Nat \ {0} /\ IndexFacts
    BY <2>1, Geometry, RowsHaveDigits DEF TypeInv
  <2>3. QED
    BY <2>1, <2>2, RowNumbers, PathsWalk, CapacityCounts DEF IndexFacts
<1>3. roots # <<>> /\ Directory \in DOMAIN mem /\ Digit(NewRow, 0) \in DOMAIN mem[Directory]
  <2>1. Digit(NewRow, 0) < Capacity
    BY <1>2 DEF Descend, RootIsSmall
  <2>2. roots # <<>>
    BY <1>2, <2>1, CapacityCounts DEF ListInv
  <2>3. DOMAIN mem[Directory] = 0 .. Capacity - 1
    BY <2>2, CapacityCounts DEF ListInv
  <2>4. Directory \in DOMAIN mem
    BY <2>2, DirectoryType DEF ListInv, TypeInv
  <2>5. QED
    BY <1>2, <2>1, <2>2, <2>3, <2>4
<1>4. Directory \in Nat /\ Directory # 0
  BY <1>3 DEF ListInv, TypeInv, MemOK
<1>5. w \in WriterStates
  BY <1>1, <1>2, <1>4 DEF WriterStates
<1>6. w.at = "walk" /\ w.depth = 1 /\ w.cell = <<Directory, Digit(NewRow, 0)>>
  BY <1>1 DEF WriterStates
<1>7. Set(t, w) /\ UNCHANGED <<mem, roots, shape, chunkCount, committed, handed, rd, lockVars>>
  BY DEF Descend, listVars
<1> HIDE DEF w
<1>8. Path(NewRow)[w.depth - 1] = Directory /\ w.depth - 1 = 0 /\ w.depth \in 1 .. LeafDepth
  <2>1. Path(NewRow)[0] = Directory
    BY <1>2 DEF PathFacts
  <2>2. w.depth - 1 = 0 /\ w.depth \in 1 .. LeafDepth
    BY <1>2, <1>6
  <2>3. QED
    BY <2>1, <2>2
<1>9. QED
  BY <1>1, <1>3, <1>4, <1>5, <1>6, <1>7, <1>8, InsideMove

\* Where the writer stands on its walk.
LEMMA OnTheWalk ==
  ASSUME ListInv, NEW t \in Threads, At(t, "walk")
  PROVE  /\ wr[t] \in WriterStates /\ NewRow \in Nat
         /\ wr[t].depth \in 1 .. LeafDepth /\ LeafDepth \in Nat \ {0}
         /\ wr[t].cell[1] = Path(NewRow)[wr[t].depth - 1] /\ wr[t].cell[1] # 0
         /\ wr[t].cell[2] = Digit(NewRow, wr[t].depth - 1)
         /\ Digit(NewRow, wr[t].depth - 1) \in DOMAIN mem[Path(NewRow)[wr[t].depth - 1]]
         /\ Pointer(t) = Path(NewRow)[wr[t].depth]
         /\ Pointer(t) \in 0 .. Len(mem) /\ DOMAIN mem = 1 .. Len(mem) /\ Len(mem) \in Nat
<1>1. /\ wr[t] \in WriterStates
      /\ wr[t].depth \in 1 .. LeafDepth
      /\ wr[t].cell = <<Path(NewRow)[wr[t].depth - 1], Digit(NewRow, wr[t].depth - 1)>>
      /\ wr[t].cell[1] # 0 /\ wr[t].cell[2] \in DOMAIN mem[wr[t].cell[1]]
  BY DEF ListInv, WritersOK, WriterOK
<1>2. NewRow \in Nat /\ LeafDepth \in Nat \ {0} /\ PathFacts /\ DOMAIN mem = 1 .. Len(mem) /\ Len(mem) \in Nat
  BY RowNumbers, Geometry, PathsWalk DEF ListInv, TypeInv, MemOK
<1>3. Path(NewRow)[wr[t].depth] = Child(Path(NewRow)[wr[t].depth - 1], NewRow, wr[t].depth - 1)
  BY <1>1, <1>2 DEF PathFacts
<1>4. Pointer(t) = Path(NewRow)[wr[t].depth]
  BY <1>1, <1>3 DEF Pointer, Child
<1>5. Path(NewRow)[wr[t].depth] \in 0 .. Len(mem)
  <2>1. wr[t].depth \in 0 .. LeafDepth
    BY <1>1, <1>2
  <2>2. QED
    BY <1>2, <2>1 DEF PathFacts
<1>6. QED
  BY <1>1, <1>2, <1>4, <1>5

\* A step of the writer inside that may change the objects.
LEMMA InsideTree ==
  ASSUME ListInv, NEW t \in Threads, NEW w \in WriterStates, Set(t, w),
         wr[t].at \in {"grow", "walk", "link", "count"},
         UNCHANGED <<committed, handed, rd, lockVars>>,
         chunkCount' \in Nat, chunkCount <= chunkCount',
         TypeInv', TreeOK', ReachOK', Steady, SameShape,
         LeavesOK', ChainOK', WriterOK(t)'
  PROVE  ListInv'
<1>1. TypeInv /\ LeavesOK /\ RowsOK /\ LockInv /\ WritersOK /\ ReadersOK
  BY DEF ListInv
<1>2. committed' \in Nat /\ committed <= committed'
  BY <1>1 DEF RowsOK
<1>3. RowsOK' /\ ReadersOK'
  BY <1>1, <1>2, SteadyRows, SteadyReaders
<1>4. LockInv' /\ lk' = lk
  <2>1. word' = word /\ lk' = lk
    BY DEF lockVars
  <2>2. QED
    BY <1>1, <2>1, LockStepInv DEF lockVars
<1>5. wr[t].at \in Inside
  BY DEF Inside
<1>6. WritersOK'
  BY <1>1, <1>4, <1>5, InsideWriters
<1>7. QED
  BY <1>3, <1>4, <1>6 DEF ListInv

\* A node that is hung up above the leaves leaves rows and chain as they are.
LEMMA HangNode ==
  ASSUME ListInv, NEW t \in Threads, wr[t].at = "walk",
         NEW w \in WriterStates, w.at = "walk", Set(t, w),
         UNCHANGED <<chunkCount, lockVars>>,
         NEW d \in 1 .. LeafDepth - 1, Hangs(NewRow, d)
  PROVE  /\ TypeInv' /\ TreeOK' /\ ReachOK' /\ Steady /\ SameShape
         /\ LeavesOK' /\ ChainOK'
         /\ NewRow' = NewRow
         /\ Path(NewRow)[d]' = Len(mem) + 1
         /\ mem'[Len(mem) + 1] = Blank(shape[d])
<1> DEFINE x == Len(mem) + 1
<1>1. /\ LockInv /\ TypeInv /\ TreeOK /\ ReachOK /\ LeavesOK /\ ChainOK /\ RowsOK /\ WritersOK
      /\ NewRow \in Nat /\ LeafDepth \in Nat \ {0} /\ d \in 1 .. LeafDepth /\ d # LeafDepth
  BY RowNumbers, Geometry DEF ListInv, TypeInv
<1>2. TypeInv' /\ TreeOK' /\ ReachOK' /\ Steady /\ SameShape
  BY <1>1, HangTree
<1>3. \A j \in Nat : \A e \in 1 .. LeafDepth :
        Path(j)[e]' = IF e = d /\ Index(j, d - 1) = Index(NewRow, d - 1) THEN x ELSE Path(j)[e]
  <2>1. PathsAfter(NewRow, d, x)
    BY <1>1, HangPaths
  <2>2. QED
    BY <2>1 DEF PathsAfter
<1>4. MemAfter(Path(NewRow)[d - 1], Digit(NewRow, d - 1), x, shape[d])
  BY <1>1, HangObjects
<1>5. \A j \in Nat : LeafAt(j)' = LeafAt(j)
  <2> SUFFICES ASSUME NEW j \in Nat PROVE LeafAt(j)' = LeafAt(j)
    OBVIOUS
  <2>1. PICK e \in 1 .. LeafDepth : e = LeafDepth
    BY <1>1
  <2>2. Path(j)[e]' = Path(j)[e]
    BY <1>1, <1>3, <2>1
  <2>3. LeafDepth' = LeafDepth
    BY <1>2 DEF SameShape
  <2>4. QED
    BY <2>1, <2>2, <2>3 DEF LeafAt
<1>6. \A j \in Nat : LeafAt(j) # 0 => mem'[LeafAt(j)] = mem[LeafAt(j)]
  <2> SUFFICES ASSUME NEW j \in Nat, LeafAt(j) # 0 PROVE mem'[LeafAt(j)] = mem[LeafAt(j)]
    OBVIOUS
  <2>1. LeafAt(j) \in DOMAIN mem
    BY <1>1, LeafType
  <2>2. d - 1 \in 0 .. LeafDepth - 1
    BY <1>1
  <2>3. LeafAt(j) # Path(NewRow)[d - 1]
    BY <1>1, <2>2, LeafIsEnd
  <2>4. QED
    BY <1>4, <2>1, <2>3 DEF MemAfter
<1>7. /\ Linking <=> wr[t].at = "link"
      /\ Counting <=> wr[t].at = "count"
      /\ Linking' <=> w.at = "link"
      /\ Counting' <=> w.at = "count"
  BY <1>1, InsideFlags DEF Inside
<1>8. NewRow' = NewRow /\ RowsPerChunk' = RowsPerChunk
  BY <1>2 DEF NewRow, SameShape
<1>9. Leaved' = Leaved /\ Linked' = Linked
  BY <1>7, <1>8 DEF Leaved, Linked, Pending
<1>10. LeavesOK' /\ ChainOK'
  BY <1>1, <1>2, <1>5, <1>6, <1>9, ChainKept
<1>11. Path(NewRow)[d]' = x
  <2>1. PICK a \in Nat : a = NewRow
    BY <1>1
  <2>2. Path(a)[d]' = x
    BY <1>1, <1>3, <2>1
  <2>3. NewRow' = a
    BY <1>8, <2>1
  <2>4. QED
    BY <2>2, <2>3
<1>12. mem'[x] = Blank(shape[d])
  BY <1>4 DEF MemAfter
<1>13. QED
  BY <1>2, <1>8, <1>10, <1>11, <1>12

\* An internal node is taken, or made and published.
LEMMA NodeStepInv ==
  ASSUME ListInv, NEW t \in Threads, NodeStep(t)
  PROVE  ListInv'
<1> DEFINE x == Len(mem) + 1
<1>0. At(t, "walk") /\ wr[t].at = "walk" /\ wr[t].depth < LeafDepth /\ lk[t] = "in"
  BY DEF NodeStep, ListInv, WritersOK, WriterOK, At
<1>1. PICK d \in 1 .. LeafDepth - 1 : d = wr[t].depth
  BY <1>0, OnTheWalk
<1>2. /\ wr[t] \in WriterStates /\ NewRow \in Nat
      /\ d \in 1 .. LeafDepth /\ LeafDepth \in Nat \ {0}
      /\ wr[t].cell[1] = Path(NewRow)[d - 1] /\ wr[t].cell[1] # 0
      /\ wr[t].cell[2] = Digit(NewRow, d - 1)
      /\ Digit(NewRow, d - 1) \in DOMAIN mem[Path(NewRow)[d - 1]]
      /\ Pointer(t) = Path(NewRow)[d]
      /\ Pointer(t) \in 0 .. Len(mem) /\ DOMAIN mem = 1 .. Len(mem) /\ Len(mem) \in Nat
  BY <1>0, <1>1, OnTheWalk
<1>3. /\ d \in 1 .. LeafDepth - 1 /\ d + 1 \in 1 .. LeafDepth /\ (d + 1) - 1 = d
      /\ d # LeafDepth /\ d \in Nat /\ d + 1 \in Nat
  BY <1>1, <1>2
<1>4. Digit(NewRow, d) \in 0 .. shape[d] - 1 /\ Digit(NewRow, d) \in Nat
  <2>1. Digit(NewRow, d) \in 0 .. shape[d] - 1
    BY <1>2, <1>3, RowsHaveDigits DEF IndexFacts, ListInv, TypeInv
  <2>2. QED
    BY <2>1
<1>5. PICK o \in Nat : o = (IF Pointer(t) = 0 THEN x ELSE Pointer(t)) /\ o # 0
  BY <1>2
<1>6. PICK k \in Nat : k = Digit(NewRow, d)
  BY <1>4
<1>7. PICK w : w = [wr[t] EXCEPT !.cell = <<o, k>>, !.depth = d + 1]
  OBVIOUS
<1>8. w \in WriterStates /\ w.at = "walk" /\ w.depth = d + 1 /\ w.cell = <<o, k>>
  <2>1. <<o, k>> \in Nat \X Nat
    OBVIOUS
  <2>2. PICK c \in Nat \X Nat : c = <<o, k>>
    BY <2>1
  <2>3. PICK e \in Nat : e = d + 1
    BY <1>3
  <2>4. w = [wr[t] EXCEPT !.cell = c, !.depth = e]
    BY <1>7, <2>2, <2>3
  <2>5. w \in WriterStates /\ w.at = wr[t].at /\ w.depth = e /\ w.cell = c
    BY <1>2, <2>4 DEF WriterStates
  <2>6. QED
    BY <1>0, <2>2, <2>3, <2>5
<1>9. /\ Set(t, w)
      /\ mem' = IF o > Len(mem) THEN Append(Publish(t, o), Blank(shape[d])) ELSE mem
      /\ UNCHANGED <<roots, shape, chunkCount, committed, handed, rd, lockVars>>
  BY <1>1, <1>5, <1>6, <1>7 DEF NodeStep
<1>10. wr'[t] = w
  BY <1>9 DEF Set, ListInv, WritersOK
<1>11. CASE Pointer(t) # 0
  <2>1. o = Path(NewRow)[d] /\ mem' = mem
    <3>1. o = Path(NewRow)[d] /\ o \in 0 .. Len(mem)
      BY <1>2, <1>5, <1>11
    <3>2. ~(o > Len(mem))
      BY <1>2, <3>1
    <3>3. QED
      BY <1>9, <3>1, <3>2
  <2>2. DOMAIN mem[o] = 0 .. shape[d] - 1
    BY <1>2, <1>3, <2>1, <1>5 DEF ListInv, TreeOK
  <2>3. k \in DOMAIN mem[o]
    BY <1>4, <1>6, <2>2
  <2>4. w.depth - 1 = d /\ w.depth \in 1 .. LeafDepth /\ w.cell[1] = o /\ w.cell[2] = k
    BY <1>3, <1>8
  <2>5. w.cell = <<Path(NewRow)[w.depth - 1], Digit(NewRow, w.depth - 1)>>
    BY <1>6, <1>8, <2>1, <2>4
  <2>6. w.cell[1] # 0 /\ w.cell[2] \in DOMAIN mem[w.cell[1]]
    BY <1>5, <2>3, <2>4
  <2>7. UNCHANGED <<mem, roots, shape, chunkCount, committed, handed, rd, lockVars>>
    BY <1>9, <2>1
  <2>8. QED
    BY <1>0, <1>8, <1>9, <2>4, <2>5, <2>6, <2>7, InsideMove
<1>12. CASE Pointer(t) = 0
  <2>1. o = x /\ o > Len(mem)
    BY <1>2, <1>5, <1>12
  <2>2. Hangs(NewRow, d)
    BY <1>2, <1>3, <1>9, <1>12, <2>1 DEF Hangs, Publish
  <2>3. /\ TypeInv' /\ TreeOK' /\ ReachOK' /\ Steady /\ SameShape
        /\ LeavesOK' /\ ChainOK'
        /\ NewRow' = NewRow
        /\ Path(NewRow)[d]' = x
        /\ mem'[x] = Blank(shape[d])
    BY <1>0, <1>8, <1>9, <2>2, HangNode
  <2>4. WriterOK(t)'
    <3>1. w.depth - 1 = d /\ w.depth \in 1 .. LeafDepth'
      BY <1>3, <1>8, <2>3 DEF SameShape
    <3>2. Path(NewRow)'[w.depth - 1] = o
      BY <2>1, <2>3, <3>1
    <3>3. Digit(NewRow, w.depth - 1)' = k
      <4>1. \A i, e : Digit(i, e)' = Digit(i, e)
        BY <2>3 DEF SameShape
      <4>2. Digit(NewRow, d)' = Digit(NewRow, d)
        <5>1. PICK i : i = NewRow
          OBVIOUS
        <5>2. PICK e : e = d
          OBVIOUS
        <5>3. Digit(i, e)' = k
          BY <1>6, <4>1, <5>1, <5>2
        <5>4. NewRow' = i
          BY <2>3, <5>1
        <5>5. QED
          BY <1>6, <5>2, <5>3, <5>4
      <4>3. QED
        BY <1>6, <3>1, <4>2
    <3>4. w.cell[2] \in DOMAIN mem'[w.cell[1]] /\ w.cell[1] # 0
      <4>1. DOMAIN mem'[x] = 0 .. shape[d] - 1
        BY <2>3 DEF Blank
      <4>2. w.cell[1] = x /\ w.cell[2] = k /\ x # 0
        BY <1>5, <1>8, <2>1
      <4>3. QED
        BY <1>4, <1>6, <4>1, <4>2
    <3>5. lk'[t] = "in"
      BY <1>0, <1>9 DEF lockVars
    <3>6. QED
      BY <1>8, <1>10, <3>1, <3>2, <3>3, <3>4, <3>5 DEF WriterOK, At
  <2>5. chunkCount' \in Nat /\ chunkCount <= chunkCount'
    BY <1>9 DEF ListInv, RowsOK
  <2>6. QED
    BY <1>0, <1>8, <1>9, <2>3, <2>4, <2>5, InsideTree
<1>13. QED
  BY <1>11, <1>12

\* A leaf is published: its rows have one now, though it is not counted.
LEMMA LeafStepInv ==
  ASSUME ListInv, NEW t \in Threads, LeafStep(t)
  PROVE  ListInv'
<1> DEFINE x == Len(mem) + 1
           Mine(j) == NewRow <= j /\ j < NewRow + RowsPerChunk
<1>1. /\ LockInv /\ TypeInv /\ TreeOK /\ ReachOK /\ LeavesOK /\ ChainOK /\ RowsOK /\ WritersOK
      /\ At(t, "walk") /\ wr[t].at = "walk" /\ wr[t].at \in Inside /\ wr[t].depth = LeafDepth
      /\ lk[t] = "in"
  BY DEF ListInv, LeafStep, WritersOK, WriterOK, At, Inside
<1>2. /\ wr[t] \in WriterStates /\ NewRow \in Nat
      /\ LeafDepth \in Nat \ {0}
      /\ wr[t].cell[1] = Path(NewRow)[LeafDepth - 1] /\ wr[t].cell[1] # 0
      /\ wr[t].cell[2] = Digit(NewRow, LeafDepth - 1)
      /\ Digit(NewRow, LeafDepth - 1) \in DOMAIN mem[Path(NewRow)[LeafDepth - 1]]
      /\ DOMAIN mem = 1 .. Len(mem) /\ Len(mem) \in Nat
  BY <1>1, OnTheWalk
<1>3. PICK w : w = [wr[t] EXCEPT !.at = "link"]
  OBVIOUS
<1>4. w \in WriterStates /\ w.at = "link"
  BY <1>2, <1>3 DEF WriterStates
<1>5. /\ Set(t, w)
      /\ mem' = Append(Publish(t, x), Blank(1))
      /\ UNCHANGED <<roots, shape, chunkCount, committed, handed, rd, lockVars>>
  BY <1>3 DEF LeafStep
<1>6. /\ Linking <=> FALSE
      /\ Counting <=> FALSE
      /\ Linking' <=> TRUE
      /\ Counting' <=> FALSE
  BY <1>1, <1>4, <1>5, InsideFlags
<1>7. /\ RowsPerChunk \in Nat \ {0}
      /\ Leaved = NewRow /\ Linked = NewRow
      /\ \A j \in Nat : Index(j, LeafDepth - 1) = chunkCount <=> Mine(j)
  BY <1>1, <1>6, RowNumbers DEF Leaved, Linked, Pending
<1>8. Path(NewRow)[LeafDepth] = 0
  BY <1>2, <1>1, <1>7 DEF LeavesOK, LeafAt
<1>9. PICK L \in 1 .. LeafDepth : L = LeafDepth
  BY <1>2
<1>10. Hangs(NewRow, L)
  BY <1>2, <1>5, <1>8, <1>9 DEF Hangs, Publish
<1>11. TypeInv' /\ TreeOK' /\ ReachOK' /\ Steady /\ SameShape
  BY <1>1, <1>2, <1>10, HangTree
<1>12. PathsAfter(NewRow, L, x)
  BY <1>1, <1>2, <1>10, HangPaths
<1>13. MemAfter(Path(NewRow)[L - 1], Digit(NewRow, L - 1), x, 1)
  BY <1>1, <1>2, <1>9, <1>10, HangObjects
<1>14. NewRow' = NewRow /\ RowsPerChunk' = RowsPerChunk /\ LeafDepth' = L
  BY <1>5, <1>9, <1>11 DEF NewRow, SameShape
<1>15. Leaved' = NewRow + RowsPerChunk /\ Linked' = NewRow
  BY <1>6, <1>14 DEF Leaved, Linked, Pending
<1>16. \A j \in Nat : LeafAt(j)' = IF Mine(j) THEN x ELSE LeafAt(j)
  <2> SUFFICES ASSUME NEW j \in Nat PROVE LeafAt(j)' = IF Mine(j) THEN x ELSE LeafAt(j)
    OBVIOUS
  <2>1. Index(NewRow, L - 1) = chunkCount
    BY <1>2, <1>7, <1>9
  <2>2. Index(j, L - 1) = Index(NewRow, L - 1) <=> Mine(j)
    BY <1>7, <1>9, <2>1
  <2>3. Path(j)[L]' = IF Index(j, L - 1) = Index(NewRow, L - 1) THEN x ELSE Path(j)[L]
    BY <1>12 DEF PathsAfter
  <2>4. LeafAt(j)' = Path(j)[L]' /\ LeafAt(j) = Path(j)[L]
    BY <1>9, <1>14 DEF LeafAt
  <2>5. QED
    BY <2>2, <2>3, <2>4
<1>17. x # 0
  BY <1>2
<1>18. LeavesOK'
  <2> SUFFICES ASSUME NEW j \in Nat PROVE LeafAt(j)' # 0 <=> j < NewRow + RowsPerChunk
    BY <1>15 DEF LeavesOK
  <2>1. LeafAt(j) # 0 <=> j < NewRow
    BY <1>1, <1>7 DEF LeavesOK
  <2>2. QED
    BY <1>2, <1>7, <1>16, <1>17, <2>1
<1>19. ChainOK'
  <2> SUFFICES ASSUME NEW j \in Nat, j < NewRow + RowsPerChunk
               PROVE  mem'[LeafAt(j)'][0] = IF j + RowsPerChunk < NewRow THEN LeafAt(j + RowsPerChunk)' ELSE 0
    BY <1>14, <1>15 DEF ChainOK
  <2>1. CASE Mine(j)
    <3>1. mem'[x][0] = 0
      BY <1>13 DEF MemAfter, Blank
    <3>2. ~(j + RowsPerChunk < NewRow)
      BY <1>2, <1>7, <2>1
    <3>3. QED
      BY <1>16, <2>1, <3>1, <3>2
  <2>2. CASE ~Mine(j)
    <3>1. j < NewRow /\ LeafAt(j) # 0
      BY <1>1, <1>2, <1>7, <2>2 DEF LeavesOK
    <3>2. LeafAt(j)' = LeafAt(j) /\ LeafAt(j) \in DOMAIN mem
      BY <1>1, <1>16, <2>2, <3>1, LeafType
    <3>3. L - 1 \in 0 .. LeafDepth - 1
      BY <1>2, <1>9
    <3>4. LeafAt(j) # Path(NewRow)[L - 1]
      BY <1>1, <1>2, <3>1, <3>3, LeafIsEnd
    <3>5. mem'[LeafAt(j)] = mem[LeafAt(j)]
      BY <1>13, <3>2, <3>4 DEF MemAfter
    <3>6. mem[LeafAt(j)][0] = IF j + RowsPerChunk < NewRow THEN LeafAt(j + RowsPerChunk) ELSE 0
      BY <1>1, <1>7, <3>1 DEF ChainOK
    <3>7. ASSUME j + RowsPerChunk < NewRow PROVE LeafAt(j + RowsPerChunk)' = LeafAt(j + RowsPerChunk)
      <4>1. PICK e \in Nat : e = j + RowsPerChunk
        BY <1>7
      <4>2. LeafAt(e)' = LeafAt(e)
        BY <1>2, <1>7, <1>16, <3>7, <4>1
      <4>3. QED
        BY <1>14, <4>1, <4>2
    <3>8. QED
      BY <3>2, <3>5, <3>6, <3>7
  <2>3. QED
    BY <2>1, <2>2
<1>20. WriterOK(t)'
  <2>1. lk'[t] = "in" /\ wr'[t] = w
    BY <1>1, <1>5 DEF lockVars, Set, WritersOK
  <2>2. QED
    BY <1>4, <2>1 DEF WriterOK, At
<1>21. chunkCount' \in Nat /\ chunkCount <= chunkCount'
  BY <1>1, <1>5 DEF RowsOK
<1>22. QED
  BY <1>1, <1>4, <1>5, <1>11, <1>18, <1>19, <1>20, <1>21, InsideTree

\* The root is replaced by a larger one.
LEMMA DirGrowInv ==
  ASSUME ListInv, NEW t \in Threads, DirGrow(t)
  PROVE  ListInv'
<1>1. /\ LockInv /\ TypeInv /\ TreeOK /\ ReachOK /\ LeavesOK /\ ChainOK /\ RowsOK /\ WritersOK
      /\ wr[t].at = "grow" /\ wr[t].at \in Inside /\ lk[t] = "in" /\ wr[t] \in WriterStates
      /\ LeafDepth \in Nat \ {0}
  BY Geometry DEF ListInv, DirGrow, Growing, WritersOK, WriterOK, At, Inside, TypeInv
<1>2. Capacity \in Nat
  BY <1>1, CapacityCounts
<1>3. PICK next \in Nat : next = (IF Capacity = 0 THEN DirInit ELSE Capacity * 2) /\ Capacity <= next
  BY <1>2, ListAssumption
<1>4. Doubled(next)
  <2>1. DOMAIN Blank(next) = 0 .. next - 1
    BY DEF Blank
  <2>2. QED
    BY <1>3, <2>1 DEF DirGrow, Doubled
<1>5. TypeInv' /\ TreeOK' /\ ReachOK' /\ Steady /\ SameShape
  BY <1>1, <1>3, <1>4, DoubledTree
<1>6. \A j \in Nat : \A e \in 1 .. LeafDepth : Path(j)[e]' = Path(j)[e]
  BY <1>1, <1>3, <1>4, DoubledPaths
<1>7. \A j \in Nat : LeafAt(j)' = LeafAt(j)
  <2> SUFFICES ASSUME NEW j \in Nat PROVE LeafAt(j)' = LeafAt(j)
    OBVIOUS
  <2>1. PICK e \in 1 .. LeafDepth : e = LeafDepth
    BY <1>1
  <2>2. Path(j)[e]' = Path(j)[e]
    BY <1>6
  <2>3. LeafDepth' = e
    BY <1>5, <2>1 DEF SameShape
  <2>4. QED
    BY <2>1, <2>2, <2>3 DEF LeafAt
<1>8. \A j \in Nat : LeafAt(j) # 0 => mem'[LeafAt(j)] = mem[LeafAt(j)]
  BY <1>1, <1>3, <1>4, LeafType, DoubledObjects
<1>9. /\ UNCHANGED <<shape, chunkCount, committed, handed, rd, lockVars>>
      /\ wr' = wr
  BY DEF DirGrow
<1>10. wr = [wr EXCEPT ![t] = wr[t]]
  BY <1>1 DEF WritersOK
<1>11. Set(t, wr[t])
  BY <1>9, <1>10 DEF Set
<1>12. Leaved' = Leaved /\ Linked' = Linked
  <2>1. (Linking' <=> Linking) /\ (Counting' <=> Counting)
    BY <1>9 DEF Linking, Counting, At
  <2>2. NewRow' = NewRow /\ RowsPerChunk' = RowsPerChunk
    BY <1>5, <1>9 DEF NewRow, SameShape
  <2>3. QED
    BY <2>1, <2>2 DEF Leaved, Linked, Pending
<1>13. LeavesOK' /\ ChainOK'
  BY <1>1, <1>5, <1>7, <1>8, <1>12, ChainKept
<1>14. WriterOK(t)'
  BY <1>1, <1>9 DEF WriterOK, At, lockVars
<1>15. chunkCount' \in Nat /\ chunkCount <= chunkCount'
  BY <1>1, <1>9 DEF RowsOK
<1>16. QED
  BY <1>1, <1>5, <1>9, <1>11, <1>13, <1>14, <1>15, InsideTree

\* The leaf is counted, after its link is set.
LEMMA CountInv ==
  ASSUME ListInv, NEW t \in Threads, Count(t)
  PROVE  ListInv'
<1>1. /\ LockInv /\ TypeInv /\ TreeOK /\ ReachOK /\ LeavesOK /\ ChainOK /\ RowsOK /\ WritersOK
      /\ wr[t].at = "count" /\ wr[t].at \in Inside /\ lk[t] = "in" /\ wr[t] \in WriterStates
      /\ chunkCount \in Nat
  BY DEF ListInv, Count, WritersOK, WriterOK, At, Inside, RowsOK
<1>2. PICK w : w = [wr[t] EXCEPT !.at = "grow"]
  OBVIOUS
<1>3. w \in WriterStates /\ w.at = "grow"
  BY <1>1, <1>2 DEF WriterStates
<1>4. /\ Set(t, w) /\ chunkCount' = chunkCount + 1
      /\ UNCHANGED <<mem, roots, shape, committed, handed, rd, lockVars>>
  BY <1>2 DEF Count
<1>5. TypeInv' /\ TreeOK' /\ ReachOK' /\ Steady /\ SameShape /\ Unmoved
  BY <1>1, <1>4, QuietTree
<1>6. /\ Linking <=> FALSE
      /\ Counting <=> TRUE
      /\ Linking' <=> FALSE
      /\ Counting' <=> FALSE
  BY <1>1, <1>3, <1>4, InsideFlags
<1>7. NewRow' = NewRow + RowsPerChunk /\ RowsPerChunk' = RowsPerChunk
  <2>1. RowsPerChunk \in Nat \ {0} /\ RowsPerChunk' = RowsPerChunk
    BY <1>1, <1>5, Geometry DEF SameShape, TypeInv
  <2>2. QED
    BY <1>1, <1>4, <2>1, MulOrder DEF NewRow
<1>8. Leaved' = Leaved /\ Linked' = Linked
  BY <1>6, <1>7 DEF Leaved, Linked, Pending
<1>9. LeavesOK' /\ ChainOK'
  <2>1. \A i \in Nat : LeafAt(i)' = LeafAt(i)
    BY <1>5 DEF Unmoved
  <2>2. \A i \in Nat : LeafAt(i) # 0 => mem'[LeafAt(i)] = mem[LeafAt(i)]
    BY <1>4
  <2>3. QED
    BY <1>1, <1>5, <1>8, <2>1, <2>2, ChainKept
<1>10. WriterOK(t)'
  <2>1. lk'[t] = "in" /\ wr'[t] = w
    BY <1>1, <1>4 DEF lockVars, Set, WritersOK
  <2>2. QED
    BY <1>3, <2>1 DEF WriterOK, At
<1>11. chunkCount' \in Nat /\ chunkCount <= chunkCount'
  BY <1>1, <1>4
<1>12. QED
  BY <1>1, <1>3, <1>4, <1>5, <1>9, <1>10, <1>11, InsideTree

\* The leaf before is linked to the new one: the chain is in the order of rows.
LEMMA LinkInv ==
  ASSUME ListInv, NEW t \in Threads, Link(t)
  PROVE  ListInv'
<1> DEFINE c == chunkCount
           R == RowsPerChunk
           L == LeafDepth
<1>1. /\ LockInv /\ TypeInv /\ TreeOK /\ ReachOK /\ LeavesOK /\ ChainOK /\ RowsOK /\ WritersOK
      /\ wr[t].at = "link" /\ wr[t].at \in Inside /\ lk[t] = "in" /\ wr[t] \in WriterStates
      /\ chunkCount \in Nat
  BY DEF ListInv, Link, WritersOK, WriterOK, At, Inside, RowsOK
<1>2. PICK w : w = [wr[t] EXCEPT !.at = "count"]
  OBVIOUS
<1>3. w \in WriterStates /\ w.at = "count"
  BY <1>1, <1>2 DEF WriterStates
<1>4. /\ Set(t, w)
      /\ UNCHANGED <<roots, shape, chunkCount, committed, handed, rd, lockVars>>
  BY <1>2 DEF Link
<1>5. /\ Linking <=> TRUE
      /\ Counting <=> FALSE
      /\ Linking' <=> FALSE
      /\ Counting' <=> TRUE
  BY <1>1, <1>3, <1>4, InsideFlags
<1>6. /\ R \in Nat \ {0} /\ NewRow \in Nat /\ NewRow = c * R
      /\ Leaved = NewRow + R /\ Linked = NewRow
      /\ \A j \in Nat : Index(j, L - 1) = c <=> NewRow <= j /\ j < NewRow + R
  BY <1>1, <1>5, RowNumbers DEF Leaved, Linked, Pending, NewRow
<1>7. SameShape /\ NewRow' = NewRow /\ RowsPerChunk' = RowsPerChunk
  BY <1>4, StillShape DEF NewRow, SameShape
<1>8. Leaved' = NewRow + R /\ Linked' = NewRow + R
  BY <1>5, <1>7 DEF Leaved, Linked, Pending
<1>9. L \in 1 .. L /\ L \in Nat /\ \A j, d : Index(j, d)' = Index(j, d)
  BY <1>1, <1>7, Geometry DEF SameShape, TypeInv
<1>10. WriterOK(t)'
  <2>1. lk'[t] = "in" /\ wr'[t] = w
    BY <1>1, <1>4 DEF lockVars, Set, WritersOK
  <2>2. QED
    BY <1>3, <2>1 DEF WriterOK, At
<1>11. chunkCount' \in Nat /\ chunkCount <= chunkCount'
  BY <1>1, <1>4
<1>12. CASE c = 0
  <2>1. mem' = mem /\ NewRow = 0
    BY <1>6, <1>12 DEF Link
  <2>2. TypeInv' /\ TreeOK' /\ ReachOK' /\ Steady /\ Unmoved
    BY <1>1, <1>4, <2>1, QuietTree
  <2>3. \A i : LeafAt(i)' = LeafAt(i)
    BY <2>2 DEF Unmoved
  <2>4. LeavesOK'
    BY <1>1, <1>6, <1>8, <2>3 DEF LeavesOK
  <2>5. ChainOK'
    <3> SUFFICES ASSUME NEW j \in Nat, j < NewRow + R
                 PROVE  mem'[LeafAt(j)'][0] = IF j + R < NewRow + R THEN LeafAt(j + R)' ELSE 0
      BY <1>7, <1>8 DEF ChainOK
    <3>1. mem[LeafAt(j)][0] = 0
      BY <1>1, <1>6, <2>1 DEF ChainOK
    <3>2. ~(j + R < NewRow + R)
      BY <1>6, <2>1
    <3>3. QED
      BY <2>1, <2>3, <3>1, <3>2
  <2>6. QED
    BY <1>1, <1>3, <1>4, <1>7, <1>10, <1>11, <2>2, <2>4, <2>5, InsideTree
<1>13. CASE c # 0
  <2>1. PICK p \in Nat : p = (c - 1) * R
    BY <1>1, <1>6, <1>13, MulOrder
  <2>2. p + R = NewRow /\ c - 1 \in Nat
    <3>1. c - 1 \in Nat /\ (c - 1) + 1 = c
      BY <1>1, <1>13
    <3>2. ((c - 1) + 1) * R = (c - 1) * R + R
      BY <1>6, <3>1, MulOrder
    <3>3. QED
      BY <1>6, <2>1, <3>1, <3>2
  <2>3. \A j \in Nat : Index(j, L - 1) = c - 1 <=> p <= j /\ j < NewRow
    <3> SUFFICES ASSUME NEW j \in Nat
                 PROVE  j \div R = c - 1 <=> p <= j /\ j < NewRow
      BY <1>1, Geometry DEF Index, TypeInv
    <3>1. PICK b \in Nat : b = c - 1
      BY <2>2
    <3>2. PICK r \in Nat \ {0} : r = R
      BY <1>6
    <3>3. j \div r = b <=> b * r <= j /\ j < b * r + r
      BY InChunk
    <3>4. QED
      BY <2>1, <2>2, <3>1, <3>2, <3>3
  <2>4. PICK leaf : leaf = LeafAt(NewRow)
    OBVIOUS
  <2>5. leaf \in 0 .. Len(mem)
    BY <1>1, <1>6, <2>4, LeafType
  <2>6. LeafAt(p) # 0
    BY <1>1, <1>6, <2>2 DEF LeavesOK
  <2>7. mem[LeafAt(p)][0] = 0
    BY <1>1, <1>6, <2>2 DEF ChainOK
  <2>8. Ties(p, leaf)
    <3>1. mem' = [mem EXCEPT ![LeafAt(p)][0] = leaf]
      BY <1>13, <2>1, <2>4, <2>6 DEF Link
    <3>2. QED
      BY <1>4, <2>5, <2>6, <2>7, <3>1 DEF Ties
  <2>9. /\ TypeInv' /\ TreeOK' /\ ReachOK' /\ Steady
        /\ \A j \in Nat : \A e \in 1 .. L : Path(j)[e]' = Path(j)[e]
        /\ \A o \in DOMAIN mem : mem'[o] = IF o = LeafAt(p) THEN [mem[o] EXCEPT ![0] = leaf] ELSE mem[o]
        /\ DOMAIN mem[LeafAt(p)] = {0}
    BY <1>1, <2>8, TieTree
  <2>10. \A j \in Nat : LeafAt(j)' = LeafAt(j)
    <3> SUFFICES ASSUME NEW j \in Nat PROVE LeafAt(j)' = LeafAt(j)
      OBVIOUS
    <3>1. PICK e \in 1 .. L : e = L
      BY <1>9
    <3>2. Path(j)[e]' = Path(j)[e]
      BY <2>9
    <3>3. LeafDepth' = e
      BY <1>7, <3>1 DEF SameShape
    <3>4. QED
      BY <3>1, <3>2, <3>3 DEF LeafAt
  <2>11. LeavesOK'
    BY <1>1, <1>6, <1>8, <2>10 DEF LeavesOK
  <2>12. ChainOK'
    <3> SUFFICES ASSUME NEW j \in Nat, j < NewRow + R
                 PROVE  mem'[LeafAt(j)'][0] = IF j + R < NewRow + R THEN LeafAt(j + R)' ELSE 0
      BY <1>7, <1>8 DEF ChainOK
    <3>1. LeafAt(j) # 0 /\ LeafAt(j) \in DOMAIN mem /\ LeafAt(j)' = LeafAt(j)
      BY <1>1, <1>6, <2>10, LeafType DEF LeavesOK
    <3>2. LeafAt(j + R)' = LeafAt(j + R)
      <4>1. PICK e \in Nat : e = j + R
        BY <1>6
      <4>2. LeafAt(e)' = LeafAt(e)
        BY <2>10
      <4>3. QED
        BY <1>7, <4>1, <4>2
    <3>3. mem[LeafAt(j)][0] = IF j + R < NewRow THEN LeafAt(j + R) ELSE 0
      BY <1>1, <1>6 DEF ChainOK
    <3>4. Index(j, L - 1) = Index(p, L - 1) <=> p <= j /\ j < NewRow
      <4>1. Index(p, L - 1) = c - 1
        BY <1>6, <2>2, <2>3
      <4>2. QED
        BY <2>3, <4>1
    <3>5. CASE LeafAt(j) = LeafAt(p)
      <4>1. Index(j, L - 1) = Index(p, L - 1)
        BY <1>1, <1>9, <2>6, <3>5 DEF TreeOK, LeafAt
      <4>2. p <= j /\ j < NewRow
        BY <3>4, <4>1
      <4>3. PICK e \in Nat : e = j + R
        BY <1>6
      <4>4. Index(e, L - 1) = c /\ Index(NewRow, L - 1) = c
        BY <1>6, <2>2, <4>2, <4>3
      <4>5. LeafAt(e) = LeafAt(NewRow)
        BY <1>1, <1>6, <1>9, <4>4, SameWay DEF LeafAt
      <4>6. mem'[LeafAt(j)][0] = leaf
        BY <2>9, <3>1, <3>5
      <4>7. j + R < NewRow + R
        BY <1>6, <4>2
      <4>8. QED
        BY <2>4, <3>1, <3>2, <4>3, <4>5, <4>6, <4>7
    <3>6. CASE LeafAt(j) # LeafAt(p)
      <4>1. ~(p <= j /\ j < NewRow)
        BY <1>1, <1>9, <3>4, <3>6, SameWay DEF LeafAt
      <4>2. j + R < NewRow <=> j + R < NewRow + R
        BY <1>6, <2>2, <4>1
      <4>3. mem'[LeafAt(j)] = mem[LeafAt(j)]
        BY <2>9, <3>1, <3>6
      <4>4. QED
        BY <3>1, <3>2, <3>3, <4>2, <4>3
    <3>7. QED
      BY <3>5, <3>6
  <2>13. QED
    BY <1>1, <1>3, <1>4, <1>7, <1>10, <1>11, <2>9, <2>11, <2>12, InsideTree
<1>14. QED
  BY <1>12, <1>13

\* What Commit does to the rows.
Hands == committed' = committed + 1 /\ handed' = Append(handed, Row(committed))

\* addSlot counts a row whose leaf is there and returns its address.
LEMMA HandsRow ==
  ASSUME ListInv, Hands, LeafAt(committed) # 0, ~Pending, UNCHANGED <<mem, roots, shape, chunkCount>>
  PROVE  RowsOK' /\ committed' \in Nat /\ committed <= committed'
<1>1. /\ TypeInv /\ TreeOK /\ ReachOK /\ LeavesOK /\ RowsOK
      /\ chunkCount \in Nat /\ committed \in Nat /\ handed \in Seq(Nat \X Nat) /\ Len(handed) = committed
      /\ \A i \in 0 .. committed - 1 : handed[i + 1] = Row(i)
  BY DEF ListInv, RowsOK
<1>2. RowsPerChunk \in Nat \ {0} /\ NewRow \in Nat
  BY <1>1, RowNumbers
<1>3. committed < NewRow
  BY <1>1 DEF LeavesOK, Leaved
<1>4. SameShape /\ Unmoved
  BY <1>1, QuietTree
<1>5. NewRow' = NewRow
  BY <1>4 DEF NewRow, SameShape
<1>6. \A i : Row(i)' = Row(i)
  BY <1>4 DEF Row, Unmoved
<1>7. Row(committed) \in Nat \X Nat
  <2>1. LeafAt(committed) \in Nat
    <3>1. LeafAt(committed) \in 0 .. Len(mem) /\ Len(mem) \in Nat
      BY <1>1, LeafType DEF TypeInv, MemOK
    <3>2. QED
      BY <3>1
  <2>2. committed % RowsPerChunk \in Nat
    BY <1>1, <1>2
  <2>3. QED
    BY <2>1, <2>2 DEF Row
<1>8. PICK row \in Nat \X Nat : row = Row(committed)
  BY <1>7
<1>9. /\ handed' \in Seq(Nat \X Nat) /\ Len(handed') = committed + 1
      /\ \A k \in 1 .. committed : handed'[k] = handed[k]
      /\ handed'[committed + 1] = row
  <2>1. handed' = Append(handed, row)
    BY <1>8 DEF Hands
  <2>2. QED
    BY <1>1, <2>1, AppendProperties
<1>10. \A i \in 0 .. committed' - 1 : handed'[i + 1] = Row(i)'
  <2> SUFFICES ASSUME NEW i \in 0 .. committed PROVE handed'[i + 1] = Row(i)
    BY <1>1, <1>6 DEF Hands
  <2>1. CASE i = committed
    BY <1>8, <1>9, <2>1
  <2>2. CASE i # committed
    <3>1. i \in 0 .. committed - 1 /\ i + 1 \in 1 .. committed
      BY <1>1, <2>2
    <3>2. QED
      BY <1>1, <1>9, <3>1
  <2>3. QED
    BY <2>1, <2>2
<1>11. committed' \in Nat /\ committed <= committed' /\ committed' <= NewRow'
  BY <1>1, <1>2, <1>3, <1>5 DEF Hands
<1>12. QED
  BY <1>1, <1>9, <1>10, <1>11 DEF RowsOK, Hands

\* addSlot commits its row, or reserve is done.
LEMMA CommitInv ==
  ASSUME ListInv, NEW t \in Threads, Commit(t)
  PROVE  ListInv'
<1>1. /\ LockInv /\ WritersOK /\ wr[t].at = "grow" /\ wr[t].at \in Inside /\ lk[t] = "in"
      /\ wr[t] \in WriterStates
  BY DEF ListInv, Commit, WritersOK, WriterOK, At, Inside
<1>2. PICK w : w = [wr[t] EXCEPT !.at = "leave"]
  OBVIOUS
<1>3. w \in WriterStates /\ w.at = "leave"
  BY <1>1, <1>2 DEF WriterStates
<1>4. /\ Set(t, w)
      /\ UNCHANGED <<mem, roots, shape, chunkCount, rd, lockVars>>
  BY <1>2 DEF Commit, Leaves
<1>5. ~Pending
  BY <1>1, <1>3, <1>4, InsideFlags DEF Pending
<1>6. RowsOK' /\ committed' \in Nat /\ committed <= committed'
  <2>1. CASE Hands /\ LeafAt(committed) # 0
    BY <1>4, <1>5, <2>1, HandsRow
  <2>2. CASE UNCHANGED <<committed, handed>>
    BY <1>4, <2>2, RowsStay
  <2>3. QED
    BY <2>1, <2>2 DEF Commit, Hands
<1>7. LockInv' /\ lk' = lk
  <2>1. word' = word /\ lk' = lk
    BY <1>4 DEF lockVars
  <2>2. QED
    BY <1>1, <2>1, LockStepInv DEF lockVars
<1>8. WriterOK(t)'
  <2>1. lk'[t] = "in" /\ wr'[t] = w
    BY <1>1, <1>4, <1>7 DEF Set, WritersOK
  <2>2. QED
    BY <1>3, <2>1 DEF WriterOK, At
<1>9. QED
  BY <1>1, <1>3, <1>4, <1>6, <1>7, <1>8, QuietWriter

-----------------------------------------------------------------------------
\* The radices.

\* pow2Floor returns a positive number for every argument.
LEMMA Pow2FloorType ==
  ASSUME NEW n \in Int
  PROVE  Pow2Floor(n) \in Nat \ {0}
<1> DEFINE m == AtLeast(1, n)
           S == {p \in 1 .. m : IsPow2(p)}
           T == {m - p : p \in S}
<1>1. m \in Nat \ {0}
  BY DEF AtLeast
<1>2. IsPow2(1)
  BY DEF IsPow2
<1>3. 1 \in S /\ S \subseteq 1 .. m
  BY <1>1, <1>2
<1> HIDE DEF m, S
<1>4. T \subseteq Nat /\ T # {}
  BY <1>1, <1>3
<1>5. PICK k \in T : \A j \in T : k <= j
  BY <1>4, LeastNumber
<1>6. PICK p \in S : k = m - p
  BY <1>5
<1>7. \A q \in S : p >= q
  <2> SUFFICES ASSUME NEW q \in S PROVE p >= q
    OBVIOUS
  <2>1. m - q \in T
    OBVIOUS
  <2>2. p \in Int /\ q \in Int /\ k <= m - q /\ k = m - p
    <3>1. p \in 1 .. m /\ q \in 1 .. m
      BY <1>3, <1>6
    <3>2. k <= m - q /\ k = m - p
      BY <1>5, <1>6, <2>1
    <3>3. QED
      BY <1>1, <3>1, <3>2
  <2>3. QED
    BY <1>1, <2>2
<1>8. Max(S) \in S
  BY <1>7 DEF Max
<1>9. Pow2Floor(n) = Max(S)
  BY DEF Pow2Floor, S, m
<1>10. Max(S) \in 1 .. m
  BY <1>3, <1>8
<1>11. Max(S) \in Nat \ {0}
  BY <1>1, <1>10
<1>12. QED
  BY <1>9, <1>11

\* A leaf has at least one row, however few bytes were asked for.
LEMMA Pow2RowsType ==
  ASSUME NEW bytes \in Nat
  PROVE  Pow2Rows(bytes) \in Nat \ {0}
<1>1. AtLeast(MinBytes, bytes) \in Nat /\ Stride \in Nat \ {0}
  BY ListAssumption DEF AtLeast
<1>2. AtLeast(MinBytes, bytes) \div Stride \in Int
  BY <1>1, DivMod
<1>3. QED
  BY <1>2, Pow2FloorType DEF Pow2Rows

\* buildPaged makes positive radices of any numbers.
LEMMA BuildType ==
  ASSUME NEW radices \in Seq(Int), Len(radices) >= 2
  PROVE  BuildPaged(radices) \in Seq(Nat \ {0}) /\ Len(BuildPaged(radices)) >= 1
<1>1. PICK n \in Nat : n = Len(radices) - 1 /\ n >= 1
  OBVIOUS
<1>2. \A d \in 1 .. n : radices[d + 1] \in Int
  BY <1>1
<1>3. \A d \in 1 .. n : Pow2Floor(radices[d + 1]) \in Nat \ {0}
  BY <1>2, Pow2FloorType
<1>4. BuildPaged(radices) = [d \in 1 .. n |-> Pow2Floor(radices[d + 1])]
  BY <1>1 DEF BuildPaged
<1> DEFINE f == [d \in 1 .. n |-> Pow2Floor(radices[d + 1])]
<1>5. f \in [1 .. n -> Nat \ {0}]
  BY <1>3
<1> HIDE DEF f
<1>6. f \in Seq(Nat \ {0}) /\ Len(f) = n
  BY <1>5
<1>7. QED
  BY <1>1, <1>4, <1>6 DEF f

\* paged has at least a root and a leaf level, whatever numbers it is given.
LEMMA PagedType ==
  ASSUME NEW order \in Seq(Int)
  PROVE  PagedRadices(order) \in Seq(Int) /\ Len(PagedRadices(order)) >= 2
<1> DEFINE preset == order # <<>> /\ order[1] < 0
           levels == IF preset THEN IF order[1] = ThreeLayers THEN 3 ELSE 2 ELSE AtLeast(2, Len(order))
           least(d) == IF d = 1 THEN DirInit
                       ELSE IF ~preset THEN 1
                       ELSE IF d = levels THEN PageLeafRows ELSE InternalRadix
           f == [d \in 1 .. levels |-> IF d \in DOMAIN order /\ order[d] > 0 THEN order[d] ELSE least(d)]
<1>1. levels \in Nat /\ levels >= 2
  BY DEF AtLeast
<1>2. PageLeafRows \in Int
  <2>1. PageBytes \div Stride \in Int
    BY ListAssumption, DivMod
  <2>2. QED
    BY <2>1, Pow2FloorType DEF PageLeafRows
<1>3. DirInit \in Int /\ InternalRadix \in Int
  BY ListAssumption
<1>4. \A d : least(d) \in Int
  BY <1>2, <1>3
<1>5. PagedRadices(order) = f
  BY DEF PagedRadices
<1> HIDE DEF levels, least
<1>6. f \in [1 .. levels -> Int]
  BY <1>4
<1> HIDE DEF f
<1>7. f \in Seq(Int) /\ Len(f) = levels
  BY <1>1, <1>6
<1>8. QED
  BY <1>1, <1>5, <1>7

\* Every constructor makes positive radices.
LEMMA MadeType ==
  ASSUME NEW s \in MadeShapes
  PROVE  s \in Seq(Nat \ {0}) /\ Len(s) >= 1
<1>1. CASE s \in {BuildPaged(<<DirInit, Pow2Rows(bytes)>>) : bytes \in Budgets}
  <2>1. PICK bytes \in Budgets : s = BuildPaged(<<DirInit, Pow2Rows(bytes)>>)
    BY <1>1
  <2>2. PICK a \in Int, b \in Int : a = DirInit /\ b = Pow2Rows(bytes)
    BY ListAssumption, Pow2RowsType
  <2>3. <<a, b>> \in Seq(Int) /\ Len(<<a, b>>) >= 2
    OBVIOUS
  <2>4. QED
    BY <2>1, <2>2, <2>3, BuildType
<1>2. CASE s \in {BuildPaged(PagedRadices(order)) : order \in Orders}
  <2>1. PICK order \in Orders : s = BuildPaged(PagedRadices(order))
    BY <1>2
  <2>2. order \in Seq(Int)
    BY ListAssumption
  <2>3. QED
    BY <2>1, <2>2, PagedType, BuildType
<1>3. QED
  BY <1>1, <1>2 DEF MadeShapes

\* An empty list: below a null root there is nothing.
Empty == TypeInv /\ roots = <<>>
NoWays == \A i \in Nat : \A d \in 0 .. LeafDepth : Path(i)[d] = 0

\* leafAtRow returns null for every row of a list without a root.
LEMMA EmptyPaths == Empty => NoWays
<1> SUFFICES ASSUME TypeInv, roots = <<>>, NEW i \in Nat
             PROVE  \A d \in 0 .. LeafDepth : Path(i)[d] = 0
  BY DEF Empty, NoWays
<1> DEFINE T == {d \in 0 .. LeafDepth : Path(i)[d] = 0}
<1>1. LeafDepth \in Nat /\ PathFacts
  BY Geometry, PathsWalk DEF TypeInv
<1>2. 0 \in T
  BY <1>1 DEF PathFacts, Directory
<1>3. ASSUME NEW k \in 0 .. LeafDepth - 1, k \in T
      PROVE  k + 1 \in T
  <2>1. k + 1 \in 1 .. LeafDepth /\ k + 1 \in 0 .. LeafDepth /\ (k + 1) - 1 = k
    BY <1>1
  <2>2. Path(i)[k + 1] = Child(Path(i)[k], i, k)
    BY <1>1, <2>1 DEF PathFacts
  <2>3. QED
    BY <1>3, <2>1, <2>2 DEF Child
<1> HIDE DEF T
<1>4. 0 .. LeafDepth \subseteq T
  BY <1>1, <1>2, <1>3, Induction
<1>5. QED
  BY <1>4 DEF T

\* An empty list where nobody is at work.
Quiet ==
  /\ mem = <<>> /\ roots = <<>>
  /\ chunkCount = 0 /\ committed = 0 /\ handed = <<>>
  /\ wr \in [Threads -> WriterStates] /\ \A t \in Threads : At(t, "idle") /\ lk[t] = "out"
  /\ rd \in [Readers -> ReaderStates] /\ \A r \in Readers : rd[r].at = "idle"

\* A list that nobody has added to is sound.
LEMMA QuietInv == LockInv /\ ShapeOK /\ Quiet => ListInv
<1> SUFFICES ASSUME LockInv, ShapeOK, Quiet PROVE ListInv
  OBVIOUS
<1>1. TypeInv
  <2>1. mem \in Seq(Arrays) /\ DOMAIN mem = {} /\ roots \in Seq(DOMAIN mem)
    BY DEF Quiet
  <2>2. QED
    BY <2>1 DEF TypeInv, MemOK, RootsOK
<1>2. NoWays
  BY <1>1, EmptyPaths DEF Empty, Quiet
<1>3. LeafDepth \in Nat \ {0} /\ RowsPerChunk \in Nat \ {0}
  BY Geometry
<1>4. TreeOK /\ ReachOK
  <2>1. \A d \in 1 .. LeafDepth : d \in 0 .. LeafDepth
    BY <1>3
  <2>2. TreeOK
    BY <1>2, <2>1 DEF TreeOK, NoWays
  <2>3. ReachOK
    BY DEF ReachOK, Quiet
  <2>4. QED
    BY <2>2, <2>3
<1>5. ~Pending /\ NewRow = 0
  BY <1>3 DEF Pending, Linking, Counting, Quiet, At, NewRow
<1>6. LeavesOK /\ ChainOK
  <2>1. \A i \in Nat : LeafAt(i) = 0
    BY <1>2, <1>3 DEF NoWays, LeafAt
  <2>2. Leaved = 0
    BY <1>5 DEF Leaved
  <2>3. QED
    BY <2>1, <2>2 DEF LeavesOK, ChainOK
<1>7. RowsOK
  BY <1>5 DEF RowsOK, Quiet
<1>8. WritersOK /\ ReadersOK
  BY DEF WritersOK, ReadersOK, WriterOK, ReaderOK, Quiet, At
<1>9. QED
  BY <1>1, <1>4, <1>6, <1>7, <1>8 DEF ListInv

\* A new list is sound.
LEMMA InitInv == Init => ListInv
<1> SUFFICES ASSUME Init PROVE ListInv
  OBVIOUS
<1>1. LockInv
  BY LockInitInv DEF Init
<1>2. ShapeOK
  BY MadeType DEF Init, ShapeOK
<1>3. Quiet
  BY DEF Init, Quiet, LockInit, IdleWriter, IdleReader, WriterStates, ReaderStates, At
<1>4. QED
  BY <1>1, <1>2, <1>3, QuietInv

\* How a row comes to its leaf: its pointers' numbers from the leaf's up, the digits
\* they end in, and the objects from directory down.
WayOf(i) ==
  /\ Index(i, LeafDepth - 1) = i \div RowsPerChunk
  /\ \A d \in 1 .. LeafDepth - 1 : Index(i, d - 1) = Index(i, d) \div shape[d]
  /\ Digit(i, 0) = Index(i, 0)
  /\ \A d \in 1 .. LeafDepth - 1 : Digit(i, d) = Index(i, d) % shape[d]
  /\ Path(i)[0] = Directory
  /\ \A d \in 1 .. LeafDepth : Path(i)[d] = Child(Path(i)[d - 1], i, d - 1)

Ways == LeafDepth \in Nat \ {0} /\ \A i \in Nat : WayOf(i)

LEMMA EveryRowHasItsWay == TypeInv => Ways
<1> SUFFICES ASSUME TypeInv, NEW i \in Nat PROVE LeafDepth \in Nat \ {0} /\ WayOf(i)
  BY DEF Ways
<1>1. LeafDepth \in Nat \ {0} /\ RowsPerChunk = Span(LeafDepth - 1)
  BY Geometry DEF TypeInv
<1>2. Index(i, LeafDepth - 1) = i \div RowsPerChunk
  BY <1>1 DEF Index
<1>3. /\ \A d \in 1 .. LeafDepth - 1 : Index(i, d - 1) = Index(i, d) \div shape[d]
      /\ Digit(i, 0) = Index(i, 0)
  BY RowsHaveDigits DEF IndexFacts, TypeInv
<1>4. \A d \in 1 .. LeafDepth - 1 : Digit(i, d) = Index(i, d) % shape[d]
  BY <1>1 DEF Digit, Index
<1>5. /\ Path(i)[0] = Directory
      /\ \A d \in 1 .. LeafDepth : Path(i)[d] = Child(Path(i)[d - 1], i, d - 1)
  BY PathsWalk DEF PathFacts
<1>6. QED
  BY <1>1, <1>2, <1>3, <1>4, <1>5 DEF WayOf

\* With leaves of another size, a row goes the way of the rows whose leaf had its
\* leaf's number.
LEMMA ResizedWay ==
  ASSUME TypeInv, TypeInv', UNCHANGED <<mem, roots>>,
         NEW p \in Nat \ {0}, shape' = [shape EXCEPT ![Len(shape)] = p],
         NEW i \in Nat, NEW j \in Nat, i \div RowsPerChunk = j \div p
  PROVE  /\ \A d \in 0 .. LeafDepth - 1 : Index(j, d)' = Index(i, d)
         /\ \A d \in 0 .. LeafDepth : Path(j)[d]' = Path(i)[d]
<1>1. Ways /\ Ways'
  <2>1. TypeInv' => Ways'
    BY EveryRowHasItsWay, PTL
  <2>2. QED
    BY <2>1, EveryRowHasItsWay
<1>2. PICK n \in Nat \ {0} : n = LeafDepth
  BY <1>1 DEF Ways
<1>3. /\ LeafDepth' = n /\ RowsPerChunk' = p /\ Directory' = Directory
      /\ \A d \in 1 .. n - 1 : shape'[d] = shape[d]
  <2>1. shape \in [1 .. n -> Nat \ {0}] /\ Len(shape) = n
    BY <1>2 DEF TypeInv, ShapeOK, LeafDepth
  <2>2. shape' \in [1 .. n -> Nat \ {0}] /\ shape'[n] = p /\ Len(shape') = n
    BY <2>1, ExceptSeq DEF TypeInv, ShapeOK
  <2>3. \A d \in 1 .. n - 1 : shape'[d] = shape[d]
    BY <2>1
  <2>4. QED
    BY <2>2, <2>3 DEF LeafDepth, RowsPerChunk, Last, Directory
<1>4. WayOf(i) /\ WayOf(j)'
  BY <1>1 DEF Ways
\* The numbers of the pointers above, from the leaf's up.
<1>5. \A d \in 0 .. n - 1 : Index(j, d)' = Index(i, d)
  <2> DEFINE S == {d \in 0 .. n - 1 : Index(j, n - 1 - d)' = Index(i, n - 1 - d)}
  <2>1. 0 \in S
    BY <1>2, <1>3, <1>4 DEF WayOf
  <2>2. ASSUME NEW k \in 0 .. (n - 1) - 1, k \in S PROVE k + 1 \in S
    <3>1. PICK d \in 1 .. n - 1 : d = n - 1 - k /\ d - 1 = n - 1 - (k + 1)
      OBVIOUS
    <3>2. Index(i, d - 1) = Index(i, d) \div shape[d]
      BY <1>2, <1>4 DEF WayOf
    <3>3. Index(j, d - 1)' = Index(j, d)' \div shape'[d]
      BY <1>3, <1>4 DEF WayOf
    <3>4. Index(j, d)' = Index(i, d)
      BY <2>2, <3>1
    <3>5. Index(j, d - 1)' = Index(i, d - 1)
      BY <1>3, <3>2, <3>3, <3>4
    <3>6. QED
      BY <3>1, <3>5
  <2>3. 0 .. n - 1 \subseteq S
    <3> HIDE DEF S
    <3>1. n - 1 \in Nat
      OBVIOUS
    <3>2. QED
      BY <2>1, <2>2, <3>1, Induction
  <2>4. ASSUME NEW d \in 0 .. n - 1 PROVE Index(j, d)' = Index(i, d)
    <3>1. (n - 1) - d \in 0 .. n - 1 /\ (n - 1) - ((n - 1) - d) = d
      OBVIOUS
    <3>2. QED
      BY <2>3, <3>1
  <2>5. QED
    BY <2>4
<1>6. \A d \in 0 .. n - 1 : Digit(j, d)' = Digit(i, d)
  <2>1. Digit(j, 0)' = Digit(i, 0)
    BY <1>4, <1>5 DEF WayOf
  <2>2. ASSUME NEW d \in 1 .. n - 1 PROVE Digit(j, d)' = Digit(i, d)
    <3>1. Digit(i, d) = Index(i, d) % shape[d]
      BY <1>2, <1>4 DEF WayOf
    <3>2. Digit(j, d)' = Index(j, d)' % shape'[d]
      BY <1>3, <1>4 DEF WayOf
    <3>3. QED
      BY <1>3, <1>5, <3>1, <3>2
  <2>3. QED
    BY <2>1, <2>2
\* And the way itself, from the root down.
<1>7. 0 .. n \subseteq {d \in 0 .. n : Path(j)[d]' = Path(i)[d]}
  <2> DEFINE T == {d \in 0 .. n : Path(j)[d]' = Path(i)[d]}
  <2>1. 0 \in T
    BY <1>3, <1>4 DEF WayOf
  <2>2. ASSUME NEW k \in 0 .. n - 1, k \in T PROVE k + 1 \in T
    <3>1. k + 1 \in 1 .. n /\ k + 1 \in 0 .. n /\ (k + 1) - 1 = k
      OBVIOUS
    <3>2. Path(i)[k + 1] = Child(Path(i)[k], i, k)
      BY <1>2, <1>4, <3>1 DEF WayOf
    <3>3. Path(j)[k + 1]' = Child(Path(j)[k], j, k)'
      BY <1>3, <1>4, <3>1 DEF WayOf
    <3>4. Path(j)[k]' = Path(i)[k] /\ Digit(j, k)' = Digit(i, k)
      BY <1>6, <2>2
    <3>5. QED
      BY <3>1, <3>2, <3>3, <3>4 DEF Child
  <2> HIDE DEF T
  <2>3. 0 .. n \subseteq T
    BY <2>1, <2>2, Induction
  <2>4. QED
    BY <2>3 DEF T
<1>8. QED
  BY <1>2, <1>5, <1>7

\* setChunkBytes changes the rows of a leaf before there is any, also when an add
\* that failed has left a root and nodes.
LEMMA SetChunkBytesInv ==
  ASSUME ListInv, NEW bytes \in Budgets, SetChunkBytes(bytes)
  PROVE  ListInv'
<1>1. /\ LockInv /\ TypeInv /\ TreeOK /\ ReachOK /\ LeavesOK /\ RowsOK /\ WritersOK /\ ReadersOK
      /\ chunkCount = 0
      /\ \A t \in Threads : At(t, "idle")
      /\ \A r \in Readers : rd[r].at = "idle"
  BY DEF ListInv, SetChunkBytes
<1>2. UNCHANGED <<word, lk, mem, roots, chunkCount, committed, handed, wr, rd>>
  BY DEF SetChunkBytes, lockVars
<1>3. PICK p \in Nat \ {0} : shape' = [shape EXCEPT ![Len(shape)] = p]
  <2>1. Pow2Rows(bytes) \in Nat \ {0}
    BY Pow2RowsType, ListAssumption
  <2>2. QED
    BY <2>1 DEF SetChunkBytes
<1>4. TypeInv'
  <2>1. shape \in Seq(Nat \ {0}) /\ Len(shape) >= 1
    BY <1>1 DEF TypeInv, ShapeOK
  <2>2. ShapeOK'
    BY <1>3, <2>1, ExceptSeq DEF ShapeOK
  <2>3. QED
    BY <1>1, <1>2, <2>2 DEF TypeInv, MemOK, RootsOK
<1>5. PICK n, q \in Nat \ {0} : /\ n = LeafDepth /\ LeafDepth' = n /\ q = RowsPerChunk /\ RowsPerChunk' = p
  <2>1. LeafDepth \in Nat \ {0} /\ RowsPerChunk \in Nat \ {0} /\ shape \in Seq(Nat \ {0}) /\ Len(shape) >= 1
    BY <1>1, Geometry DEF TypeInv, ShapeOK
  <2>2. Len(shape') = Len(shape) /\ shape'[Len(shape)] = p
    BY <1>3, <2>1
  <2>3. QED
    BY <2>1, <2>2 DEF LeafDepth, RowsPerChunk, Last
<1>6. ASSUME NEW i \in Nat, NEW j \in Nat, i \div q = j \div p
      PROVE  /\ \A d \in 0 .. n - 1 : Index(j, d)' = Index(i, d)
             /\ \A d \in 0 .. n : Path(j)[d]' = Path(i)[d]
  BY <1>1, <1>2, <1>3, <1>4, <1>5, <1>6, ResizedWay
\* Every leaf's number is that of some row, before and after.
<1>7. /\ \A j \in Nat : \E i \in Nat : i \div q = j \div p
      /\ \A i \in Nat : \E j \in Nat : i \div q = j \div p
  <2>1. ASSUME NEW a \in Nat \ {0}, NEW b \in Nat \ {0}, NEW j \in Nat
        PROVE  \E i \in Nat : i \div a = j \div b
    <3>1. PICK m \in Nat : m = j \div b
      OBVIOUS
    <3>2. m * a \in Nat /\ (m * a) \div a = m
      OBVIOUS
    <3>3. QED
      BY <3>1, <3>2
  <2>2. QED
    BY <2>1
<1>8. TreeOK'
  <2>1. ASSUME NEW j \in Nat, NEW d \in 1 .. n, Path(j)[d]' # 0
        PROVE  /\ Path(j)[d]' \notin Range(roots)
               /\ DOMAIN mem[Path(j)[d]'] = IF d = n THEN {0} ELSE 0 .. shape'[d] - 1
               /\ \A l \in Nat : \A e \in 1 .. n :
                    Path(l)[e]' = Path(j)[d]' => e = d /\ Index(l, d - 1)' = Index(j, d - 1)'
    <3>1. PICK i \in Nat : i \div q = j \div p
      BY <1>7
    <3>2. d \in 0 .. n /\ d - 1 \in 0 .. n - 1
      BY <1>5
    <3>3. Path(j)[d]' = Path(i)[d] /\ Index(j, d - 1)' = Index(i, d - 1)
      BY <1>6, <3>1, <3>2
    <3>4. /\ Path(i)[d] \notin Range(roots)
          /\ DOMAIN mem[Path(i)[d]] = IF d = n THEN {0} ELSE 0 .. shape[d] - 1
          /\ \A l \in Nat : \A e \in 1 .. n :
               Path(l)[e] = Path(i)[d] => e = d /\ Index(l, d - 1) = Index(i, d - 1)
      BY <1>1, <1>5, <2>1, <3>3 DEF TreeOK
    <3>5. d # n => shape'[d] = shape[d]
      <4>1. shape \in [1 .. n -> Nat \ {0}] /\ Len(shape) = n
        BY <1>1, <1>5 DEF TypeInv, ShapeOK, LeafDepth
      <4>2. QED
        BY <1>3, <4>1
    <3>6. ASSUME NEW l \in Nat, NEW e \in 1 .. n, Path(l)[e]' = Path(j)[d]'
          PROVE  e = d /\ Index(l, d - 1)' = Index(j, d - 1)'
      <4>1. PICK k \in Nat : k \div q = l \div p
        BY <1>7
      <4>2. e \in 0 .. n
        OBVIOUS
      <4>3. Path(l)[e]' = Path(k)[e] /\ Index(l, d - 1)' = Index(k, d - 1)
        BY <1>6, <3>2, <4>1, <4>2
      <4>4. QED
        BY <3>3, <3>4, <3>6, <4>3
    <3>7. QED
      BY <3>3, <3>4, <3>5, <3>6
  <2>2. QED
    BY <1>2, <1>5, <2>1 DEF TreeOK, Range
<1>9. ReachOK'
  <2>1. ASSUME NEW o \in DOMAIN mem, o \notin Range(roots)
        PROVE  \E j \in Nat : \E d \in 1 .. n : Path(j)[d]' = o
    <3>1. PICK i \in Nat, d \in 1 .. n : Path(i)[d] = o
      BY <1>1, <1>5, <2>1 DEF ReachOK
    <3>2. PICK j \in Nat : i \div q = j \div p
      BY <1>7
    <3>3. d \in 0 .. n
      OBVIOUS
    <3>4. Path(j)[d]' = o
      BY <1>6, <3>1, <3>2, <3>3
    <3>5. QED
      BY <3>4
  <2>2. QED
    BY <1>2, <1>5, <2>1 DEF ReachOK, Range
\* There is no leaf, neither before nor after.
<1>10. ~Pending /\ ~Pending' /\ NewRow = 0 /\ NewRow' = 0
  BY <1>1, <1>2, <1>5 DEF Pending, Linking, Counting, At, NewRow
<1>11. LeavesOK' /\ ChainOK'
  <2>1. ASSUME NEW j \in Nat PROVE LeafAt(j)' = 0
    <3>1. PICK i \in Nat : i \div q = j \div p
      BY <1>7
    <3>2. LeafAt(i) = 0
      BY <1>1, <1>10 DEF LeavesOK, Leaved
    <3>3. n \in 0 .. n
      OBVIOUS
    <3>4. QED
      BY <1>5, <1>6, <3>1, <3>2, <3>3 DEF LeafAt
  <2>2. Leaved' = 0
    BY <1>10 DEF Leaved
  <2>3. QED
    BY <2>1, <2>2 DEF LeavesOK, ChainOK
<1>12. RowsOK'
  <2>1. committed = 0 /\ handed = <<>>
    BY <1>1, <1>10 DEF RowsOK
  <2>2. QED
    BY <1>1, <1>2, <1>10, <2>1 DEF RowsOK
<1>13. WritersOK' /\ ReadersOK'
  BY <1>1, <1>2 DEF WritersOK, WriterOK, ReadersOK, ReaderOK, At
<1>14. LockInv'
  BY <1>1, <1>2, LockStepInv DEF lockVars
<1>15. QED
  BY <1>4, <1>8, <1>9, <1>11, <1>12, <1>13, <1>14 DEF ListInv

-----------------------------------------------------------------------------
\* The readers' steps.

\* What is known of a reader's place and locals.
Stands(e) ==
  /\ e.at \in {"root", "hop", "found"} => e.i < e.n /\ e.n <= committed
  /\ e.at = "hop" =>
       /\ e.depth \in 0 .. LeafDepth - 1
       /\ e.o \in DOMAIN mem
       /\ Child(e.o, e.i, e.depth) = Path(e.i)[e.depth + 1]
       /\ e.depth > 0 => e.o = Path(e.i)[e.depth]
  /\ e.at = "found" => e.o = LeafAt(e.i)
  /\ e.at = "chunk" =>
       /\ e.n <= chunkCount
       /\ IF e.o = 0 THEN e.i >= e.n ELSE e.o = LeafAt(e.i * RowsPerChunk)

\* A step that moves nothing but readers.
LEMMA ReadersOnly ==
  ASSUME ListInv, ReadersOK',
         UNCHANGED <<word, lk, mem, roots, shape, chunkCount, committed, handed, wr>>
  PROVE  ListInv'
<1>1. /\ LockInv /\ TypeInv /\ TreeOK /\ ReachOK /\ LeavesOK /\ ChainOK /\ RowsOK /\ WritersOK
  BY DEF ListInv
<1>2. TypeInv' /\ TreeOK' /\ ReachOK' /\ Steady /\ SameShape /\ Unmoved
  BY <1>1, QuietTree
<1>3. NewRow' = NewRow /\ Linking' = Linking /\ Counting' = Counting
  BY <1>2 DEF NewRow, SameShape, Linking, Counting, At
<1>4. Leaved' = Leaved /\ Linked' = Linked
  BY <1>2, <1>3 DEF Leaved, Linked, Pending, SameShape
<1>5. LeavesOK' /\ ChainOK'
  <2>1. \A i \in Nat : LeafAt(i)' = LeafAt(i)
    BY <1>2 DEF Unmoved
  <2>2. \A i \in Nat : LeafAt(i) # 0 => mem'[LeafAt(i)] = mem[LeafAt(i)]
    OBVIOUS
  <2>3. QED
    BY <1>1, <1>2, <1>4, <2>1, <2>2, ChainKept
<1>6. RowsOK'
  BY RowsStay
<1>7. LockInv'
  BY <1>1, LockStepInv DEF lockVars
<1>8. WritersOK'
  <2>1. /\ Path(NewRow)' = Path(NewRow) /\ LeafDepth' = LeafDepth /\ mem' = mem
        /\ \A d : Digit(NewRow, d)' = Digit(NewRow, d)
    BY <1>2, <1>3 DEF Unmoved
  <2>2. \A s \in Threads : WriterOK(s)'
    BY <1>1, <2>1 DEF WritersOK, WriterOK, At
  <2>3. QED
    BY <1>1, <2>2 DEF WritersOK
<1>9. QED
  BY <1>2, <1>5, <1>6, <1>7, <1>8 DEF ListInv

\* A reader moves: the list stands, and so do the other readers.
LEMMA ReaderMove ==
  ASSUME ListInv, NEW r \in Readers, NEW e \in ReaderStates, Reads(r, e), Stands(e)
  PROVE  ListInv'
<1>1. /\ TypeInv /\ TreeOK /\ ReachOK /\ ReadersOK
  BY DEF ListInv
<1>2. /\ rd' = [rd EXCEPT ![r] = e] /\ rd \in [Readers -> ReaderStates]
      /\ UNCHANGED <<word, lk, mem, roots, shape, chunkCount, committed, handed, wr>>
  BY <1>1 DEF Reads, lockVars, listVars, ReadersOK
<1>3. Unmoved
  BY <1>1, <1>2, QuietTree
<1>4. rd' \in [Readers -> ReaderStates] /\ rd'[r] = e /\ \A s \in Readers : s # r => rd'[s] = rd[s]
  BY <1>2
<1>5. ASSUME NEW f, Stands(f) PROVE Stands(f)'
  <2>1. /\ LeafAt(f.i)' = LeafAt(f.i) /\ Path(f.i)' = Path(f.i)
        /\ Child(f.o, f.i, f.depth)' = Child(f.o, f.i, f.depth)
        /\ LeafDepth' = LeafDepth /\ RowsPerChunk' = RowsPerChunk
    BY <1>3 DEF Unmoved
  <2>2. LeafAt(f.i * RowsPerChunk)' = LeafAt(f.i * RowsPerChunk)
    <3>1. PICK k : k = f.i * RowsPerChunk
      OBVIOUS
    <3>2. LeafAt(k)' = LeafAt(k)
      BY <1>3 DEF Unmoved
    <3>3. QED
      BY <2>1, <3>1, <3>2
  <2>3. QED
    BY <1>2, <1>5, <2>1, <2>2 DEF Stands
<1>6. ASSUME NEW s \in Readers PROVE ReaderOK(s)'
  <2>1. PICK f : f = rd'[s]
    OBVIOUS
  <2>2. Stands(f)
    <3>1. CASE s = r
      BY <1>4, <2>1, <3>1
    <3>2. CASE s # r
      BY <1>1, <1>4, <2>1, <3>2 DEF ReadersOK, ReaderOK, Stands
    <3>3. QED
      BY <3>1, <3>2
  <2>3. Stands(f)'
    BY <1>5, <2>2
  <2>4. QED
    BY <2>1, <2>3 DEF Stands, ReaderOK
<1>7. ReadersOK'
  BY <1>4, <1>6 DEF ReadersOK
<1>8. QED
  BY <1>2, <1>7, ReadersOnly

\* A reader on its way to a row finds a way there.
LEMMA WayOpen ==
  ASSUME ListInv, NEW r \in Readers, rd[r].at \in {"root", "hop", "found"}
  PROVE  /\ rd[r] \in ReaderStates /\ rd[r].i \in Nat
         /\ LeafDepth \in Nat \ {0} /\ PathFacts
         /\ \A d \in 0 .. LeafDepth : Path(rd[r].i)[d] \in DOMAIN mem /\ Path(rd[r].i)[d] # 0
<1>1. /\ TypeInv /\ RowsOK /\ LeavesOK /\ ReadersOK
      /\ rd[r] \in ReaderStates /\ rd[r].i \in Nat /\ rd[r].n \in Nat
      /\ committed \in Nat
  BY DEF ListInv, ReadersOK, ReaderStates, RowsOK
<1>2. rd[r].i < committed
  BY <1>1 DEF ReadersOK, ReaderOK
<1>3. LeafAt(rd[r].i) # 0
  BY <1>1, <1>2, CommittedHasLeaf
<1>4. \A d \in 0 .. LeafDepth : Path(rd[r].i)[d] # 0
  BY <1>1, <1>3, LeafHasWay
<1>5. LeafDepth \in Nat \ {0} /\ PathFacts /\ DOMAIN mem = 1 .. Len(mem) /\ Len(mem) \in Nat
  BY <1>1, Geometry, PathsWalk DEF TypeInv, MemOK
<1>6. \A d \in 0 .. LeafDepth : Path(rd[r].i)[d] \in 0 .. Len(mem)
  BY <1>1, <1>5 DEF PathFacts
<1>7. QED
  BY <1>1, <1>4, <1>5, <1>6

\* A reader's call returns.
LEMMA IdleAgain ==
  ASSUME ListInv, NEW r \in Readers, Reads(r, IdleReader)
  PROVE  ListInv'
<1>1. IdleReader \in ReaderStates /\ Stands(IdleReader)
  BY DEF IdleReader, ReaderStates, Stands
<1>2. QED
  BY <1>1, ReaderMove

\* A reader loads the committed count.
LEMMA ObserveInv ==
  ASSUME ListInv, NEW r \in Readers, Observe(r)
  PROVE  ListInv'
<1>0. PICK n \in 1 .. committed :
        \E i \in {0, n - 1} : Reads(r, [IdleReader EXCEPT !.at = "root", !.i = i, !.n = n])
  BY DEF Observe
<1>1. PICK i \in {0, n - 1} : Reads(r, [IdleReader EXCEPT !.at = "root", !.i = i, !.n = n])
  BY <1>0
<1>2. PICK e : e = [IdleReader EXCEPT !.at = "root", !.i = i, !.n = n]
  OBVIOUS
<1>3. n \in Nat /\ i \in Nat /\ i < n /\ n <= committed
  BY <1>1, <1>0 DEF ListInv, RowsOK
<1>4. e \in ReaderStates /\ e.at = "root" /\ e.i = i /\ e.n = n
  BY <1>2, <1>3 DEF IdleReader, ReaderStates
<1>5. Stands(e)
  BY <1>3, <1>4 DEF Stands
<1>6. QED
  BY <1>1, <1>2, <1>4, <1>5, ReaderMove

\* A reader loads directory, as it is now.
LEMMA LoadRootInv ==
  ASSUME ListInv, NEW r \in Readers, LoadRoot(r)
  PROVE  ListInv'
<1>1. PICK e : e = [rd[r] EXCEPT !.at = "hop", !.o = Directory, !.depth = 0]
  OBVIOUS
<1>2. /\ rd[r] \in ReaderStates /\ rd[r].i \in Nat
      /\ LeafDepth \in Nat \ {0} /\ PathFacts
      /\ \A d \in 0 .. LeafDepth : Path(rd[r].i)[d] \in DOMAIN mem
  BY WayOpen DEF LoadRoot
<1>3. Directory \in DOMAIN mem /\ Directory \in Nat
  <2>1. Path(rd[r].i)[0] = Directory /\ 0 \in 0 .. LeafDepth
    BY <1>2 DEF PathFacts
  <2>2. QED
    BY <1>2, <2>1 DEF ListInv, TypeInv, MemOK
<1>4. /\ e \in ReaderStates /\ e.at = "hop" /\ e.o = Directory /\ e.depth = 0
      /\ e.i = rd[r].i /\ e.n = rd[r].n
  BY <1>1, <1>2, <1>3 DEF ReaderStates
<1>5. rd[r].i < rd[r].n /\ rd[r].n <= committed
  BY DEF ListInv, ReadersOK, ReaderOK, LoadRoot
<1>6. Child(Directory, rd[r].i, 0) = Path(rd[r].i)[1]
  <2>1. PICK d \in 1 .. LeafDepth : d = 1
    BY <1>2
  <2>2. Path(rd[r].i)[0] = Directory /\ Path(rd[r].i)[d] = Child(Path(rd[r].i)[d - 1], rd[r].i, d - 1)
    BY <1>2 DEF PathFacts
  <2>3. d - 1 = 0
    BY <2>1
  <2>4. QED
    BY <2>1, <2>2, <2>3
<1>7. Stands(e)
  BY <1>2, <1>3, <1>4, <1>5, <1>6 DEF Stands
<1>8. QED
  BY <1>1, <1>4, <1>7, ReaderMove DEF LoadRoot

\* A reader goes down one level: the pointer it loads is the one on the way to
\* its row, also under a root that was replaced since.
LEMMA HopInv ==
  ASSUME ListInv, NEW r \in Readers, Hop(r)
  PROVE  ListInv'
<1>1. /\ rd[r] \in ReaderStates /\ rd[r].i \in Nat
      /\ LeafDepth \in Nat \ {0} /\ PathFacts
      /\ \A d \in 0 .. LeafDepth : Path(rd[r].i)[d] \in DOMAIN mem /\ Path(rd[r].i)[d] # 0
  BY WayOpen DEF Hop
<1>2. /\ rd[r].i < rd[r].n /\ rd[r].n <= committed
      /\ rd[r].depth \in 0 .. LeafDepth - 1
      /\ Child(rd[r].o, rd[r].i, rd[r].depth) = Path(rd[r].i)[rd[r].depth + 1]
  BY DEF ListInv, ReadersOK, ReaderOK, Hop
<1>3. PICK d \in 1 .. LeafDepth : d = rd[r].depth + 1
  BY <1>1, <1>2
<1>4. PICK o \in DOMAIN mem : o = Path(rd[r].i)[d] /\ o # 0 /\ o \in Nat
  BY <1>1 DEF ListInv, TypeInv, MemOK
<1>5. PICK at : at = IF d = LeafDepth THEN "found" ELSE "hop"
  OBVIOUS
<1>6. PICK e : e = [rd[r] EXCEPT !.o = o, !.depth = d, !.at = at]
  OBVIOUS
<1>7. Reads(r, e)
  BY <1>2, <1>3, <1>4, <1>5, <1>6 DEF Hop
<1>8. e \in ReaderStates /\ e.at = at /\ e.o = o /\ e.depth = d /\ e.i = rd[r].i /\ e.n = rd[r].n
  <2>1. at \in {"hop", "found"} /\ d \in Nat /\ o \in Nat
    BY <1>1, <1>3, <1>4, <1>5
  <2>2. QED
    BY <1>1, <1>6, <2>1 DEF ReaderStates
<1>9. CASE d = LeafDepth
  BY <1>2, <1>4, <1>5, <1>7, <1>8, <1>9, ReaderMove DEF Stands, LeafAt
<1>10. CASE d # LeafDepth
  <2>1. d \in 0 .. LeafDepth - 1 /\ d + 1 \in 1 .. LeafDepth /\ (d + 1) - 1 = d
    BY <1>1, <1>10
  <2>2. Child(o, rd[r].i, d) = Path(rd[r].i)[d + 1]
    BY <1>1, <1>4, <2>1 DEF PathFacts
  <2>3. Stands(e)
    BY <1>2, <1>4, <1>5, <1>8, <1>10, <2>1, <2>2 DEF Stands
  <2>4. QED
    BY <1>7, <1>8, <2>3, ReaderMove
<1>11. QED
  BY <1>9, <1>10

\* packInto goes on to the next row, or the call returns.
LEMMA NextRowInv ==
  ASSUME ListInv, NEW r \in Readers, NextRow(r)
  PROVE  ListInv'
<1>1. CASE rd[r].at = "found" /\ rd[r].i + 1 < rd[r].n
  <2>1. PICK e : e = [rd[r] EXCEPT !.at = "root", !.i = @ + 1]
    OBVIOUS
  <2>2. rd[r] \in ReaderStates /\ rd[r].i + 1 \in Nat
    BY DEF ListInv, ReadersOK, ReaderStates
  <2>3. e \in ReaderStates /\ e.at = "root" /\ e.i = rd[r].i + 1 /\ e.n = rd[r].n
    BY <2>1, <2>2 DEF ReaderStates
  <2>4. Stands(e)
    BY <1>1, <2>3 DEF Stands, ListInv, ReadersOK, ReaderOK
  <2>5. QED
    BY <1>1, <2>1, <2>3, <2>4, ReaderMove DEF NextRow
<1>2. CASE ~(rd[r].at = "found" /\ rd[r].i + 1 < rd[r].n)
  BY <1>2, IdleAgain DEF NextRow
<1>3. QED
  BY <1>1, <1>2

\* forEachChunk starts at the first leaf.
LEMMA WalkChunksInv ==
  ASSUME ListInv, NEW r \in Readers, WalkChunks(r)
  PROVE  ListInv'
<1>1. /\ TypeInv /\ RowsOK /\ LeavesOK /\ chunkCount \in Nat /\ chunkCount > 0
      /\ RowsPerChunk \in Nat \ {0} /\ NewRow = chunkCount * RowsPerChunk
      /\ NewRow \in Nat /\ Leaved \in {NewRow, NewRow + RowsPerChunk}
  BY RowNumbers DEF ListInv, RowsOK, NewRow, WalkChunks
<1>2. LeafAt(0) # 0 /\ LeafAt(0) \in Nat
  <2>1. 1 * RowsPerChunk <= NewRow
    BY <1>1, MulOrder
  <2>2. 0 < Leaved
    BY <1>1, <2>1
  <2>3. LeafAt(0) \in 0 .. Len(mem) /\ Len(mem) \in Nat
    BY <1>1, LeafType DEF TypeInv, MemOK
  <2>4. QED
    BY <1>1, <2>2, <2>3 DEF LeavesOK
<1>3. PICK e : e = [IdleReader EXCEPT !.at = "chunk", !.n = chunkCount, !.o = LeafAt(0)]
  OBVIOUS
<1>4. e \in ReaderStates /\ e.at = "chunk" /\ e.n = chunkCount /\ e.o = LeafAt(0) /\ e.i = 0
  BY <1>1, <1>2, <1>3 DEF IdleReader, ReaderStates
<1>5. 0 * RowsPerChunk = 0
  BY <1>1
<1>6. Stands(e)
  BY <1>1, <1>2, <1>4, <1>5 DEF Stands
<1>7. QED
  BY <1>3, <1>4, <1>6, ReaderMove DEF WalkChunks

\* forEachChunk follows a tail link: it is set, or the leaf was not counted when
\* the walk began.
LEMMA NextChunkInv ==
  ASSUME ListInv, NEW r \in Readers, NextChunk(r)
  PROVE  ListInv'
<1>1. /\ TypeInv /\ RowsOK /\ LeavesOK /\ ChainOK /\ chunkCount \in Nat
      /\ RowsPerChunk \in Nat \ {0} /\ NewRow = chunkCount * RowsPerChunk
      /\ NewRow \in Nat /\ Leaved \in Nat /\ Linked \in Nat /\ Linked <= Leaved /\ NewRow <= Linked
  BY RowNumbers DEF ListInv, RowsOK, NewRow
<1>2. /\ rd[r] \in ReaderStates /\ rd[r].i \in Nat /\ rd[r].n \in Nat /\ rd[r].o # 0
      /\ rd[r].n <= chunkCount /\ rd[r].o = LeafAt(rd[r].i * RowsPerChunk)
      /\ rd[r].at = "chunk"
  BY DEF ListInv, ReadersOK, ReaderOK, NextChunk, ReaderStates
<1>3. PICK p \in Nat : p = rd[r].i * RowsPerChunk
  BY <1>1, <1>2, MulOrder
<1>4. p + RowsPerChunk = (rd[r].i + 1) * RowsPerChunk /\ p + RowsPerChunk \in Nat
  BY <1>1, <1>2, <1>3, MulOrder
<1>5. p < Leaved
  BY <1>1, <1>2, <1>3 DEF LeavesOK
<1>6. PICK o : o = mem[rd[r].o][0]
  OBVIOUS
<1>7. o = IF p + RowsPerChunk < Linked THEN LeafAt(p + RowsPerChunk) ELSE 0
  BY <1>1, <1>2, <1>3, <1>5, <1>6 DEF ChainOK
<1>8. o \in Nat
  <2>1. LeafAt(p + RowsPerChunk) \in 0 .. Len(mem) /\ Len(mem) \in Nat
    BY <1>1, <1>4, LeafType DEF TypeInv, MemOK
  <2>2. QED
    BY <1>7, <2>1
<1>9. IF o = 0 THEN rd[r].i + 1 >= rd[r].n ELSE o = LeafAt((rd[r].i + 1) * RowsPerChunk)
  <2>1. CASE p + RowsPerChunk < Linked
    <3>1. LeafAt(p + RowsPerChunk) # 0
      BY <1>1, <1>4, <2>1 DEF LeavesOK
    <3>2. QED
      BY <1>4, <1>7, <2>1, <3>1
  <2>2. CASE ~(p + RowsPerChunk < Linked)
    <3>1. (rd[r].i + 1) * RowsPerChunk >= chunkCount * RowsPerChunk
      BY <1>1, <1>4, <2>2
    <3>2. rd[r].i + 1 >= chunkCount
      <4>1. rd[r].i + 1 \in Nat
        BY <1>2
      <4>2. QED
        BY <1>1, <3>1, <4>1, MulOrder
    <3>3. QED
      BY <1>1, <1>2, <1>7, <2>2, <3>2
  <2>3. QED
    BY <2>1, <2>2
<1>10. PICK e : e = [rd[r] EXCEPT !.o = o, !.i = @ + 1]
  OBVIOUS
<1>11. e \in ReaderStates /\ e.at = "chunk" /\ e.n = rd[r].n /\ e.o = o /\ e.i = rd[r].i + 1
  <2>1. PICK i \in Nat : i = rd[r].i + 1
    BY <1>2
  <2>2. e = [rd[r] EXCEPT !.o = o, !.i = i]
    BY <1>10, <2>1
  <2>3. QED
    BY <1>2, <1>8, <2>1, <2>2 DEF ReaderStates
<1>12. Stands(e)
  BY <1>2, <1>9, <1>11 DEF Stands
<1>13. QED
  BY <1>6, <1>10, <1>11, <1>12, ReaderMove DEF NextChunk

\* Every step of a reader keeps the list sound.
LEMMA ReadInv ==
  ASSUME ListInv, NEW r \in Readers, Read(r)
  PROVE  ListInv'
<1>1. WalkEnds(r) => Reads(r, IdleReader)
  BY DEF WalkEnds
<1>2. QED
  BY <1>1, ObserveInv, LoadRootInv, HopInv, NextRowInv, WalkChunksInv, NextChunkInv, IdleAgain DEF Read

-----------------------------------------------------------------------------
\* Every step of the list keeps it sound: ListInv is inductive.
LEMMA ListStepInv == ListInv /\ [Next]_vars => ListInv'
<1> SUFFICES ASSUME ListInv, [Next]_vars PROVE ListInv'
  OBVIOUS
<1>1. ASSUME NEW t \in Threads, Call(t) PROVE ListInv'
  BY <1>1, AddSlotInv, ReserveInv DEF Call
<1>2. ASSUME NEW t \in Threads, Advance(t) PROVE ListInv'
  <2>1. CASE GiveUp(t) \/ Enter(t) \/ Unlock(t)
    BY <2>1, GiveUpInv, EnterInv, UnlockInv
  <2>2. CASE DirGrow(t) \/ Descend(t) \/ NodeStep(t) \/ LeafStep(t)
    BY <2>2, DirGrowInv, DescendInv, NodeStepInv, LeafStepInv
  <2>3. CASE AllocFails(t) \/ Link(t) \/ Count(t) \/ Commit(t)
    BY <2>3, AllocFailsInv, LinkInv, CountInv, CommitInv
  <2>4. QED
    BY <1>2, <2>1, <2>2, <2>3 DEF Advance
<1>3. ASSUME NEW r \in Readers, Read(r) PROVE ListInv'
  BY <1>3, ReadInv
<1>4. ASSUME NEW bytes \in Budgets, SetChunkBytes(bytes) PROVE ListInv'
  BY <1>4, SetChunkBytesInv
<1>5. CASE UNCHANGED vars
  <2>1. UNCHANGED <<word, lk, mem, roots, shape, chunkCount, committed, handed, wr, rd>>
    BY <1>5 DEF vars, lockVars, listVars
  <2>2. /\ TypeInv /\ TreeOK /\ ReachOK /\ LeavesOK /\ RowsOK /\ ReadersOK
        /\ committed' \in Nat /\ committed <= committed' /\ chunkCount' \in Nat /\ chunkCount <= chunkCount'
    BY <2>1 DEF ListInv, RowsOK
  <2>3. Steady /\ SameShape
    BY <2>1, <2>2, QuietTree
  <2>4. ReadersOK'
    BY <2>1, <2>2, <2>3, SteadyReaders
  <2>5. QED
    BY <2>1, <2>4, ReadersOnly
<1>6. QED
  BY <1>1, <1>2, <1>3, <1>4, <1>5 DEF Next

\* ChunkedList is sound in every state it can reach, with any number of writers
\* and readers, any radices and roots of any size: the tree is one, the chain
\* is in order, and every reader is on the way to its row.
THEOREM ListIsSound == Spec => []ListInv
<1>1. Init => ListInv
  BY InitInv
<1>2. ListInv /\ [Next]_vars => ListInv'
  BY ListStepInv
<1>3. QED
  BY <1>1, <1>2, PTL DEF Spec

\* A sound list shows its readers whole rows.
LEMMA WholeRows == ListInv => ReadersSeeWholeRows
<1> SUFFICES ASSUME ListInv PROVE ReadersSeeWholeRows
  OBVIOUS
<1>1. RowsOK /\ committed \in Nat /\ \A r \in Readers : rd[r] \in ReaderStates /\ ReaderOK(r)
  BY DEF ListInv, ReadersOK, RowsOK
<1>2. ASSUME NEW r \in Readers, rd[r].at = "found"
      PROVE  handed[rd[r].i + 1] = <<rd[r].o, rd[r].i % RowsPerChunk>>
  <2>1. rd[r].i \in Nat /\ rd[r].n \in Nat /\ rd[r].i < rd[r].n /\ rd[r].n <= committed /\ rd[r].o = LeafAt(rd[r].i)
    BY <1>1, <1>2 DEF ReaderOK, ReaderStates
  <2>2. rd[r].i \in 0 .. committed - 1
    BY <1>1, <2>1
  <2>3. QED
    BY <1>1, <2>1, <2>2 DEF RowsOK, Row
<1>3. PublishedRowsResolve
  BY <1>1, <1>2 DEF PublishedRowsResolve, ReaderStates
<1>4. WalkIsWhole
  BY <1>1 DEF WalkIsWhole, ReaderOK
<1>5. QED
  BY <1>3, <1>4 DEF ReadersSeeWholeRows

\* slot, packInto and forEachChunk take no lock and need none: a row below the
\* committed count resolves to the address addSlot returned, under whatever root
\* the reader started from, and a walk meets every counted leaf in order.
THEOREM ReadersNeedNoLock == Spec => []ReadersSeeWholeRows
  BY ListIsSound, WholeRows, PTL

-----------------------------------------------------------------------------
\* The list of rows that callers were given.

\* Different rows have different addresses.
LEMMA RowsDiffer ==
  ASSUME ListInv, NEW i \in Nat, NEW j \in Nat, LeafAt(i) # 0, Row(i) = Row(j)
  PROVE  i = j
<1>1. /\ TypeInv /\ TreeOK /\ RowsPerChunk \in Nat \ {0} /\ LeafDepth \in 1 .. LeafDepth
      /\ RowsPerChunk = Span(LeafDepth - 1)
  BY Geometry DEF ListInv, TypeInv
<1>2. LeafAt(i) = LeafAt(j) /\ i % RowsPerChunk = j % RowsPerChunk
  BY DEF Row
<1>3. i \div RowsPerChunk = j \div RowsPerChunk
  BY <1>1, <1>2 DEF TreeOK, LeafAt, Index
<1>4. /\ i = (i \div RowsPerChunk) * RowsPerChunk + (i % RowsPerChunk)
      /\ j = (j \div RowsPerChunk) * RowsPerChunk + (j % RowsPerChunk)
  BY <1>1, DivMod
<1>5. QED
  BY <1>2, <1>3, <1>4

\* Committing a row adds one to the list of rows, at an address no row has.
LEMMA HandsAdds ==
  ASSUME ListInv, Hands, LeafAt(committed) # 0
  PROVE  Rows!Add
<1>1. /\ committed \in Nat /\ handed \in Seq(Nat \X Nat) /\ Len(handed) = committed
      /\ \A i \in 0 .. committed - 1 : handed[i + 1] = Row(i)
  BY DEF ListInv, RowsOK
<1>2. PICK row : row = Row(committed)
  OBVIOUS
<1>3. PICK S : handed \in Seq(S) /\ row \in S
  <2>1. handed \in Seq((Nat \X Nat) \cup {row})
    BY <1>1, SeqMonotonic
  <2>2. QED
    BY <2>1
<1>4. /\ handed' = Append(handed, row) /\ handed' \in Seq(S) /\ Len(handed') = committed + 1
      /\ \A k \in 1 .. committed : handed'[k] = handed[k]
      /\ handed'[committed + 1] = row
  <2>1. handed' = Append(handed, row)
    BY <1>2 DEF Hands
  <2>2. QED
    BY <1>1, <1>3, <2>1, AppendProperties
<1>5. SubSeq(handed', 1, Len(handed)) = handed
  BY <1>1, <1>3, <1>4
<1>6. ASSUME NEW k \in DOMAIN handed PROVE handed[k] # row
  <2>1. k - 1 \in 0 .. committed - 1 /\ k - 1 \in Nat /\ (k - 1) + 1 = k /\ k - 1 # committed
    BY <1>1
  <2>2. handed[k] = Row(k - 1)
    BY <1>1, <2>1
  <2>3. Row(k - 1) # Row(committed)
    BY <1>1, <2>1, RowsDiffer
  <2>4. QED
    BY <1>2, <2>2, <2>3
<1>7. QED
  BY <1>1, <1>4, <1>5, <1>6 DEF Rows!Add

\* Every step of the list hands out a new row or none.
LEMMA ListStepAdds == ListInv /\ [Next]_vars => [Rows!Add]_handed
<1> SUFFICES ASSUME ListInv, [Next]_vars PROVE Rows!Add \/ handed' = handed
  OBVIOUS
<1>1. ASSUME NEW t \in Threads, Call(t) PROVE handed' = handed
  BY <1>1 DEF Call, AddSlot, Reserve, listVars
<1>2. ASSUME NEW t \in Threads, Advance(t) PROVE Rows!Add \/ handed' = handed
  <2>1. CASE GiveUp(t) \/ Enter(t) \/ Unlock(t)
    BY <2>1 DEF GiveUp, Enter, Unlock, listVars
  <2>2. CASE DirGrow(t) \/ Descend(t) \/ NodeStep(t) \/ LeafStep(t)
    BY <2>2 DEF DirGrow, Descend, NodeStep, LeafStep, listVars
  <2>3. CASE AllocFails(t) \/ Link(t) \/ Count(t)
    BY <2>3 DEF AllocFails, Link, Count, listVars
  <2>4. CASE Commit(t)
    BY <2>4, HandsAdds DEF Commit, Hands
  <2>5. QED
    BY <1>2, <2>1, <2>2, <2>3, <2>4 DEF Advance
<1>3. ASSUME NEW r \in Readers, Read(r) PROVE handed' = handed
  BY <1>3 DEF Read, Reads, Observe, LoadRoot, Hop, NextRow, WalkChunks, NextChunk, WalkEnds, listVars
<1>4. ASSUME NEW bytes \in Budgets, SetChunkBytes(bytes) PROVE handed' = handed
  BY <1>4 DEF SetChunkBytes
<1>5. CASE UNCHANGED vars
  BY <1>5 DEF vars, listVars
<1>6. QED
  BY <1>1, <1>2, <1>3, <1>4, <1>5 DEF Next

\* ChunkedList implements RowList: the rows handed out only grow in number, and
\* no two callers are given the same one, whatever fails between claim and commit.
THEOREM ListImplementsRowList == Spec => ImplementsRowList
<1>1. Init => Rows!Init
  BY DEF Init, Rows!Init
<1>2. ListInv /\ [Next]_vars => [Rows!Add]_handed
  BY ListStepAdds
<1>3. QED
  BY <1>1, <1>2, ListIsSound, PTL DEF Spec, ImplementsRowList, Rows!Spec

-----------------------------------------------------------------------------
\* What ChunkedList_free reaches.

\* Every pointer of an object on a way is itself on the way to some row.
LEMMA CellHasRow ==
  ASSUME TypeInv, TreeOK, NEW i \in Nat, NEW d \in 0 .. LeafDepth - 1,
         Path(i)[d] # 0, NEW k \in DOMAIN mem[Path(i)[d]]
  PROVE  \E j \in Nat : /\ Path(j)[d] = Path(i)[d] /\ Digit(j, d) = k
                        /\ Path(j)[d + 1] = mem[Path(i)[d]][k]
<1>1. LeafDepth \in Nat \ {0} /\ PathFacts /\ IndexFacts
  BY Geometry, PathsWalk, RowsHaveDigits DEF TypeInv
<1>2. /\ d \in 0 .. LeafDepth /\ d + 1 \in 1 .. LeafDepth /\ (d + 1) - 1 = d
      /\ Span(d) \in Nat \ {0}
  <2>1. d \in 0 .. LeafDepth /\ d + 1 \in 1 .. LeafDepth /\ (d + 1) - 1 = d
    BY <1>1
  <2>2. QED
    BY <2>1, Geometry DEF TypeInv
<1>3. ASSUME NEW j \in Nat, Path(j)[d] = Path(i)[d], Digit(j, d) = k
      PROVE  Path(j)[d + 1] = mem[Path(i)[d]][k]
  <2>1. Path(j)[d + 1] = Child(Path(j)[d], j, d)
    BY <1>1, <1>2 DEF PathFacts
  <2>2. QED
    BY <1>3, <2>1 DEF Child
<1>4. ASSUME NEW n \in Nat PROVE n * Span(d) \in Nat /\ Index(n * Span(d), d) = n
  <2>1. PICK s \in Nat \ {0} : s = Span(d)
    BY <1>2
  <2>2. n * s \in Nat /\ n * s = n * s + 0
    BY MulOrder
  <2>3. (n * s) \div s = n
    BY <2>2, Quotient
  <2>4. QED
    BY <2>1, <2>2, <2>3 DEF Index
<1>5. CASE d = 0
  <2>1. Path(i)[0] = Directory
    BY <1>1 DEF PathFacts
  <2>2. k \in Nat
    <3>1. roots # <<>>
      BY <1>5, <2>1 DEF Directory
    <3>2. k \in 0 .. Capacity - 1 /\ Capacity \in Nat
      BY <1>5, <2>1, <3>1, CapacityCounts
    <3>3. QED
      BY <3>2
  <2>3. PICK j \in Nat : j = k * Span(d)
    BY <1>4, <2>2
  <2>4. Path(j)[0] = Directory /\ Digit(j, 0) = k
    BY <1>1, <1>4, <1>5, <2>2, <2>3 DEF PathFacts, IndexFacts
  <2>5. QED
    BY <1>3, <1>5, <2>1, <2>4
<1>6. CASE d # 0
  <2>1. d \in 1 .. LeafDepth /\ d \in 1 .. LeafDepth - 1 /\ d # LeafDepth /\ d - 1 \in 0 .. LeafDepth
    BY <1>1, <1>6
  <2>2. k \in 0 .. shape[d] - 1 /\ shape[d] \in Nat \ {0}
    <3>1. DOMAIN mem[Path(i)[d]] = 0 .. shape[d] - 1
      BY <2>1 DEF TreeOK
    <3>2. QED
      BY <2>1, <3>1, Geometry DEF TypeInv
  <2>3. PICK a \in Nat : a = Index(i, d - 1)
    BY <1>1, <2>1 DEF IndexFacts
  <2>4. PICK r \in Nat \ {0} : r = shape[d]
    BY <2>2
  <2>5. a * r + k \in Nat /\ k \in Nat /\ k < r
    <3>1. a * r \in Nat
      BY MulOrder
    <3>2. QED
      BY <2>2, <2>4, <3>1
  <2>6. PICK n \in Nat : n = a * r + k
    BY <2>5
  <2>7. n \div r = a /\ n % r = k
    BY <2>5, <2>6, Quotient
  <2>8. PICK j \in Nat : j = n * Span(d)
    BY <1>4
  <2>9. Index(j, d) = n
    BY <1>4, <2>8
  <2>10. Index(j, d - 1) = a /\ Digit(j, d) = k
    <3>1. Index(j, d - 1) = Index(j, d) \div shape[d]
      BY <1>1, <2>1 DEF IndexFacts
    <3>2. Digit(j, d) = Index(j, d) % shape[d]
      BY <1>6 DEF Digit, Index
    <3>3. QED
      BY <2>4, <2>7, <2>9, <3>1, <3>2
  <2>11. Path(j)[d] = Path(i)[d]
    BY <2>1, <2>3, <2>10, SameWay
  <2>12. QED
    BY <1>3, <2>10, <2>11
<1>7. QED
  BY <1>5, <1>6

\* The objects below the objects of a layer.
Below(objects) == UNION {{mem[o][k] : k \in DOMAIN mem[o]} \ {0} : o \in objects}

\* freeSubtree's recursion: a layer is what the cells of the layer above hold.
LEMMA LayerEq ==
  ASSUME TypeInv
  PROVE  /\ Layer[0] = {Directory} \ {0}
         /\ \A d \in 1 .. LeafDepth : Layer[d] = Below(Layer[d - 1])
<1> DEFINE n == LeafDepth
           P == SUBSET DOMAIN mem
           top == IF roots = <<>> THEN {} ELSE {Directory}
           g == [p \in Nat \X P |-> Below(p[2])]
           Body(f) == [d \in 0 .. n |-> IF d = 0 THEN top ELSE Below(f[d - 1])]
<1>1. /\ n \in Nat /\ top \in P /\ top = {Directory} \ {0}
  <2>1. Len(mem) \in Nat /\ DOMAIN mem = 1 .. Len(mem)
    BY DEF TypeInv, MemOK
  <2>2. n \in Nat
    BY Geometry DEF TypeInv
  <2>3. CASE roots = <<>>
    BY <2>2, <2>3 DEF Directory
  <2>4. CASE roots # <<>>
    BY <2>1, <2>2, <2>4, DirectoryType DEF TypeInv
  <2>5. QED
    BY <2>3, <2>4
<1>2. \A s \in P : Below(s) \in P
  <2> SUFFICES ASSUME NEW s \in P, NEW o \in s, NEW k \in DOMAIN mem[o], mem[o][k] # 0
               PROVE  mem[o][k] \in DOMAIN mem
    BY DEF Below
  <2>1. Len(mem) \in Nat /\ DOMAIN mem = 1 .. Len(mem) /\ mem[o][k] \in 0 .. Len(mem)
    BY DEF TypeInv, MemOK
  <2>2. QED
    BY <2>1
<1>3. g \in [Nat \X P -> P]
  BY <1>2
<1>4. PICK f \in [0 .. n -> P] : IsIterate(f, n, top, g)
  <2> HIDE DEF g, n, top, P
  <2>1. QED
    BY <1>1, <1>3, Recursion
<1>5. f = Body(f)
  <2>1. ASSUME NEW d \in 0 .. n, d # 0
        PROVE  g[<<d - 1, f[d - 1]>>] = Below(f[d - 1])
    <3>1. d - 1 \in Nat /\ d - 1 \in 0 .. n
      BY <1>1, <2>1
    <3>2. PICK e \in 0 .. n : e = d - 1 /\ e \in Nat
      BY <3>1
    <3> HIDE DEF P, n
    <3>3. PICK s \in P : s = f[e]
      BY <1>4
    <3>4. g[<<e, s>>] = Below(s)
      BY <3>2
    <3>5. QED
      BY <3>2, <3>3, <3>4
  <2> HIDE DEF g, top, n
  <2>2. QED
    BY <1>4, <2>1 DEF IsIterate
<1>6. Layer = CHOOSE ff : ff = Body(ff)
  BY DEF Layer, Below
<1>7. Layer = Body(Layer)
  <2> HIDE DEF Body
  <2>1. QED
    BY <1>5, <1>6
<1>8. 0 \in 0 .. n /\ \A d \in 1 .. n : d \in 0 .. n /\ d # 0
  BY <1>1
<1>9. Layer[0] = top /\ \A d \in 1 .. n : Layer[d] = Below(Layer[d - 1])
  <2> HIDE DEF n, top
  <2>1. QED
    BY <1>7, <1>8
<1>10. QED
  BY <1>1, <1>9

\* A layer holds the objects that rows meet at that depth.
LEMMA LayerIs ==
  ASSUME TypeInv, TreeOK
  PROVE  \A d \in 0 .. LeafDepth : Layer[d] = {Path(i)[d] : i \in Nat} \ {0}
<1> DEFINE Met(d) == {Path(i)[d] : i \in Nat} \ {0}
           T == {d \in 0 .. LeafDepth : Layer[d] = Met(d)}
<1>1. LeafDepth \in Nat \ {0} /\ PathFacts
  BY Geometry, PathsWalk DEF TypeInv
<1>2. 0 \in T
  <2>1. Met(0) = {Directory} \ {0}
    BY <1>1 DEF PathFacts
  <2>2. QED
    BY <1>1, <2>1, LayerEq
<1>3. ASSUME NEW d \in 0 .. LeafDepth - 1, d \in T
      PROVE  d + 1 \in T
  <2>1. d + 1 \in 1 .. LeafDepth /\ d + 1 \in 0 .. LeafDepth /\ (d + 1) - 1 = d /\ d \in 0 .. LeafDepth
    BY <1>1
  <2>2. Layer[d + 1] = Below(Met(d))
    BY <1>3, <2>1, LayerEq
  <2>3. ASSUME NEW x \in Below(Met(d)) PROVE x \in Met(d + 1)
    <3>0. PICK o \in Met(d) : \E k \in DOMAIN mem[o] : x = mem[o][k] /\ x # 0
      BY <2>3 DEF Below
    <3>1. PICK k \in DOMAIN mem[o] : x = mem[o][k] /\ x # 0
      BY <3>0
    <3>2. PICK i \in Nat : o = Path(i)[d] /\ o # 0
      BY <3>1
    <3>3. PICK j \in Nat : Path(j)[d + 1] = mem[o][k]
      BY <3>1, <3>2, CellHasRow
    <3>4. QED
      BY <3>1, <3>3
  <2>4. ASSUME NEW x \in Met(d + 1) PROVE x \in Below(Met(d))
    <3>1. PICK i \in Nat : x = Path(i)[d + 1] /\ x # 0
      BY <2>4
    <3>2. Path(i)[d + 1] = Child(Path(i)[d], i, d)
      BY <1>1, <2>1 DEF PathFacts
    <3>3. PICK o : o = Path(i)[d]
      OBVIOUS
    <3>4. o # 0 /\ Digit(i, d) \in DOMAIN mem[o] /\ x = mem[o][Digit(i, d)]
      BY <3>1, <3>2, <3>3 DEF Child
    <3>5. o \in Met(d)
      BY <3>3, <3>4
    <3> HIDE DEF Met
    <3>6. QED
      BY <3>1, <3>4, <3>5 DEF Below
  <2>5. QED
    BY <2>1, <2>2, <2>3, <2>4
<1> HIDE DEF T
<1>4. 0 .. LeafDepth \subseteq T
  BY <1>1, <1>2, <1>3, Induction
<1>5. QED
  BY <1>4 DEF T

\* Two pointers to one object are one pointer.
LEMMA OnePointer ==
  ASSUME TypeInv, TreeOK,
         NEW i \in Nat, NEW d \in 0 .. LeafDepth - 1, Path(i)[d] # 0, NEW k \in DOMAIN mem[Path(i)[d]],
         NEW j \in Nat, NEW e \in 0 .. LeafDepth - 1, Path(j)[e] # 0, NEW l \in DOMAIN mem[Path(j)[e]],
         mem[Path(i)[d]][k] # 0, mem[Path(i)[d]][k] = mem[Path(j)[e]][l]
  PROVE  Path(i)[d] = Path(j)[e] /\ k = l
<1>1. PICK a \in Nat : /\ Path(a)[d] = Path(i)[d] /\ Digit(a, d) = k
                       /\ Path(a)[d + 1] = mem[Path(i)[d]][k]
  BY CellHasRow
<1>2. PICK b \in Nat : /\ Path(b)[e] = Path(j)[e] /\ Digit(b, e) = l
                       /\ Path(b)[e + 1] = mem[Path(j)[e]][l]
  BY CellHasRow
<1>3. LeafDepth \in Nat \ {0} /\ PathFacts /\ IndexFacts
  BY Geometry, PathsWalk, RowsHaveDigits DEF TypeInv
<1>4. d + 1 \in 1 .. LeafDepth /\ e + 1 \in 1 .. LeafDepth /\ (d + 1) - 1 = d /\ (e + 1) - 1 = e
  BY <1>3
<1>5. e + 1 = d + 1 /\ Index(b, d) = Index(a, d)
  <2>1. Path(b)[e + 1] = Path(a)[d + 1] /\ Path(a)[d + 1] # 0
    BY <1>1, <1>2
  <2>2. e + 1 = d + 1 /\ Index(b, (d + 1) - 1) = Index(a, (d + 1) - 1)
    BY <1>4, <2>1 DEF TreeOK
  <2>3. QED
    BY <1>4, <2>2
<1>6. e = d
  BY <1>4, <1>5
<1>7. CASE d = 0
  BY <1>1, <1>2, <1>3, <1>5, <1>6, <1>7 DEF PathFacts, IndexFacts
<1>8. CASE d # 0
  <2>1. d \in 1 .. LeafDepth - 1 /\ d \in 1 .. LeafDepth
    BY <1>3, <1>8
  <2>2. Index(b, d - 1) = Index(a, d - 1)
    BY <1>3, <1>5, <2>1 DEF IndexFacts
  <2>3. Path(b)[d] = Path(a)[d]
    BY <2>1, <2>2, SameWay
  <2>4. Digit(b, d) = Digit(a, d)
    BY <1>5, <1>8 DEF Digit, Index
  <2>5. QED
    BY <1>1, <1>2, <1>6, <2>3, <2>4
<1>9. QED
  BY <1>7, <1>8

\* In a sound list freeSubtree reaches every object once.
LEMMA FreeIsWhole == ListInv => FreeReachesAll
<1> SUFFICES ASSUME ListInv PROVE FreeReachesAll
  OBVIOUS
<1> DEFINE inner == UNION {Layer[d] : d \in 0 .. LeafDepth - 1}
           outer == UNION {Layer[d] : d \in 1 .. LeafDepth}
           P == UNION {Pointers(o) : o \in inner}
           Val(p) == mem[p[1]][p[2]]
           f == [x \in outer |-> CHOOSE p \in P : Val(p) = x]
<1>1. /\ TypeInv /\ TreeOK /\ ReachOK /\ LeafDepth \in Nat \ {0} /\ PathFacts
      /\ Len(mem) \in Nat /\ DOMAIN mem = 1 .. Len(mem) /\ Range(roots) \subseteq DOMAIN mem
  BY Geometry, PathsWalk DEF ListInv, TypeInv, MemOK, RootsOK, Range
<1>2. \A d \in 0 .. LeafDepth : Layer[d] = {Path(i)[d] : i \in Nat} \ {0}
  BY <1>1, LayerIs
<1>3. \A d \in 1 .. LeafDepth : d \in 0 .. LeafDepth /\ d - 1 \in 0 .. LeafDepth - 1
  BY <1>1
<1>4. \A d \in 0 .. LeafDepth - 1 : d \in 0 .. LeafDepth /\ d + 1 \in 1 .. LeafDepth /\ (d + 1) - 1 = d
  BY <1>1
<1>5. \A o : o \in outer <=> \E i \in Nat : \E d \in 1 .. LeafDepth : Path(i)[d] = o /\ o # 0
  BY <1>2, <1>3
<1>6. \A o : o \in inner <=> \E i \in Nat : \E d \in 0 .. LeafDepth - 1 : Path(i)[d] = o /\ o # 0
  BY <1>2, <1>4
<1>7. outer \subseteq DOMAIN mem
  <2> SUFFICES ASSUME NEW i \in Nat, NEW d \in 1 .. LeafDepth, Path(i)[d] # 0
               PROVE  Path(i)[d] \in DOMAIN mem
    BY <1>5
  <2>1. Path(i)[d] \in 0 .. Len(mem)
    BY <1>1, <1>3 DEF PathFacts
  <2>2. QED
    BY <1>1, <2>1
<1> HIDE DEF inner, outer
<1>8. Freed = DOMAIN mem
  <2>1. Freed = outer \cup Range(roots)
    BY DEF Freed, outer
  <2>2. \A o \in DOMAIN mem : o \in outer \/ o \in Range(roots)
    BY <1>1, <1>5 DEF ReachOK
  <2>3. QED
    BY <1>1, <1>7, <2>1, <2>2
<1>9. \A p : p \in P <=> /\ p = <<p[1], p[2]>>
                         /\ \E i \in Nat : \E d \in 0 .. LeafDepth - 1 :
                              Path(i)[d] = p[1] /\ p[1] # 0 /\ p[2] \in DOMAIN mem[p[1]] /\ Val(p) # 0
  <2>1. ASSUME NEW p, p \in P
        PROVE  p = <<p[1], p[2]>> /\ p[1] \in inner /\ p[2] \in DOMAIN mem[p[1]] /\ Val(p) # 0
    <3>1. PICK o \in inner : p \in Pointers(o)
      BY <2>1
    <3>2. PICK k \in DOMAIN mem[o] : p = <<o, k>> /\ mem[o][k] # 0
      BY <3>1 DEF Pointers
    <3>3. QED
      BY <3>2
  <2>2. ASSUME NEW p, p = <<p[1], p[2]>>, p[1] \in inner, p[2] \in DOMAIN mem[p[1]], Val(p) # 0
        PROVE  p \in P
    <3>1. p \in Pointers(p[1])
      BY <2>2 DEF Pointers
    <3>2. QED
      BY <2>2, <3>1
  <2> HIDE DEF P, Val
  <2>3. QED
    BY <1>6, <2>1, <2>2
<1>10. \A p \in P : Val(p) \in outer
  <2> SUFFICES ASSUME NEW p \in P PROVE Val(p) \in outer
    OBVIOUS
  <2>1. PICK i \in Nat, d \in 0 .. LeafDepth - 1 :
          Path(i)[d] = p[1] /\ p[1] # 0 /\ p[2] \in DOMAIN mem[p[1]] /\ Val(p) # 0
    BY <1>9
  <2>2. \E j \in Nat : Path(j)[d + 1] = mem[p[1]][p[2]]
    BY <1>1, <2>1, CellHasRow
  <2>3. QED
    BY <1>4, <1>5, <2>1, <2>2
<1>11. \A p, q \in P : Val(p) = Val(q) => p = q
  <2> SUFFICES ASSUME NEW p \in P, NEW q \in P, Val(p) = Val(q) PROVE p = q
    OBVIOUS
  <2>1. PICK i \in Nat, d \in 0 .. LeafDepth - 1 :
          Path(i)[d] = p[1] /\ p[1] # 0 /\ p[2] \in DOMAIN mem[p[1]] /\ Val(p) # 0
    BY <1>9
  <2>2. PICK j \in Nat, e \in 0 .. LeafDepth - 1 :
          Path(j)[e] = q[1] /\ q[1] # 0 /\ q[2] \in DOMAIN mem[q[1]] /\ Val(q) # 0
    BY <1>9
  <2>3. PICK o, k, oo, kk : o = p[1] /\ k = p[2] /\ oo = q[1] /\ kk = q[2]
    OBVIOUS
  <2>4. /\ o = Path(i)[d] /\ Path(i)[d] # 0 /\ k \in DOMAIN mem[Path(i)[d]] /\ mem[Path(i)[d]][k] # 0
        /\ oo = Path(j)[e] /\ Path(j)[e] # 0 /\ kk \in DOMAIN mem[Path(j)[e]]
        /\ mem[Path(i)[d]][k] = mem[Path(j)[e]][kk]
    BY <2>1, <2>2, <2>3
  <2>5. o = oo /\ k = kk
    <3>1. PICK c \in DOMAIN mem[Path(i)[d]] : c = k
      BY <2>4
    <3>2. PICK l \in DOMAIN mem[Path(j)[e]] : l = kk
      BY <2>4
    <3>3. /\ Path(i)[d] # 0 /\ Path(j)[e] # 0
          /\ mem[Path(i)[d]][c] # 0 /\ mem[Path(i)[d]][c] = mem[Path(j)[e]][l]
      BY <2>4, <3>1, <3>2
    <3>4. Path(i)[d] = Path(j)[e] /\ c = l
      <4>1. TypeInv /\ TreeOK
        BY <1>1
      <4>2. QED
        BY ONLY <4>1, <3>3, OnePointer, i \in Nat, j \in Nat, d \in 0 .. LeafDepth - 1,
             e \in 0 .. LeafDepth - 1, c \in DOMAIN mem[Path(i)[d]], l \in DOMAIN mem[Path(j)[e]]
    <3>5. QED
      BY <2>4, <3>1, <3>2, <3>4
  <2>6. p = <<p[1], p[2]>> /\ q = <<q[1], q[2]>>
    BY <1>9
  <2>7. QED
    BY <2>3, <2>5, <2>6
<1>12. \A x \in outer : \E p \in P : Val(p) = x
  <2> SUFFICES ASSUME NEW i \in Nat, NEW d \in 1 .. LeafDepth, Path(i)[d] # 0
               PROVE  \E p \in P : Val(p) = Path(i)[d]
    BY <1>5
  <2>1. Path(i)[d] = Child(Path(i)[d - 1], i, d - 1)
    BY <1>1 DEF PathFacts
  <2>2. PICK p : p = <<Path(i)[d - 1], Digit(i, d - 1)>>
    OBVIOUS
  <2>3. p[1] # 0 /\ p[2] \in DOMAIN mem[p[1]] /\ Val(p) = Path(i)[d]
    BY <2>1, <2>2 DEF Child
  <2>4. p = <<p[1], p[2]>> /\ p[1] = Path(i)[d - 1]
    BY <2>2
  <2>5. p \in P
    BY <1>3, <1>9, <2>3, <2>4
  <2>6. QED
    BY <2>3, <2>5
<1> HIDE DEF P, Val
<1>13. \A x \in outer : f[x] \in P /\ Val(f[x]) = x
  BY <1>12
<1>14. f \in Bijection(outer, P)
  <2>1. f \in [outer -> P]
    BY <1>13
  <2> HIDE DEF f
  <2>2. \A x, y \in outer : f[x] = f[y] => x = y
    BY <1>13
  <2>3. \A p \in P : \E x \in outer : f[x] = p
    BY <1>10, <1>11, <1>13
  <2>4. QED
    BY <2>1, <2>2, <2>3, Fun_IsBij
<1>15. IsFiniteSet(outer)
  <2>1. IsFiniteSet(DOMAIN mem)
    BY <1>1, FS_Interval
  <2>2. outer \in SUBSET DOMAIN mem
    BY <1>7
  <2>3. QED
    BY <2>1, <2>2, FS_Subset
<1>16. Cardinality(P) = Cardinality(outer)
  BY <1>14, <1>15, FS_Bijection DEF ExistsBijection
<1>17. QED
  BY <1>8, <1>16 DEF FreeReachesAll, P, inner, outer

\* ChunkedList_free frees every object that was ever allocated, those of calls
\* that failed half way included, and none twice.
THEOREM FreeLosesNothing == Spec => []FreeReachesAll
  BY ListIsSound, FreeIsWhole, PTL
=============================================================================
