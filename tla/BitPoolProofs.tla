---------------------------- MODULE BitPoolProofs ----------------------------
(***************************************************************************)
(* The bit pool's invariant, for every set of threads, every capacity and  *)
(* every range of the tags: its slots are in one place each and its list   *)
(* is linked, a swap that succeeds finds the list as its thread read it,   *)
(* the scan of a second free finds the slot and that of a first free never *)
(* does, whatever the others do to the list under it.                      *)
(***************************************************************************)
EXTENDS BitPool, FiniteSetTheorems, SequenceTheorems, TLAPS

\* (uint16_t)(tag + 1) is the next tag, or 0 after the last.
LEMMA BumpIsNext ==
  ASSUME NEW tag \in 0 .. TagMod - 1
  PROVE  /\ Bump(tag) \in 0 .. TagMod - 1
         /\ tag + 1 \in {Bump(tag), Bump(tag) + TagMod}
<1>1. TagMod \in Nat \ {0, 1}
  BY PoolAssumption
<1>2. CASE tag + 1 = TagMod
  <2>1. (tag + 1) % TagMod = 0
    BY <1>1, <1>2
  <2>2. QED
    BY <1>1, <1>2, <2>1 DEF Bump
<1>3. CASE tag + 1 # TagMod
  <2>1. tag + 1 \in 0 .. TagMod - 1
    BY <1>1, <1>3
  <2>2. (tag + 1) % TagMod = tag + 1
    BY <1>1, <2>1
  <2>3. QED
    BY <1>1, <2>1, <2>2 DEF Bump
<1>4. QED
  BY <1>2, <1>3

-----------------------------------------------------------------------------
(* The list *)

\* What the list's type gives.
LEMMA ListFacts ==
  ASSUME list \in Seq(Slots)
  PROVE  /\ Len(list) \in Nat /\ DOMAIN list = 1 .. Len(list)
         /\ \A i \in 1 .. Len(list) : list[i] \in Slots /\ list[i] \in FreeSlots /\ list[i] # 0
         /\ FreeSlots \subseteq Slots
         /\ \A s \in FreeSlots : \E i \in 1 .. Len(list) : list[i] = s
<1>1. Len(list) \in Nat /\ DOMAIN list = 1 .. Len(list)
  BY LenProperties
<1>2. \A i \in 1 .. Len(list) : list[i] \in Slots
  BY ElementOfSeq
<1>3. \A i \in 1 .. Len(list) : list[i] \in FreeSlots
  BY <1>1 DEF FreeSlots
<1>4. \A s \in FreeSlots : \E i \in 1 .. Len(list) : list[i] = s
  BY <1>1 DEF FreeSlots
<1>5. FreeSlots \subseteq Slots
  BY <1>2, <1>4
<1>6. 0 \notin Slots
  BY DEF Slots
<1>7. QED
  BY <1>1, <1>2, <1>3, <1>4, <1>5, <1>6

\* The head is the first free slot, and links to the second.
LEMMA HeadFacts ==
  ASSUME TypeOK, ListIsLinked
  PROVE  /\ free_head.ptr \in FreeSlots \cup {0}
         /\ free_head.ptr = 0 <=> Len(list) = 0
         /\ Len(list) # 0 => free_head.ptr = list[1]
<1>1. list \in Seq(Slots)
  BY DEF TypeOK
<1>2. CASE list = <<>>
  <2>1. Len(list) = 0
    BY <1>2, EmptySeq
  <2>2. QED
    BY <1>2, <2>1 DEF ListIsLinked
<1>3. CASE list # <<>>
  <2>1. Len(list) \in Nat /\ Len(list) # 0
    BY <1>1, <1>3, EmptySeq, LenProperties
  <2>2. free_head.ptr = list[1]
    BY <1>3 DEF ListIsLinked
  <2>3. 1 \in 1 .. Len(list)
    BY <2>1
  <2>4. list[1] \in FreeSlots /\ list[1] # 0
    BY <1>1, <2>3, ListFacts
  <2>5. QED
    BY <2>1, <2>2, <2>4
<1>4. QED
  BY <1>2, <1>3

\* A free slot links to the next one, or to nothing.
LEMMA LinksStayFree ==
  ASSUME TypeOK, ListIsLinked, NEW s \in FreeSlots
  PROVE  next[s] \in FreeSlots \cup {0}
<1>1. list \in Seq(Slots)
  BY DEF TypeOK
<1>2. PICK i \in 1 .. Len(list) : list[i] = s
  BY <1>1, ListFacts
<1>3. Len(list) \in Nat /\ DOMAIN list = 1 .. Len(list)
  BY <1>1, ListFacts
<1>4. next[s] = IF i = Len(list) THEN 0 ELSE list[i + 1]
  BY <1>2, <1>3 DEF ListIsLinked
<1>5. i # Len(list) => i + 1 \in 1 .. Len(list)
  <2>1. \A n \in Nat : \A k \in 1 .. n : k # n => k + 1 \in 1 .. n
    OBVIOUS
  <2>2. QED
    BY <1>2, <1>3, <2>1
<1>6. QED
  BY <1>1, <1>4, <1>5, ListFacts

\* There are no more free slots than slots.
LEMMA ListIsShort ==
  ASSUME TypeOK, Conservation
  PROVE  Len(list) <= Capacity
<1>1. list \in Seq(Slots) /\ Len(list) \in Nat /\ DOMAIN list = 1 .. Len(list)
  BY ListFacts DEF TypeOK
<1>2. list \in [1 .. Len(list) -> Slots]
  BY <1>1, ListFacts
<1>3. list \in Injection(1 .. Len(list), Slots)
  BY <1>1, <1>2 DEF Conservation, Injection, IsInjective
<1>4. Capacity \in Nat
  BY PoolAssumption
<1>5. \A n \in Nat : IsFiniteSet(1 .. n) /\ Cardinality(1 .. n) = n
  <2> SUFFICES ASSUME NEW n \in Nat PROVE IsFiniteSet(1 .. n) /\ Cardinality(1 .. n) = n
    OBVIOUS
  <2>1. 1 \in Int /\ n \in Int
    OBVIOUS
  <2>2. IsFiniteSet(1 .. n) /\ Cardinality(1 .. n) = IF 1 > n THEN 0 ELSE n - 1 + 1
    BY <2>1, FS_Interval
  <2>3. QED
    BY <2>2
<1>6. Cardinality(1 .. Len(list)) <= Cardinality(Slots)
  BY <1>3, <1>4, <1>5, FS_Injection DEF Slots
<1>7. QED
  BY <1>1, <1>4, <1>5, <1>6 DEF Slots

\* Popping the head takes one slot off the list and keeps the rest.
LEMMA PopList ==
  ASSUME TypeOK, Conservation, ListIsLinked, Len(list) # 0, list' = SubSeq(list, 2, Len(list))
  PROVE  /\ list' \in Seq(Slots) /\ Len(list') = Len(list) - 1
         /\ \A i \in 1 .. Len(list') : list'[i] = list[i + 1]
         /\ FreeSlots' = FreeSlots \ {list[1]}
         /\ \A i, j \in 1 .. Len(list') : list'[i] = list'[j] => i = j
<1>1. list \in Seq(Slots) /\ Len(list) \in Nat /\ DOMAIN list = 1 .. Len(list)
  BY ListFacts DEF TypeOK
<1> DEFINE n == Len(list)
<1>2. n \in Nat \ {0}
  BY <1>1
<1>3. /\ SubSeq(list, 2, n) \in Seq(Slots)
      /\ Len(SubSeq(list, 2, n)) = n - 1
      /\ \A i \in 1 .. n - 1 : SubSeq(list, 2, n)[i] = list[i + 1]
  <2>1. /\ 2 \in 1 .. n + 1 /\ n \in 2 - 1 .. n
    BY <1>2
  <2>2. /\ SubSeq(list, 2, n) \in Seq(Slots)
        /\ Len(SubSeq(list, 2, n)) = n - 2 + 1
        /\ \A i \in 1 .. n - 2 + 1 : SubSeq(list, 2, n)[i] = list[2 + i - 1]
    BY <1>1, <2>1, SubSeqProperties
  <2>3. n - 2 + 1 = n - 1 /\ \A i \in 1 .. n - 1 : 2 + i - 1 = i + 1
    BY <1>2
  <2>4. QED
    BY <2>2, <2>3
<1>4. list' \in Seq(Slots) /\ Len(list') = n - 1 /\ \A i \in 1 .. n - 1 : list'[i] = list[i + 1]
  BY <1>3
<1>5. DOMAIN list' = 1 .. n - 1
  BY <1>4, LenProperties
<1> HIDE DEF n
<1>6. \A i, j \in 1 .. n : list[i] = list[j] => i = j
  BY <1>1 DEF Conservation, n
<1>7. FreeSlots = {list[i] : i \in 1 .. n} /\ FreeSlots' = {list'[i] : i \in 1 .. n - 1}
  BY <1>1, <1>5 DEF FreeSlots, n
<1>8. FreeSlots' = {list[i + 1] : i \in 1 .. n - 1}
  BY <1>4, <1>7
<1>9. FreeSlots' \subseteq FreeSlots \ {list[1]}
  <2> SUFFICES ASSUME NEW i \in 1 .. n - 1 PROVE list[i + 1] \in FreeSlots /\ list[i + 1] # list[1]
    BY <1>8
  <2>1. i + 1 \in 1 .. n /\ 1 \in 1 .. n /\ i + 1 # 1
    BY <1>2
  <2>2. QED
    BY <1>6, <1>7, <2>1
<1>10. FreeSlots \ {list[1]} \subseteq FreeSlots'
  <2> SUFFICES ASSUME NEW i \in 1 .. n, list[i] # list[1] PROVE list[i] \in FreeSlots'
    BY <1>7
  <2>1. i - 1 \in 1 .. n - 1 /\ (i - 1) + 1 = i
    BY <1>2
  <2>2. QED
    BY <1>8, <2>1
<1>11. \A i, j \in 1 .. n - 1 : list'[i] = list'[j] => i = j
  <2> SUFFICES ASSUME NEW i \in 1 .. n - 1, NEW j \in 1 .. n - 1, list'[i] = list'[j] PROVE i = j
    OBVIOUS
  <2>1. i + 1 \in 1 .. n /\ j + 1 \in 1 .. n
    BY <1>2
  <2>2. i + 1 = j + 1
    BY <1>4, <1>6, <2>1
  <2>3. QED
    BY <1>2, <2>2
<1>12. QED
  BY <1>4, <1>9, <1>10, <1>11 DEF n

\* Pushing a slot that is not on the list puts it in front.
LEMMA PushList ==
  ASSUME TypeOK, Conservation, NEW s \in Slots \ FreeSlots, list' = <<s>> \o list
  PROVE  /\ list' \in Seq(Slots) /\ Len(list') = Len(list) + 1
         /\ list'[1] = s /\ \A i \in 1 .. Len(list) : list'[i + 1] = list[i]
         /\ FreeSlots' = FreeSlots \cup {s}
         /\ \A i, j \in 1 .. Len(list') : list'[i] = list'[j] => i = j
<1>1. list \in Seq(Slots) /\ Len(list) \in Nat /\ DOMAIN list = 1 .. Len(list)
  BY ListFacts DEF TypeOK
<1> DEFINE n == Len(list)
<1>2. <<s>> \in Seq(Slots) /\ Len(<<s>>) = 1 /\ <<s>>[1] = s
  OBVIOUS
<1>3. /\ list' \in Seq(Slots) /\ Len(list') = 1 + n
      /\ \A i \in 1 .. 1 + n : list'[i] = IF i <= 1 THEN <<s>>[i] ELSE list[i - 1]
  BY <1>1, <1>2, ConcatProperties
<1>4. n \in Nat /\ 1 + n = n + 1
  BY <1>1
<1> HIDE DEF n
<1>5. list'[1] = s /\ \A i \in 2 .. n + 1 : list'[i] = list[i - 1]
  <2>1. 1 \in 1 .. 1 + n /\ \A i \in 2 .. n + 1 : i \in 1 .. 1 + n /\ ~(i <= 1)
    BY <1>4
  <2>2. QED
    BY <1>2, <1>3, <2>1
<1>6. \A i \in 1 .. n : list'[i + 1] = list[i]
  <2> SUFFICES ASSUME NEW i \in 1 .. n PROVE list'[i + 1] = list[i]
    OBVIOUS
  <2>1. i + 1 \in 2 .. n + 1 /\ (i + 1) - 1 = i
    BY <1>4
  <2>2. QED
    BY <1>5, <2>1
<1>7. FreeSlots = {list[i] : i \in 1 .. n} /\ FreeSlots' = {list'[i] : i \in 1 .. n + 1}
  <2>1. DOMAIN list' = 1 .. n + 1
    BY <1>3, <1>4, LenProperties
  <2>2. QED
    BY <1>1, <2>1 DEF FreeSlots, n
<1>8. FreeSlots' \subseteq FreeSlots \cup {s}
  <2> SUFFICES ASSUME NEW i \in 1 .. n + 1, i # 1 PROVE list'[i] \in FreeSlots
    BY <1>5, <1>7
  <2>1. i \in 2 .. n + 1 /\ i - 1 \in 1 .. n
    BY <1>4
  <2>2. QED
    BY <1>5, <1>7, <2>1
<1>9. FreeSlots \cup {s} \subseteq FreeSlots'
  <2>1. 1 \in 1 .. n + 1 /\ \A i \in 1 .. n : i + 1 \in 1 .. n + 1
    BY <1>4
  <2>2. s \in FreeSlots'
    BY <1>5, <1>7, <2>1
  <2>3. ASSUME NEW i \in 1 .. n PROVE list[i] \in FreeSlots'
    <3>1. list'[i + 1] = list[i] /\ i + 1 \in 1 .. n + 1
      BY <1>6, <2>1
    <3>2. QED
      BY <1>7, <3>1
  <2>4. QED
    BY <1>7, <2>2, <2>3
<1>10. \A i, j \in 1 .. n + 1 : list'[i] = list'[j] => i = j
  <2> SUFFICES ASSUME NEW i \in 1 .. n + 1, NEW j \in 1 .. n + 1, list'[i] = list'[j] PROVE i = j
    OBVIOUS
  <2>1. \A k \in 1 .. n + 1 : k # 1 => k - 1 \in 1 .. n /\ list'[k] = list[k - 1]
    <3>1. \A k \in 1 .. n + 1 : k # 1 => k - 1 \in 1 .. n /\ k \in 2 .. n + 1
      BY <1>4
    <3>2. QED
      BY <1>5, <3>1
  <2>2. \A k \in 1 .. n + 1 : k # 1 => list'[k] # s
    BY <1>7, <2>1
  <2>3. \A k, m \in 1 .. n : list[k] = list[m] => k = m
    BY <1>1 DEF Conservation, n
  <2>4. CASE i = 1 \/ j = 1
    BY <1>5, <2>2, <2>4
  <2>5. CASE i # 1 /\ j # 1
    <3>1. i - 1 = j - 1
      BY <2>1, <2>3, <2>5
    <3>2. QED
      BY <1>4, <3>1
  <2>6. QED
    BY <2>4, <2>5
<1>11. QED
  BY <1>3, <1>4, <1>5, <1>6, <1>8, <1>9, <1>10 DEF n

-----------------------------------------------------------------------------
(* The slots in their places *)

\* A call has a slot that is on no list and that no caller holds.
Taken(t) == pc[t] \in {"stamp"} \cup Freeing /\ solo # t

\* Conservation, slot by slot.
Apart ==
  /\ \A i, j \in 1 .. Len(list) : list[i] = list[j] => i = j
  /\ \A s \in live : s \notin FreeSlots
  /\ \A t \in Threads : Taken(t) => slot[t] \notin FreeSlots /\ slot[t] \notin live
  /\ \A t, u \in Threads : t # u /\ Taken(t) /\ Taken(u) => slot[t] # slot[u]
  /\ \A s \in Slots : s \in FreeSlots \/ s \in live \/ \E t \in Threads : Taken(t) /\ slot[t] = s

\* Addresses and slots.
LEMMA Addresses ==
  /\ 0 \in Address /\ Slots \subseteq Address /\ 0 \notin Slots
  /\ \A a \in Address : a # 0 => a \in Slots
BY PoolAssumption DEF Slots, Address

LEMMA HeldIsTaken ==
  ASSUME NEW t \in Threads
  PROVE  Held(t) = IF Taken(t) THEN {slot[t]} ELSE {}
BY DEF Held, Taken

LEMMA SlotsApart == TypeOK /\ Conservation => Apart
<1> SUFFICES ASSUME TypeOK, Conservation PROVE Apart
  OBVIOUS
<1>1. DOMAIN list = 1 .. Len(list)
  BY ListFacts DEF TypeOK
<1>2. \A t \in Threads : Held(t) = IF Taken(t) THEN {slot[t]} ELSE {}
  BY HeldIsTaken
<1>3. \A t \in Threads : Taken(t) => slot[t] \notin FreeSlots /\ slot[t] \notin live
  BY <1>2 DEF Conservation
<1>4. \A t, u \in Threads : t # u /\ Taken(t) /\ Taken(u) => slot[t] # slot[u]
  <2> SUFFICES ASSUME NEW t \in Threads, NEW u \in Threads, t # u, Taken(t), Taken(u), slot[t] = slot[u]
               PROVE  FALSE
    OBVIOUS
  <2>1. Held(t) = {slot[t]} /\ Held(u) = {slot[u]} /\ Held(t) \cap Held(u) = {}
    BY <1>2 DEF Conservation
  <2>2. QED
    BY <2>1
<1>5. \A s \in Slots : s \in FreeSlots \/ s \in live \/ \E t \in Threads : Taken(t) /\ slot[t] = s
  <2> SUFFICES ASSUME NEW s \in Slots
               PROVE  s \in FreeSlots \/ s \in live \/ \E t \in Threads : Taken(t) /\ slot[t] = s
    OBVIOUS
  <2>1. s \in FreeSlots \cup live \cup UNION {Held(t) : t \in Threads}
    BY DEF Conservation
  <2>2. s \in FreeSlots \/ s \in live \/ \E t \in Threads : s \in Held(t)
    BY <2>1
  <2>3. QED
    BY <1>2, <2>2
<1>6. QED
  BY <1>1, <1>3, <1>4, <1>5 DEF Apart, Conservation

LEMMA SlotsConserved == TypeOK /\ CallsInPlace /\ Apart => Conservation
<1> SUFFICES ASSUME TypeOK, CallsInPlace, Apart PROVE Conservation
  OBVIOUS
<1>1. DOMAIN list = 1 .. Len(list) /\ FreeSlots \subseteq Slots /\ live \subseteq Slots
  BY ListFacts DEF TypeOK
<1>2. \A t \in Threads : Held(t) = IF Taken(t) THEN {slot[t]} ELSE {}
  BY HeldIsTaken
<1>3. \A t \in Threads : Held(t) \subseteq Slots
  <2>1. \A t \in Threads : Taken(t) => slot[t] \in Address /\ slot[t] # 0
    BY DEF TypeOK, CallsInPlace, Taken
  <2>2. QED
    BY <1>2, <2>1, Addresses
<1>4. \A t \in Threads : Held(t) \cap (FreeSlots \cup live) = {}
  BY <1>2 DEF Apart
<1>5. \A t, u \in Threads : t # u => Held(t) \cap Held(u) = {}
  BY <1>2 DEF Apart
<1>6. Slots = FreeSlots \cup live \cup UNION {Held(t) : t \in Threads}
  <2>1. ASSUME NEW s \in Slots PROVE s \in FreeSlots \cup live \cup UNION {Held(t) : t \in Threads}
    <3>1. s \in FreeSlots \/ s \in live \/ \E t \in Threads : s \in Held(t)
      BY <1>2 DEF Apart
    <3>2. QED
      BY <3>1
  <2>2. UNION {Held(t) : t \in Threads} \subseteq Slots
    BY <1>3
  <2>3. QED
    BY <1>1, <2>1, <2>2
<1>7. FreeSlots \cap live = {}
  BY DEF Apart
<1>8. QED
  BY <1>1, <1>4, <1>5, <1>6, <1>7 DEF Conservation, Apart

\* A call that is past its scan is not a second free, and nobody else is one.
LEMMA NobodySolo ==
  ASSUME TypeOK, SecondFreeWillFind, NEW t \in Threads, pc[t] \notin {"idle", "scan"}
  PROVE  solo = NoThread
BY PoolAssumption DEF TypeOK, SecondFreeWillFind

-----------------------------------------------------------------------------
(* The types *)

\* What thread t may do, the disjuncts of Next.
Does(t) ==
  \/ \E type \in TypeIds : AllocCall(t, type)
  \/ AllocNext(t) \/ AllocSwap(t) \/ AllocMiss(t) \/ Stamp(t)
  \/ \E s \in Slots : FreeCall(t, s) \/ DoubleFreeCall(t, s)
  \/ ScanStep(t) \/ ScanFound(t) \/ ScanEnd(t)
  \/ Clear(t) \/ FreeLink(t) \/ FreeSwap(t) \/ FreeMiss(t)

\* Every step keeps the types: a tag bumped, an age within the window, a slot
\* number read from a link or from the head.
LEMMA TypeStep ==
  ASSUME BitInv, NEW t \in Threads, Does(t)
  PROVE  TypeOK'
<1> USE DEF Goto, LoadHead
<1>1. TypeOK /\ CallsInPlace /\ Conservation /\ ListIsLinked
  BY DEF BitInv, PoolInv
<1>2. /\ TagMod \in Nat \ {0, 1} /\ 0 \in TypeIds /\ Capacity \in Nat \ {0} /\ 0 \in Address
      /\ [tag |-> 0, ptr |-> 0] \in Packed
  BY PoolAssumption, Addresses DEF Packed
<1>3. /\ \A u \in Threads : seen[u].ptr \in Address /\ seen[u].tag \in 0 .. TagMod - 1
      /\ \A u \in Threads : slot[u] \in Address /\ link[u] \in Address
  BY <1>1 DEF TypeOK, Packed
<1>4. CASE \E type \in TypeIds : AllocCall(t, type)
  BY <1>1, <1>2, <1>4 DEF TypeOK, AllocCall, PCs
<1>5. CASE AllocNext(t)
  <2>1. seen[t].ptr \in Slots
    BY <1>1, <1>3, <1>5, Addresses DEF AllocNext, CallsInPlace
  <2>2. QED
    BY <1>1, <1>5, <2>1 DEF TypeOK, AllocNext, PCs
<1>6. ASSUME NEW to \in Address, Swap(t, to)
      PROVE  free_head' \in Packed /\ Aged(t) \in [Threads -> 0 .. TagMod - 1]
  <2>1. Bump(seen[t].tag) \in 0 .. TagMod - 1
    BY <1>3, BumpIsNext
  <2>2. free_head' \in Packed
    BY <1>6, <2>1 DEF Swap, Packed
  <2>3. \A u \in Threads : u # t /\ Pending(u) => age[u] + 1 \in 0 .. TagMod - 1
    BY <1>1, <1>2, <1>6 DEF Swap, InWindow, TypeOK
  <2>4. 0 \in 0 .. TagMod - 1
    BY <1>2
  <2>5. QED
    BY <2>2, <2>3, <2>4 DEF Aged
<1>7. CASE AllocSwap(t)
  <2>1. free_head' \in Packed /\ age' \in [Threads -> 0 .. TagMod - 1]
    BY <1>3, <1>6, <1>7 DEF AllocSwap
  <2>2. Len(list) # 0
    <3>1. free_head.ptr # 0
      BY <1>1, <1>7 DEF AllocSwap, Swap, CallsInPlace
    <3>2. QED
      BY <1>1, <3>1, HeadFacts
  <2>3. list' \in Seq(Slots)
    BY <1>1, <1>7, <2>2, PopList DEF AllocSwap
  <2>4. QED
    BY <1>1, <1>3, <1>7, <2>1, <2>3 DEF TypeOK, AllocSwap, PCs
<1>8. CASE AllocMiss(t)
  <2>1. UNCHANGED <<free_head, next, type_id, live, solo, list>>
    BY <1>8 DEF AllocMiss
  <2>2. Leave(t) \/ (Goto(t, "alloc_next") /\ LoadHead(t) /\ UNCHANGED locals)
    BY <1>8 DEF AllocMiss
  <2>3. CASE Leave(t)
    BY <1>1, <1>2, <2>1, <2>3 DEF TypeOK, Leave, PCs
  <2>4. CASE Goto(t, "alloc_next") /\ LoadHead(t) /\ UNCHANGED locals
    BY <1>1, <1>2, <2>1, <2>4 DEF TypeOK, PCs, locals
  <2>5. QED
    BY <2>2, <2>3, <2>4
<1>9. CASE Stamp(t)
  <2>1. slot[t] \in Slots
    BY <1>1, <1>3, <1>9, Addresses DEF Stamp, CallsInPlace
  <2>2. QED
    BY <1>1, <1>2, <1>9, <2>1 DEF TypeOK, Stamp, Leave, PCs
<1>10. ASSUME NEW s \in Slots, FreeCall(t, s) \/ DoubleFreeCall(t, s)
       PROVE  TypeOK'
  <2>1. s \in Address /\ free_head.ptr \in Address
    BY <1>1, Addresses DEF TypeOK, Packed
  <2>2. /\ slot' \in [Threads -> Address] /\ link' \in [Threads -> Address]
        /\ pc' \in [Threads -> PCs]
    <3>1. slot' = [slot EXCEPT ![t] = s]
      BY <1>10 DEF FreeCall, DoubleFreeCall, Enter
    <3>2. /\ pc' = [pc EXCEPT ![t] = "scan"] \/ pc' = [pc EXCEPT ![t] = "clear"]
          /\ link' = [link EXCEPT ![t] = free_head.ptr] \/ link' = link
      BY <1>10 DEF FreeCall, DoubleFreeCall, Enter
    <3>3. pc' \in [Threads -> PCs]
      BY <1>1, <3>2 DEF TypeOK, PCs, Freeing
    <3>4. QED
      BY <1>1, <2>1, <3>1, <3>2, <3>3 DEF TypeOK
  <2>3. UNCHANGED <<free_head, next, type_id, seen, want, steps, age, list>>
    BY <1>10 DEF FreeCall, DoubleFreeCall, Enter
  <2>4. live' \subseteq Slots /\ solo' \in Threads \cup {NoThread}
    BY <1>1, <1>10 DEF TypeOK, FreeCall, DoubleFreeCall
  <2>5. QED
    BY <1>1, <2>2, <2>3, <2>4 DEF TypeOK
<1>11. CASE ScanStep(t)
  <2>1. link[t] \in Slots
    BY <1>3, <1>11, Addresses DEF ScanStep, Scanning
  <2>2. steps[t] + 1 \in 0 .. Capacity + 2
    BY <1>1, <1>2, <1>11 DEF ScanStep, Scanning, TypeOK
  <2>3. QED
    BY <1>1, <1>11, <2>1, <2>2 DEF TypeOK, ScanStep
<1>12. CASE ScanFound(t)
  BY <1>1, <1>2, <1>12 DEF TypeOK, ScanFound, Leave, PCs
<1>13. CASE ScanEnd(t)
  BY <1>1, <1>13 DEF TypeOK, ScanEnd, PCs, Freeing
<1>14. CASE Clear(t)
  <2>1. pc' \in [Threads -> PCs] /\ type_id' \in [Slots -> TypeIds]
    BY <1>1, <1>2, <1>14 DEF TypeOK, Clear, PCs, Freeing
  <2>2. seen' \in [Threads -> Packed] /\ age' \in [Threads -> 0 .. TagMod - 1]
    BY <1>1, <1>2, <1>14 DEF TypeOK, Clear
  <2>3. UNCHANGED <<free_head, next, live, solo, list, link, slot, want, steps>>
    BY <1>14 DEF Clear, locals
  <2>4. QED
    BY <1>1, <2>1, <2>2, <2>3 DEF TypeOK
<1>15. CASE FreeLink(t)
  BY <1>1, <1>3, <1>15 DEF TypeOK, FreeLink, PCs, Freeing, locals
<1>16. CASE FreeSwap(t)
  <2>1. free_head' \in Packed /\ age' \in [Threads -> 0 .. TagMod - 1]
    BY <1>3, <1>6, <1>16 DEF FreeSwap
  <2>2. slot[t] \in Slots /\ slot[t] \notin FreeSlots
    <3>1. slot[t] \in Slots
      BY <1>1, <1>3, <1>16, Addresses DEF FreeSwap, CallsInPlace, Freeing
    <3>2. solo = NoThread
      BY <1>1, <1>16, NobodySolo DEF FreeSwap, BitInv
    <3>3. Taken(t)
      BY <1>16, <3>2, PoolAssumption DEF FreeSwap, Taken, Freeing
    <3>4. QED
      BY <1>1, <3>1, <3>3, SlotsApart DEF Apart
  <2>3. list' \in Seq(Slots)
    BY <1>1, <1>16, <2>2, PushList DEF FreeSwap
  <2>4. /\ pc' \in [Threads -> PCs] /\ seen' \in [Threads -> Packed]
        /\ link' \in [Threads -> Address] /\ slot' \in [Threads -> Address]
        /\ steps' \in [Threads -> 0 .. Capacity + 2] /\ solo' \in Threads \cup {NoThread}
    BY <1>1, <1>2, <1>16 DEF TypeOK, FreeSwap, PCs
  <2>5. UNCHANGED <<next, type_id, want, live>>
    BY <1>16 DEF FreeSwap
  <2>6. QED
    BY <1>1, <2>1, <2>3, <2>4, <2>5 DEF TypeOK
<1>17. CASE FreeMiss(t)
  BY <1>1, <1>2, <1>17 DEF TypeOK, FreeMiss, PCs, Freeing, locals
<1>18. QED
  BY <1>4, <1>5, <1>7, <1>8, <1>9, <1>10, <1>11, <1>12, <1>13, <1>14, <1>15, <1>16, <1>17
     DEF Does

\* What a swap that succeeds has found: the head and, popped, its link as they
\* were when the thread read them.
LEMMA SwapIsCurrent ==
  ASSUME BitInv, NEW t \in Threads, Pending(t), free_head = seen[t]
  PROVE  age[t] = 0 /\ (pc[t] = "alloc_swap" => link[t] = next[seen[t].ptr])
<1>1. /\ seen[t].tag \in 0 .. TagMod - 1 /\ age[t] \in 0 .. TagMod - 1
      /\ TagMod \in Nat \ {0, 1}
  BY PoolAssumption DEF BitInv, PoolInv, TypeOK, Packed
<1>2. /\ seen[t].tag + age[t] \in {seen[t].tag, seen[t].tag + TagMod}
      /\ age[t] = 0 => (pc[t] = "alloc_swap" => link[t] = next[seen[t].ptr])
  BY DEF BitInv, TagCountsSwaps
<1>3. age[t] = 0
  BY <1>1, <1>2
<1>4. QED
  BY <1>2, <1>3

\* A call past its scan holds a slot that is in no other place.
LEMMA TakenSlot ==
  ASSUME BitInv, NEW t \in Threads, pc[t] \in {"stamp", "clear", "free_link", "free_swap"}
  PROVE  /\ solo = NoThread
         /\ Taken(t) /\ slot[t] \in Slots /\ slot[t] \notin FreeSlots /\ slot[t] \notin live
         /\ \A u \in Threads \ {t} : Taken(u) => slot[u] # slot[t]
<1>1. TypeOK /\ Conservation /\ CallsInPlace
  BY DEF BitInv, PoolInv
<1>2. solo = NoThread
  BY <1>1, NobodySolo DEF BitInv
<1>3. Taken(t)
  BY <1>2, PoolAssumption DEF Taken, Freeing
<1>4. slot[t] \in Address /\ slot[t] # 0
  BY <1>1 DEF TypeOK, CallsInPlace, Freeing
<1>5. QED
  BY <1>1, <1>2, <1>3, <1>4, SlotsApart, Addresses DEF Apart

-----------------------------------------------------------------------------
(* Every slot stays in one place *)

\* The calls hold what they held, and nothing else moved.
LEMMA ApartSame ==
  ASSUME Apart, UNCHANGED <<list, live>>,
         \A u \in Threads : (Taken(u)' <=> Taken(u)) /\ (Taken(u) => slot'[u] = slot[u])
  PROVE  Apart'
BY DEF Apart, FreeSlots

LEMMA ApartStep ==
  ASSUME BitInv, NEW t \in Threads, Does(t)
  PROVE  Apart'
<1> USE DEF Goto
<1>1. TypeOK /\ Conservation /\ CallsInPlace /\ ListIsLinked /\ SecondFreeWillFind /\ Apart
  BY SlotsApart DEF BitInv, PoolInv
<1>2. /\ pc \in [Threads -> PCs] /\ slot \in [Threads -> Address]
  BY <1>1 DEF TypeOK
<1>3. CASE \E type \in TypeIds : AllocCall(t, type)
  BY <1>1, <1>2, <1>3, ApartSame DEF AllocCall, Taken, Freeing
<1>4. CASE AllocNext(t)
  BY <1>1, <1>2, <1>4, ApartSame DEF AllocNext, Taken, Freeing
<1>5. CASE AllocSwap(t)
  <2>1. solo = NoThread
    BY <1>1, <1>5, NobodySolo DEF AllocSwap
  <2>2. free_head.ptr # 0 /\ free_head = seen[t]
    BY <1>1, <1>5 DEF AllocSwap, Swap, CallsInPlace
  <2>3. Len(list) # 0 /\ free_head.ptr = list[1] /\ list[1] \in FreeSlots
    BY <1>1, <2>2, HeadFacts
  <2>4. /\ FreeSlots' = FreeSlots \ {list[1]}
        /\ \A i, j \in 1 .. Len(list') : list'[i] = list'[j] => i = j
    BY <1>1, <1>5, <2>3, PopList DEF AllocSwap
  <2>5. slot' = [slot EXCEPT ![t] = list[1]] /\ pc' = [pc EXCEPT ![t] = "stamp"]
    BY <1>5, <2>2, <2>3 DEF AllocSwap
  <2>6. live' = live /\ solo' = solo
    BY <1>5 DEF AllocSwap
  <2>7. Taken(t)' /\ slot'[t] = list[1] /\ ~Taken(t)
    BY <1>2, <1>5, <2>1, <2>5, <2>6, PoolAssumption DEF AllocSwap, Taken, Freeing
  <2>8. \A u \in Threads \ {t} : Taken(u)' = Taken(u) /\ slot'[u] = slot[u]
    BY <1>2, <2>5, <2>6 DEF Taken
  <2>9. list[1] \notin live
    BY <1>1, <2>3 DEF Apart
  <2>10. \A u \in Threads : Taken(u) => slot[u] # list[1]
    BY <1>1, <2>3 DEF Apart
  <2>11. \A s \in Slots : s \in FreeSlots' \/ s \in live' \/ \E u \in Threads : Taken(u)' /\ slot'[u] = s
    <3> SUFFICES ASSUME NEW s \in Slots
                 PROVE  s \in FreeSlots' \/ s \in live' \/ \E u \in Threads : Taken(u)' /\ slot'[u] = s
      OBVIOUS
    <3>1. s \in FreeSlots \/ s \in live \/ \E u \in Threads : Taken(u) /\ slot[u] = s
      BY <1>1 DEF Apart
    <3>2. QED
      BY <2>4, <2>6, <2>7, <2>8, <3>1
  <2>12. \A u \in Threads : Taken(u)' => slot'[u] \notin FreeSlots' /\ slot'[u] \notin live'
    BY <1>1, <2>4, <2>6, <2>7, <2>8, <2>9 DEF Apart
  <2>13. \A u, v \in Threads : u # v /\ Taken(u)' /\ Taken(v)' => slot'[u] # slot'[v]
    BY <1>1, <2>7, <2>8, <2>10 DEF Apart
  <2>14. \A s \in live' : s \notin FreeSlots'
    BY <1>1, <2>4, <2>6 DEF Apart
  <2>15. QED
    BY <2>4, <2>11, <2>12, <2>13, <2>14 DEF Apart
<1>6. CASE AllocMiss(t)
  <2>1. pc[t] = "alloc_swap" /\ pc'[t] \in {"idle", "alloc_next"} /\ UNCHANGED <<list, live, solo>>
    BY <1>2, <1>6 DEF AllocMiss, Leave, LoadHead
  <2>2. \A u \in Threads \ {t} : pc'[u] = pc[u] /\ slot'[u] = slot[u]
    BY <1>2, <1>6 DEF AllocMiss, Leave, LoadHead, locals
  <2>3. QED
    BY <1>1, <2>1, <2>2, ApartSame DEF Taken, Freeing
<1>7. CASE Stamp(t)
  <2>1. /\ solo = NoThread /\ Taken(t) /\ slot[t] \in Slots /\ slot[t] \notin FreeSlots
        /\ \A u \in Threads \ {t} : Taken(u) => slot[u] # slot[t]
    BY <1>7, TakenSlot DEF Stamp
  <2>2. live' = live \cup {slot[t]} /\ FreeSlots' = FreeSlots /\ list' = list /\ solo' = solo
    BY <1>7 DEF Stamp, FreeSlots
  <2>3. ~Taken(t)' /\ \A u \in Threads \ {t} : Taken(u)' = Taken(u) /\ slot'[u] = slot[u]
    BY <1>2, <1>7, <2>2 DEF Stamp, Leave, Taken, Freeing
  <2>4. QED
    BY <1>1, <2>1, <2>2, <2>3 DEF Apart
<1>8. ASSUME NEW s \in Slots, FreeCall(t, s)
      PROVE  Apart'
  <2>1. /\ pc[t] = "idle" /\ pc'[t] \in {"scan", "clear"} /\ solo = NoThread /\ solo' = solo
        /\ s \in live /\ live' = live \ {s} /\ FreeSlots' = FreeSlots /\ list' = list /\ slot'[t] = s
    BY <1>2, <1>8 DEF FreeCall, Enter, FreeSlots
  <2>2. \A u \in Threads \ {t} : pc'[u] = pc[u] /\ slot'[u] = slot[u]
    BY <1>2, <1>8 DEF FreeCall, Enter
  <2>3. Taken(t)' /\ ~Taken(t) /\ \A u \in Threads \ {t} : Taken(u)' = Taken(u)
    BY <2>1, <2>2, PoolAssumption DEF Taken, Freeing
  <2>4. QED
    BY <1>1, <2>1, <2>2, <2>3 DEF Apart
<1>9. ASSUME NEW s \in Slots, DoubleFreeCall(t, s)
      PROVE  Apart'
  <2>1. pc[t] = "idle" /\ solo' = t /\ UNCHANGED <<list, live>> /\ \A u \in Threads : ~Taken(u)
    BY <1>9 DEF DoubleFreeCall, Enter, Taken, Freeing
  <2>2. \A u \in Threads \ {t} : pc'[u] = pc[u]
    BY <1>2, <1>9 DEF DoubleFreeCall, Enter
  <2>3. \A u \in Threads : ~Taken(u)'
    BY <1>9, <2>1, <2>2 DEF Taken, Freeing, DoubleFreeCall
  <2>4. QED
    BY <1>1, <2>1, <2>3, ApartSame
<1>10. CASE ScanStep(t)
  BY <1>1, <1>10, ApartSame DEF ScanStep, Taken
<1>12. CASE ScanEnd(t)
  BY <1>1, <1>2, <1>12, ApartSame DEF ScanEnd, Taken, Freeing
<1>13. CASE Clear(t)
  BY <1>1, <1>2, <1>13, ApartSame DEF Clear, Taken, Freeing, locals
<1>14. CASE FreeLink(t)
  BY <1>1, <1>2, <1>14, ApartSame DEF FreeLink, Taken, Freeing, locals
<1>16. CASE FreeMiss(t)
  BY <1>1, <1>2, <1>16, ApartSame DEF FreeMiss, Taken, Freeing, locals
<1>15. CASE FreeSwap(t)
  <2>1. /\ solo = NoThread /\ Taken(t) /\ slot[t] \in Slots /\ slot[t] \notin FreeSlots /\ slot[t] \notin live
        /\ \A u \in Threads \ {t} : Taken(u) => slot[u] # slot[t]
    BY <1>15, TakenSlot DEF FreeSwap
  <2>2. /\ FreeSlots' = FreeSlots \cup {slot[t]}
        /\ \A i, j \in 1 .. Len(list') : list'[i] = list'[j] => i = j
    BY <1>1, <1>15, <2>1, PushList DEF FreeSwap
  <2>3. live' = live /\ solo' = NoThread
    BY <1>15 DEF FreeSwap
  <2>4. ~Taken(t)' /\ \A u \in Threads \ {t} : Taken(u)' = Taken(u) /\ slot'[u] = slot[u]
    BY <1>2, <1>15, <2>1, <2>3 DEF FreeSwap, Taken, Freeing
  <2>5. \A s \in Slots : s \in FreeSlots' \/ s \in live' \/ \E u \in Threads : Taken(u)' /\ slot'[u] = s
    <3> SUFFICES ASSUME NEW s \in Slots
                 PROVE  s \in FreeSlots' \/ s \in live' \/ \E u \in Threads : Taken(u)' /\ slot'[u] = s
      OBVIOUS
    <3>1. s \in FreeSlots \/ s \in live \/ \E u \in Threads : Taken(u) /\ slot[u] = s
      BY <1>1 DEF Apart
    <3>2. QED
      BY <2>2, <2>3, <2>4, <3>1
  <2>6. \A u \in Threads : Taken(u)' => slot'[u] \notin FreeSlots' /\ slot'[u] \notin live'
    BY <1>1, <2>1, <2>2, <2>3, <2>4 DEF Apart
  <2>7. \A u, v \in Threads : u # v /\ Taken(u)' /\ Taken(v)' => slot'[u] # slot'[v]
    BY <1>1, <2>4 DEF Apart
  <2>8. \A s \in live' : s \notin FreeSlots'
    BY <1>1, <2>1, <2>2, <2>3 DEF Apart
  <2>9. QED
    BY <2>2, <2>5, <2>6, <2>7, <2>8 DEF Apart
<1>11. CASE ScanFound(t)
  <2>1. solo = t
    <3> SUFFICES ASSUME solo # t PROVE FALSE
      OBVIOUS
    <3>1. pc[t] = "scan" /\ link[t] # 0 /\ link[t] = slot[t]
      BY <1>11 DEF ScanFound, Scanning
    <3>2. PICK S \in SUBSET (Slots \ {slot[t]}) : Enclosed(t, S)
      BY <3>1 DEF BitInv, FirstFreeWillMiss
    <3>3. QED
      BY <3>1, <3>2 DEF Enclosed
  <2>2. \A u \in Threads : ~Taken(u)
    <3>1. \A u \in Threads \ {t} : pc[u] = "idle"
      BY <1>1, <2>1, PoolAssumption DEF SecondFreeWillFind
    <3>2. QED
      BY <2>1, <3>1 DEF Taken, Freeing
  <2>3. \A u \in Threads : ~Taken(u)'
    <3>1. pc' = [pc EXCEPT ![t] = "idle"]
      BY <1>11 DEF ScanFound, Leave
    <3>2. \A u \in Threads : pc'[u] = "idle"
      BY <1>1, <1>2, <2>1, <3>1, PoolAssumption DEF SecondFreeWillFind
    <3>3. QED
      BY <3>2 DEF Taken, Freeing
  <2>4. UNCHANGED <<list, live>>
    BY <1>11 DEF ScanFound
  <2>5. QED
    BY <1>1, <2>2, <2>3, <2>4, ApartSame
<1>17. QED
  BY <1>3, <1>4, <1>5, <1>6, <1>7, <1>8, <1>9, <1>10, <1>11, <1>12, <1>13, <1>14, <1>15, <1>16
     DEF Does

-----------------------------------------------------------------------------
(* The list stays linked *)

\* Only three steps write the head, a link or the list.
LEMMA ListFrame ==
  ASSUME NEW t \in Threads, Does(t), ~AllocSwap(t), ~FreeLink(t), ~FreeSwap(t)
  PROVE  UNCHANGED <<free_head, next, list>>
BY DEF Does, AllocCall, AllocNext, AllocMiss, Stamp, FreeCall, DoubleFreeCall, Enter,
       ScanStep, ScanFound, ScanEnd, Clear, FreeMiss

LEMMA LinkedStep ==
  ASSUME BitInv, NEW t \in Threads, Does(t)
  PROVE  ListIsLinked'
<1>1. TypeOK /\ Conservation /\ CallsInPlace /\ ListIsLinked
  BY DEF BitInv, PoolInv
<1>2. /\ list \in Seq(Slots) /\ Len(list) \in Nat /\ DOMAIN list = 1 .. Len(list)
      /\ next \in [Slots -> Address]
  BY <1>1, ListFacts DEF TypeOK
<1>3. \A i \in 1 .. Len(list) : next[list[i]] = IF i = Len(list) THEN 0 ELSE list[i + 1]
  BY <1>1, <1>2 DEF ListIsLinked
<1>4. CASE AllocSwap(t)
  <2>1. free_head = seen[t] /\ free_head.ptr # 0 /\ pc[t] = "alloc_swap"
    BY <1>1, <1>4 DEF AllocSwap, Swap, CallsInPlace
  <2>2. Len(list) # 0 /\ free_head.ptr = list[1]
    BY <1>1, <2>1, HeadFacts
  <2>3. /\ list' \in Seq(Slots) /\ Len(list') = Len(list) - 1
        /\ \A i \in 1 .. Len(list') : list'[i] = list[i + 1]
    BY <1>1, <1>4, <2>2, PopList DEF AllocSwap
  <2>4. link[t] = next[list[1]]
    BY <2>1, <2>2, SwapIsCurrent DEF Pending
  <2>5. free_head'.ptr = next[list[1]] /\ next' = next
    BY <1>4, <2>4 DEF AllocSwap, Swap
  <2> DEFINE n == Len(list)
             m == Len(list')
  <2>6. n \in Nat \ {0} /\ m = n - 1
    BY <1>2, <2>2, <2>3
  <2>7. DOMAIN list' = 1 .. m /\ (list' = <<>> <=> m = 0)
    BY <2>3, LenProperties, EmptySeq
  <2> HIDE DEF n, m
  <2>8. next[list[1]] = IF 1 = n THEN 0 ELSE list[2]
    <3>1. 1 \in 1 .. n /\ 1 + 1 = 2
      BY <2>6
    <3>2. QED
      BY <1>3, <3>1 DEF n
  <2>9. free_head'.ptr = IF list' = <<>> THEN 0 ELSE list'[1]
    <3>1. CASE n = 1
      BY <2>5, <2>6, <2>7, <2>8, <3>1
    <3>2. CASE n # 1
      <4>1. 1 \in 1 .. m /\ 1 + 1 = 2 /\ m # 0
        BY <2>6, <3>2
      <4>2. list'[1] = list[2]
        BY <2>3, <4>1 DEF m
      <4>3. QED
        BY <2>5, <2>7, <2>8, <3>2, <4>1, <4>2
    <3>3. QED
      BY <3>1, <3>2
  <2>10. \A i \in 1 .. m : next'[list'[i]] = IF i = m THEN 0 ELSE list'[i + 1]
    <3> SUFFICES ASSUME NEW i \in 1 .. m
                 PROVE  next'[list'[i]] = IF i = m THEN 0 ELSE list'[i + 1]
      OBVIOUS
    <3>1. i + 1 \in 1 .. n /\ (i + 1 = n <=> i = m)
      BY <2>6
    <3>2. next'[list'[i]] = IF i = m THEN 0 ELSE list[(i + 1) + 1]
      BY <1>3, <2>3, <2>5, <3>1 DEF n, m
    <3>3. i # m => i + 1 \in 1 .. m
      BY <2>6
    <3>4. QED
      BY <2>3, <3>2, <3>3 DEF m
  <2>11. QED
    BY <2>7, <2>9, <2>10 DEF ListIsLinked, m
<1>5. CASE FreeLink(t)
  <2>1. slot[t] \notin FreeSlots /\ next' = [next EXCEPT ![slot[t]] = seen[t].ptr]
    BY <1>5, TakenSlot DEF FreeLink
  <2>2. list' = list /\ free_head' = free_head
    BY <1>5 DEF FreeLink
  <2>3. \A i \in 1 .. Len(list) : next'[list[i]] = next[list[i]]
    BY <1>2, <2>1, ListFacts
  <2>4. QED
    BY <1>1, <1>2, <2>2, <2>3 DEF ListIsLinked
<1>6. CASE FreeSwap(t)
  <2>1. slot[t] \in Slots /\ slot[t] \notin FreeSlots /\ pc[t] = "free_swap"
    BY <1>6, TakenSlot DEF FreeSwap
  <2>2. /\ list' \in Seq(Slots) /\ Len(list') = Len(list) + 1
        /\ list'[1] = slot[t] /\ \A i \in 1 .. Len(list) : list'[i + 1] = list[i]
    BY <1>1, <1>6, <2>1, PushList DEF FreeSwap
  <2>3. free_head'.ptr = slot[t] /\ next' = next /\ free_head = seen[t]
    BY <1>6 DEF FreeSwap, Swap
  <2>4. next[slot[t]] = free_head.ptr
    BY <1>1, <2>1, <2>3 DEF CallsInPlace
  <2> DEFINE n == Len(list)
             m == Len(list')
  <2>5. n \in Nat /\ m = n + 1
    BY <1>2, <2>2
  <2>6. DOMAIN list' = 1 .. m /\ list' # <<>>
    <3>1. m # 0
      BY <2>5
    <3>2. QED
      BY <2>2, <3>1, LenProperties, EmptySeq
  <2>7. /\ free_head.ptr = 0 <=> n = 0
        /\ n # 0 => free_head.ptr = list[1]
    BY <1>1, HeadFacts
  <2> HIDE DEF n, m
  <2>8. \A i \in 1 .. m : next'[list'[i]] = IF i = m THEN 0 ELSE list'[i + 1]
    <3> SUFFICES ASSUME NEW i \in 1 .. m
                 PROVE  next'[list'[i]] = IF i = m THEN 0 ELSE list'[i + 1]
      OBVIOUS
    <3>1. CASE i = 1
      <4>1. next'[list'[1]] = free_head.ptr
        BY <2>2, <2>3, <2>4
      <4>2. CASE n = 0
        BY <2>5, <2>7, <3>1, <4>1, <4>2
      <4>3. CASE n # 0
        <5>1. 1 \in 1 .. n /\ 1 # m
          BY <2>5, <4>3
        <5>2. list'[1 + 1] = list[1]
          BY <2>2, <5>1 DEF n
        <5>3. QED
          BY <2>7, <3>1, <4>1, <4>3, <5>1, <5>2
      <4>4. QED
        BY <4>2, <4>3
    <3>2. CASE i # 1
      <4>1. i - 1 \in 1 .. n /\ (i - 1) + 1 = i /\ (i - 1 = n <=> i = m)
        BY <2>5, <3>2
      <4>2. list'[i] = list[i - 1]
        BY <2>2, <4>1 DEF n
      <4>3. next[list[i - 1]] = IF i = m THEN 0 ELSE list[i]
        BY <1>3, <4>1 DEF n
      <4>4. i # m => i \in 1 .. n
        BY <2>5
      <4>5. i # m => list'[i + 1] = list[i]
        BY <2>2, <4>4 DEF n
      <4>6. QED
        BY <2>3, <4>2, <4>3, <4>5
    <3>3. QED
      BY <3>1, <3>2
  <2>9. QED
    BY <2>2, <2>3, <2>6, <2>8 DEF ListIsLinked, m
<1>7. CASE ~AllocSwap(t) /\ ~FreeLink(t) /\ ~FreeSwap(t)
  BY <1>1, <1>7, ListFrame DEF ListIsLinked
<1>8. QED
  BY <1>4, <1>5, <1>6, <1>7

-----------------------------------------------------------------------------
(* What the calls have read and taken, and the stamps *)

LEMMA InPlaceStep ==
  ASSUME BitInv, NEW t \in Threads, Does(t)
  PROVE  CallsInPlace'
<1> USE DEF Goto, Freeing
<1>1. TypeOK /\ CallsInPlace
  BY DEF BitInv, PoolInv
<1>2. /\ pc \in [Threads -> PCs] /\ slot \in [Threads -> Address] /\ seen \in [Threads -> Packed]
      /\ next \in [Slots -> Address]
  BY <1>1 DEF TypeOK
<1>3. \A u \in Threads \ {t} : pc'[u] = pc[u] /\ slot'[u] = slot[u] /\ seen'[u] = seen[u]
  BY <1>2 DEF Does, AllocCall, AllocNext, AllocSwap, AllocMiss, Stamp, FreeCall, DoubleFreeCall, Enter,
              ScanStep, ScanFound, ScanEnd, Clear, FreeLink, FreeSwap, FreeMiss, Leave, LoadHead, locals
<1>4. \A u \in Threads \ {t} : pc[u] = "free_swap" => next'[slot[u]] = next[slot[u]]
  <2>1. CASE FreeLink(t)
    <3>1. /\ Taken(t) /\ \A u \in Threads \ {t} : Taken(u) => slot[u] # slot[t]
          /\ solo = NoThread
      BY <2>1, TakenSlot DEF FreeLink
    <3>2. \A u \in Threads : pc[u] = "free_swap" => Taken(u) /\ slot[u] \in Slots
      BY <3>1, TakenSlot
    <3>3. next' = [next EXCEPT ![slot[t]] = seen[t].ptr]
      BY <2>1 DEF FreeLink
    <3>4. QED
      BY <1>2, <3>1, <3>2, <3>3
  <2>2. CASE ~FreeLink(t)
    BY <2>2 DEF Does, AllocCall, AllocNext, AllocSwap, AllocMiss, Stamp, FreeCall, DoubleFreeCall, Enter,
              ScanStep, ScanFound, ScanEnd, Clear, FreeSwap, FreeMiss
  <2>3. QED
    BY <2>1, <2>2
<1>5. /\ pc'[t] \in {"alloc_next", "alloc_swap"} => seen'[t].ptr # 0
      /\ pc'[t] \in {"stamp"} \cup Freeing => slot'[t] # 0
      /\ pc'[t] = "free_swap" => next'[slot'[t]] = seen'[t].ptr
  <2>1. CASE AllocCall(t, 0) \/ \E type \in TypeIds : AllocCall(t, type)
    BY <1>1, <1>2, <2>1 DEF AllocCall, LoadHead
  <2>2. CASE AllocNext(t)
    BY <1>1, <1>2, <2>2 DEF AllocNext, CallsInPlace
  <2>3. CASE AllocSwap(t)
    BY <1>1, <1>2, <2>3 DEF AllocSwap, CallsInPlace
  <2>4. CASE AllocMiss(t)
    BY <1>1, <1>2, <2>4 DEF AllocMiss, Leave, LoadHead
  <2>5. CASE Stamp(t)
    BY <1>1, <1>2, <2>5 DEF Stamp, Leave
  <2>6. ASSUME NEW s \in Slots, FreeCall(t, s) \/ DoubleFreeCall(t, s)
        PROVE  /\ pc'[t] \in {"scan", "clear"} /\ slot'[t] = s /\ s # 0
    BY <1>2, <2>6, Addresses DEF FreeCall, DoubleFreeCall, Enter
  <2>7. CASE ScanStep(t)
    BY <1>1, <1>2, <2>7 DEF ScanStep, CallsInPlace
  <2>8. CASE ScanFound(t)
    BY <1>1, <1>2, <2>8 DEF ScanFound, Leave
  <2>9. CASE ScanEnd(t)
    BY <1>1, <1>2, <2>9 DEF ScanEnd, CallsInPlace
  <2>10. CASE Clear(t)
    BY <1>1, <1>2, <2>10 DEF Clear, CallsInPlace, locals
  <2>11. CASE FreeLink(t)
    <3>1. slot[t] \in Slots
      BY <2>11, TakenSlot DEF FreeLink
    <3>2. QED
      BY <1>1, <1>2, <2>11, <3>1 DEF FreeLink, CallsInPlace, locals
  <2>12. CASE FreeSwap(t)
    BY <1>1, <1>2, <2>12 DEF FreeSwap
  <2>13. CASE FreeMiss(t)
    BY <1>1, <1>2, <2>13 DEF FreeMiss, CallsInPlace, locals
  <2>14. QED
    BY <2>1, <2>2, <2>3, <2>4, <2>5, <2>6, <2>7, <2>8, <2>9, <2>10, <2>11, <2>12, <2>13 DEF Does
<1>6. \A u \in Threads : pc'[u] = "idle" => steps'[u] = 0
  <2>1. /\ steps \in [Threads -> 0 .. Capacity + 2] /\ \A u \in Threads : pc[u] = "idle" => steps[u] = 0
    BY <1>1 DEF TypeOK, CallsInPlace
  <2>2. QED
    BY <1>2, <2>1 DEF Does, AllocCall, AllocNext, AllocSwap, AllocMiss, Stamp, FreeCall, DoubleFreeCall, Enter,
              ScanStep, ScanFound, ScanEnd, Clear, FreeLink, FreeSwap, FreeMiss, Leave, LoadHead, locals
<1>7. QED
  BY <1>1, <1>3, <1>4, <1>5, <1>6 DEF CallsInPlace

LEMMA UnstampedStep ==
  ASSUME BitInv, NEW t \in Threads, Does(t)
  PROVE  FreeIsUnstamped'
<1> USE DEF Goto
<1>1. TypeOK /\ FreeIsUnstamped /\ Conservation /\ ListIsLinked /\ CallsInPlace
  BY DEF BitInv, PoolInv
<1>2. /\ pc \in [Threads -> PCs] /\ slot \in [Threads -> Address] /\ type_id \in [Slots -> TypeIds]
  BY <1>1 DEF TypeOK
<1>3. CASE AllocSwap(t)
  <2>1. Len(list) # 0
    <3>1. free_head.ptr # 0
      BY <1>1, <1>3 DEF AllocSwap, Swap, CallsInPlace
    <3>2. QED
      BY <1>1, <3>1, HeadFacts
  <2>2. FreeSlots' = FreeSlots \ {list[1]}
    BY <1>1, <1>3, <2>1, PopList DEF AllocSwap
  <2>3. type_id' = type_id /\ pc' = [pc EXCEPT ![t] = "stamp"] /\ \A u \in Threads \ {t} : slot'[u] = slot[u]
    BY <1>2, <1>3 DEF AllocSwap
  <2>4. QED
    BY <1>1, <1>2, <2>2, <2>3 DEF FreeIsUnstamped
<1>4. CASE Stamp(t)
  <2>1. /\ solo = NoThread /\ slot[t] \in Slots /\ slot[t] \notin FreeSlots
        /\ \A u \in Threads \ {t} : Taken(u) => slot[u] # slot[t]
    BY <1>4, TakenSlot DEF Stamp
  <2>2. \A u \in Threads : pc[u] \in {"free_link", "free_swap"} => Taken(u)
    BY TakenSlot
  <2>3. /\ pc' = [pc EXCEPT ![t] = "idle"] /\ \A u \in Threads \ {t} : slot'[u] = slot[u]
        /\ type_id' = [type_id EXCEPT ![slot[t]] = want[t]] /\ FreeSlots' = FreeSlots
    BY <1>2, <1>4 DEF Stamp, Leave, FreeSlots
  <2>4. \A s \in Slots : s # slot[t] => type_id'[s] = type_id[s]
    BY <1>2, <2>3
  <2>5. FreeSlots \subseteq Slots /\ \A u \in Threads : pc[u] \in {"free_link", "free_swap"} => slot[u] \in Slots
    BY <1>1, ListFacts, TakenSlot DEF TypeOK
  <2>6. QED
    BY <1>1, <1>2, <2>1, <2>2, <2>3, <2>4, <2>5 DEF FreeIsUnstamped
<1>5. CASE Clear(t)
  <2>1. slot[t] \in Slots
    BY <1>5, TakenSlot DEF Clear
  <2>2. /\ pc' = [pc EXCEPT ![t] = "free_link"] /\ slot' = slot
        /\ type_id' = [type_id EXCEPT ![slot[t]] = 0] /\ FreeSlots' = FreeSlots
    BY <1>5 DEF Clear, FreeSlots, locals
  <2>3. FreeSlots \subseteq Slots
    BY <1>1, ListFacts DEF TypeOK
  <2>4. \A u \in Threads : pc[u] \in {"free_link", "free_swap"} => slot[u] \in Slots
    BY TakenSlot
  <2>5. \A s \in Slots : type_id[s] = 0 => type_id'[s] = 0
    BY <1>2, <2>1, <2>2
  <2>6. type_id'[slot[t]] = 0
    BY <1>2, <2>1, <2>2
  <2>7. QED
    BY <1>1, <1>2, <2>2, <2>3, <2>4, <2>5, <2>6 DEF FreeIsUnstamped
<1>6. CASE FreeSwap(t)
  <2>1. slot[t] \in Slots /\ slot[t] \notin FreeSlots
    BY <1>6, TakenSlot DEF FreeSwap
  <2>2. FreeSlots' = FreeSlots \cup {slot[t]}
    BY <1>1, <1>6, <2>1, PushList DEF FreeSwap
  <2>3. /\ type_id' = type_id /\ pc' = [pc EXCEPT ![t] = "idle"] /\ pc[t] = "free_swap"
        /\ \A u \in Threads \ {t} : slot'[u] = slot[u]
    BY <1>2, <1>6 DEF FreeSwap
  <2>4. QED
    BY <1>1, <1>2, <2>2, <2>3 DEF FreeIsUnstamped
<1>7. CASE ~AllocSwap(t) /\ ~Stamp(t) /\ ~Clear(t) /\ ~FreeSwap(t)
  <2>1. UNCHANGED <<type_id, list>>
    BY <1>7 DEF Does, AllocCall, AllocNext, AllocMiss, FreeCall, DoubleFreeCall, Enter,
              ScanStep, ScanFound, ScanEnd, FreeLink, FreeMiss
  <2>2. \A u \in Threads : pc'[u] \in {"free_link", "free_swap"}
                             => pc[u] \in {"free_link", "free_swap"} /\ slot'[u] = slot[u]
    BY <1>2, <1>7 DEF Does, AllocCall, AllocNext, AllocMiss, FreeCall, DoubleFreeCall, Enter,
              ScanStep, ScanFound, ScanEnd, FreeLink, FreeMiss, Leave, LoadHead, locals
  <2>3. QED
    BY <1>1, <2>1, <2>2 DEF FreeIsUnstamped, FreeSlots
<1>8. QED
  BY <1>3, <1>4, <1>5, <1>6, <1>7

-----------------------------------------------------------------------------
(* The tag counts the swaps *)

\* A swap makes every other read one swap older, and the tag one larger.
LEMMA SwapCounts ==
  ASSUME BitInv, NEW t \in Threads, NEW to, Swap(t, to), age' = Aged(t),
         NEW u \in Threads \ {t}, Pending(u)
  PROVE  /\ seen[u].tag + age'[u] \in {free_head'.tag, free_head'.tag + TagMod}
         /\ age'[u] # 0
<1>1. /\ seen[u].tag \in 0 .. TagMod - 1 /\ age[u] \in 0 .. TagMod - 1
      /\ free_head.tag \in 0 .. TagMod - 1 /\ TagMod \in Nat \ {0, 1}
  BY PoolAssumption DEF BitInv, PoolInv, TypeOK, Packed
<1>2. seen[u].tag + age[u] \in {free_head.tag, free_head.tag + TagMod}
  BY DEF BitInv, TagCountsSwaps
<1>3. age'[u] = age[u] + 1 /\ age[u] < TagMod - 1
  BY DEF Aged, Swap, InWindow
<1>4. free_head'.tag = Bump(free_head.tag)
  BY DEF Swap
<1>5. /\ Bump(free_head.tag) \in 0 .. TagMod - 1
      /\ free_head.tag + 1 \in {Bump(free_head.tag), Bump(free_head.tag) + TagMod}
  BY <1>1, BumpIsNext
<1> DEFINE b == Bump(free_head.tag)
           h == free_head.tag
           g == seen[u].tag
           a == age[u]
<1>6. g + (a + 1) \in {b, b + TagMod} /\ a + 1 # 0
  <2> HIDE DEF b, h, g, a
  <2>1. /\ g \in 0 .. TagMod - 1 /\ a \in 0 .. TagMod - 1 /\ h \in 0 .. TagMod - 1
        /\ TagMod \in Nat \ {0, 1} /\ b \in 0 .. TagMod - 1
        /\ g + a \in {h, h + TagMod} /\ a < TagMod - 1 /\ h + 1 \in {b, b + TagMod}
    BY <1>1, <1>2, <1>3, <1>5 DEF b, h, g, a
  <2>2. QED
    BY <2>1
<1>7. QED
  BY <1>3, <1>4, <1>6

LEMMA TagStep ==
  ASSUME BitInv, NEW t \in Threads, Does(t)
  PROVE  TagCountsSwaps'
<1> USE DEF Goto, Pending
<1>1. TypeOK /\ TagCountsSwaps /\ CallsInPlace /\ ListIsLinked
  BY DEF BitInv, PoolInv
<1>2. /\ pc \in [Threads -> PCs] /\ seen \in [Threads -> Packed] /\ age \in [Threads -> 0 .. TagMod - 1]
      /\ link \in [Threads -> Address] /\ free_head \in Packed /\ next \in [Slots -> Address]
  BY <1>1 DEF TypeOK
<1>3. free_head.tag \in 0 .. TagMod - 1 /\ TagMod \in Nat
  BY <1>2, PoolAssumption DEF Packed
<1>4. CASE AllocSwap(t) \/ FreeSwap(t)
  <2>1. /\ age' = Aged(t) /\ ~Pending(t)' /\ \E to : Swap(t, to)
        /\ \A u \in Threads \ {t} : pc'[u] = pc[u] /\ seen'[u] = seen[u]
    BY <1>2, <1>4 DEF AllocSwap, FreeSwap
  <2>2. ASSUME NEW u \in Threads \ {t}, Pending(u)'
        PROVE  /\ seen'[u].tag + age'[u] \in {free_head'.tag, free_head'.tag + TagMod}
               /\ age'[u] # 0
    BY <2>1, <2>2, SwapCounts
  <2>3. QED
    BY <2>1, <2>2 DEF TagCountsSwaps
<1>5. CASE ~AllocSwap(t) /\ ~FreeSwap(t)
  <2>1. free_head' = free_head
    BY <1>5 DEF Does, AllocCall, AllocNext, AllocMiss, Stamp, FreeCall, DoubleFreeCall, Enter,
              ScanStep, ScanFound, ScanEnd, Clear, FreeLink, FreeMiss
  <2>2. \A u \in Threads \ {t} : pc'[u] = pc[u] /\ seen'[u] = seen[u] /\ age'[u] = age[u] /\ link'[u] = link[u]
    BY <1>2, <1>5 DEF Does, AllocCall, AllocNext, AllocMiss, Stamp, FreeCall, DoubleFreeCall, Enter,
              ScanStep, ScanFound, ScanEnd, Clear, FreeLink, FreeMiss, Leave, LoadHead, locals
  <2>3. ASSUME NEW u \in Threads \ {t}, pc[u] = "alloc_swap", age[u] = 0
        PROVE  next'[seen[u].ptr] = next[seen[u].ptr]
    <3>1. CASE FreeLink(t)
      <4>1. slot[t] \notin FreeSlots /\ slot[t] \in Slots
        BY <3>1, TakenSlot DEF FreeLink
      <4>2. seen[u] = free_head /\ seen[u].ptr # 0
        BY <1>1, <2>3 DEF TagCountsSwaps, CallsInPlace
      <4>3. seen[u].ptr \in FreeSlots
        BY <1>1, <4>2, HeadFacts
      <4>4. seen[u].ptr \in Slots
        BY <1>1, <4>3, ListFacts DEF TypeOK
      <4>5. next' = [next EXCEPT ![slot[t]] = seen[t].ptr]
        BY <3>1 DEF FreeLink
      <4>6. QED
        BY <1>2, <4>1, <4>3, <4>4, <4>5
    <3>2. CASE ~FreeLink(t)
      BY <1>5, <3>2, ListFrame
    <3>3. QED
      BY <3>1, <3>2
  <2>4. ASSUME Pending(t)'
        PROVE  /\ seen'[t].tag + age'[t] \in {free_head.tag, free_head.tag + TagMod}
               /\ age'[t] = 0 => /\ seen'[t] = free_head
                                 /\ pc'[t] = "alloc_swap" => link'[t] = next'[seen'[t].ptr]
    <3>1. CASE /\ seen'[t] = free_head /\ age'[t] = 0 /\ pc'[t] # "alloc_swap"
      BY <1>3, <3>1
    <3>2. CASE AllocNext(t)
      BY <1>1, <1>2, <3>2 DEF AllocNext, TagCountsSwaps
    <3>3. CASE FreeLink(t)
      BY <1>1, <1>2, <3>3 DEF FreeLink, TagCountsSwaps
    <3>4. CASE \E type \in TypeIds : AllocCall(t, type)
      BY <1>2, <3>1, <3>4 DEF AllocCall, LoadHead
    <3>5. CASE AllocMiss(t)
      BY <1>2, <2>4, <3>1, <3>5 DEF AllocMiss, LoadHead, Leave
    <3>6. CASE Clear(t)
      BY <1>2, <3>1, <3>6 DEF Clear, LoadHead
    <3>7. CASE FreeMiss(t)
      BY <1>2, <3>1, <3>7 DEF FreeMiss, LoadHead
    <3>8. QED
      BY <1>2, <1>5, <2>4, <3>2, <3>3, <3>4, <3>5, <3>6, <3>7
         DEF Does, Stamp, FreeCall, DoubleFreeCall, Enter, ScanStep, ScanFound, ScanEnd, Leave
  <2>5. QED
    BY <1>1, <2>1, <2>2, <2>3, <2>4 DEF TagCountsSwaps
<1>6. QED
  BY <1>4, <1>5

-----------------------------------------------------------------------------
(* The two scans *)

\* A second free looks for a slot that is on the list, from its head, and nobody
\* else moves until it has come to it.
LEMMA SecondFreeStep ==
  ASSUME BitInv, NEW t \in Threads, Does(t)
  PROVE  SecondFreeWillFind'
<1> USE DEF Goto
<1>1. TypeOK /\ SecondFreeWillFind /\ CallsInPlace /\ ListIsLinked /\ Conservation /\ Apart /\ FreeIsUnstamped
  BY SlotsApart DEF BitInv, PoolInv
<1>2. /\ pc \in [Threads -> PCs] /\ slot \in [Threads -> Address] /\ link \in [Threads -> Address]
      /\ steps \in [Threads -> 0 .. Capacity + 2]
      /\ list \in Seq(Slots) /\ Len(list) \in Nat /\ DOMAIN list = 1 .. Len(list)
      /\ solo \in Threads \cup {NoThread}
  BY <1>1, ListFacts DEF TypeOK
<1>3. CASE solo = NoThread
  <2>1. ASSUME NEW s \in Slots, DoubleFreeCall(t, s)
        PROVE  SecondFreeWillFind'
    <3>1. \A u \in Threads : pc[u] = "idle" /\ ~Taken(u)
      BY <2>1 DEF DoubleFreeCall, Taken, Freeing
    <3>2. s \in FreeSlots
      BY <1>1, <2>1, <3>1 DEF Apart, DoubleFreeCall
    <3>3. type_id[s] = 0
      BY <1>1, <3>2 DEF FreeIsUnstamped
    <3>4. /\ pc' = [pc EXCEPT ![t] = "scan"] /\ link' = [link EXCEPT ![t] = free_head.ptr]
          /\ slot' = [slot EXCEPT ![t] = s] /\ steps' = steps /\ list' = list /\ solo' = t
      BY <2>1, <3>3 DEF DoubleFreeCall, Enter
    <3>5. PICK k \in 1 .. Len(list) : list[k] = s
      BY <1>2, <3>2, ListFacts
    <3>6. 1 \in 1 .. Len(list) /\ Len(list) # 0 /\ 1 <= k
      BY <1>2, <3>5
    <3>7. free_head.ptr = list[1]
      BY <1>1, <3>6, HeadFacts
    <3>8. steps[t] = 1 - 1
      BY <1>1, <3>1 DEF CallsInPlace
    <3>9. \E i, j \in DOMAIN list' :
             i <= j /\ list'[j] = slot'[t] /\ link'[t] = list'[i] /\ steps'[t] = i - 1
      BY <1>2, <3>4, <3>5, <3>6, <3>7, <3>8
    <3>10. pc'[t] = "scan" /\ \A u \in Threads \ {t} : pc'[u] = "idle"
      BY <1>2, <3>1, <3>4
    <3>11. QED
      BY <3>4, <3>9, <3>10 DEF SecondFreeWillFind
  <2>2. CASE ~\E s \in Slots : DoubleFreeCall(t, s)
    <3>1. solo' = NoThread
      BY <1>3, <2>2 DEF Does, AllocCall, AllocNext, AllocSwap, AllocMiss, Stamp, FreeCall,
              ScanStep, ScanFound, ScanEnd, Clear, FreeLink, FreeSwap, FreeMiss
    <3>2. QED
      BY <3>1 DEF SecondFreeWillFind
  <2>3. QED
    BY <2>1, <2>2
<1>4. CASE solo # NoThread
  <2>1. pc[solo] = "scan" /\ solo \in Threads /\ \A u \in Threads \ {solo} : pc[u] = "idle"
    BY <1>1, <1>2, <1>4 DEF SecondFreeWillFind
  <2>2. t = solo
    BY <1>4, <2>1 DEF Does, AllocCall, AllocNext, AllocSwap, AllocMiss, Stamp, FreeCall, DoubleFreeCall,
              ScanStep, ScanFound, ScanEnd, Clear, FreeLink, FreeSwap, FreeMiss
  <2>3. PICK j \in 1 .. Len(list), k \in 1 .. Len(list) :
          j <= k /\ list[k] = slot[t] /\ link[t] = list[j] /\ steps[t] = j - 1
    BY <1>1, <1>2, <1>4, <2>2 DEF SecondFreeWillFind
  <2>4. Scanning(t)
    <3>1. link[t] # 0
      BY <1>2, <2>3, ListFacts
    <3>2. Len(list) <= Capacity /\ Capacity \in Nat
      BY <1>1, ListIsShort, PoolAssumption
    <3>3. steps[t] <= Capacity + 1
      BY <1>2, <2>3, <3>2
    <3>4. QED
      BY <3>1, <3>3 DEF Scanning
  <2>5. ScanStep(t) \/ ScanFound(t)
    BY <1>4, <2>1, <2>2, <2>4 DEF Does, AllocCall, AllocNext, AllocSwap, AllocMiss, Stamp, FreeCall, DoubleFreeCall,
              ScanEnd, Clear, FreeLink, FreeSwap, FreeMiss
  <2>6. CASE ScanFound(t)
    BY <2>6 DEF ScanFound, SecondFreeWillFind
  <2>7. CASE ScanStep(t)
    <3>1. /\ link[t] # slot[t] /\ link' = [link EXCEPT ![t] = next[link[t]]]
          /\ steps' = [steps EXCEPT ![t] = steps[t] + 1]
          /\ UNCHANGED <<pc, slot, solo, list>>
      BY <2>7 DEF ScanStep
    <3>2. j # k /\ j + 1 \in 1 .. Len(list) /\ j + 1 <= k /\ j # Len(list)
      <4>1. j # k
        BY <2>3, <3>1
      <4>2. \A n \in Nat : \A a, b \in 1 .. n : a <= b /\ a # b => a + 1 \in 1 .. n /\ a + 1 <= b /\ a # n
        OBVIOUS
      <4>3. Len(list) \in Nat /\ j \in 1 .. Len(list) /\ k \in 1 .. Len(list) /\ j <= k
        BY <1>2, <2>3
      <4>4. QED
        BY <4>1, <4>2, <4>3
    <3>3. next[list[j]] = list[j + 1]
      BY <1>1, <1>2, <3>2 DEF ListIsLinked
    <3>4. link'[t] = list[j + 1]
      BY <1>2, <2>3, <3>1, <3>3
    <3>5. steps'[t] = (j + 1) - 1
      BY <1>2, <2>3, <3>1
    <3>6. \E i, m \in DOMAIN list' :
             i <= m /\ list'[m] = slot'[t] /\ link'[t] = list'[i] /\ steps'[t] = i - 1
      BY <1>2, <2>3, <3>1, <3>2, <3>4, <3>5
    <3>7. QED
      BY <2>1, <2>2, <3>1, <3>6 DEF SecondFreeWillFind
  <2>8. QED
    BY <2>5, <2>6, <2>7
<1>5. QED
  BY <1>3, <1>4

\* Whatever step comes, the scan of a first free stays enclosed.
LEMMA EnclosureKept ==
  ASSUME BitInv, NEW t \in Threads, Does(t),
         NEW u \in Threads, pc[u] = "scan", solo # u, u # t \/ ScanStep(t),
         NEW S \in SUBSET (Slots \ {slot[u]}), Enclosed(u, S)
  PROVE  \E S2 \in SUBSET (Slots \ {slot'[u]}) : Enclosed(u, S2)'
<1> USE DEF Goto
<1>1. TypeOK /\ Conservation /\ CallsInPlace /\ ListIsLinked
  BY DEF BitInv, PoolInv
<1>2. /\ pc \in [Threads -> PCs] /\ slot \in [Threads -> Address] /\ link \in [Threads -> Address]
      /\ seen \in [Threads -> Packed] /\ next \in [Slots -> Address]
  BY <1>1 DEF TypeOK
<1>3. /\ FreeSlots \subseteq S /\ link[u] \in S \cup {0} /\ \A s \in S : next[s] \in S \cup {0}
      /\ \A v \in Threads : pc[v] = "free_link" /\ slot[v] \in S => seen[v].ptr \in S \cup {0}
  BY DEF Enclosed
<1>4. free_head.ptr \in S \cup {0}
  BY <1>1, <1>3, HeadFacts
<1>5. slot'[u] = slot[u]
  BY <1>2 DEF Does, AllocCall, AllocNext, AllocSwap, AllocMiss, Stamp, FreeCall, DoubleFreeCall, Enter,
              ScanStep, ScanFound, ScanEnd, Clear, FreeLink, FreeSwap, FreeMiss, Leave, LoadHead, locals
<1>6. link'[u] \in S \cup {0}
  <2>1. CASE u # t
    BY <1>2, <1>3, <2>1 DEF Does, AllocCall, AllocNext, AllocSwap, AllocMiss, Stamp, FreeCall, DoubleFreeCall, Enter,
              ScanStep, ScanFound, ScanEnd, Clear, FreeLink, FreeSwap, FreeMiss, Leave, LoadHead, locals
  <2>2. CASE u = t
    BY <1>2, <1>3, <2>2 DEF ScanStep, Scanning
  <2>3. QED
    BY <2>1, <2>2
<1>7. CASE FreeSwap(t)
  <2>1. /\ slot[t] \in Slots /\ slot[t] \notin FreeSlots
        /\ \A v \in Threads \ {t} : Taken(v) => slot[v] # slot[t]
    BY <1>7, TakenSlot DEF FreeSwap
  <2>2. u # t /\ Taken(u)
    BY <1>7 DEF FreeSwap, Taken, Freeing
  <2>3. FreeSlots' = FreeSlots \cup {slot[t]}
    BY <1>1, <1>7, <2>1, PushList DEF FreeSwap
  <2>4. next' = next /\ next[slot[t]] = free_head.ptr
    BY <1>1, <1>7 DEF FreeSwap, Swap, CallsInPlace
  <2>5. /\ pc'[t] = "idle"
        /\ \A v \in Threads \ {t} : pc'[v] = pc[v] /\ slot'[v] = slot[v] /\ seen'[v] = seen[v]
    BY <1>2, <1>7 DEF FreeSwap
  <2>6. \A v \in Threads \ {t} : pc[v] = "free_link" => slot[v] # slot[t]
    BY <2>1, TakenSlot
  <2>7. S \cup {slot[t]} \in SUBSET (Slots \ {slot'[u]})
    BY <1>5, <2>1, <2>2
  <2>8. \A v \in Threads : pc'[v] = "free_link" /\ slot'[v] \in S \cup {slot[t]}
                             => seen'[v].ptr \in (S \cup {slot[t]}) \cup {0}
    BY <1>3, <2>5, <2>6
  <2>9. ASSUME NEW Z, Z = S \cup {slot[t]}
        PROVE  Enclosed(u, Z)'
    <3>1. FreeSlots' \subseteq Z /\ link'[u] \in Z \cup {0}
      BY <1>3, <1>6, <2>3, <2>9
    <3>2. \A s \in Z : next'[s] \in Z \cup {0}
      BY <1>3, <1>4, <2>4, <2>9
    <3>3. QED
      BY <2>8, <2>9, <3>1, <3>2 DEF Enclosed
  <2>10. QED
    BY <2>7, <2>9
<1>8. CASE ~FreeSwap(t)
  <2>1. FreeSlots' \subseteq FreeSlots
    <3>1. CASE AllocSwap(t)
      <4>1. free_head.ptr # 0
        BY <1>1, <3>1 DEF AllocSwap, Swap, CallsInPlace
      <4>2. Len(list) # 0
        BY <1>1, <4>1, HeadFacts
      <4>3. QED
        BY <1>1, <3>1, <4>2, PopList DEF AllocSwap
    <3>2. CASE ~AllocSwap(t)
      <4>1. list' = list
        BY <1>8, <3>2 DEF Does, AllocCall, AllocNext, AllocMiss, Stamp, FreeCall, DoubleFreeCall, Enter,
              ScanStep, ScanFound, ScanEnd, Clear, FreeLink, FreeMiss
      <4>2. QED
        BY <4>1 DEF FreeSlots
    <3>3. QED
      BY <3>1, <3>2
  <2>2. \A s \in S : next'[s] \in S \cup {0}
    <3>1. CASE FreeLink(t)
      <4>1. pc[t] = "free_link" /\ next' = [next EXCEPT ![slot[t]] = seen[t].ptr] /\ slot[t] \in Slots
        BY <3>1, TakenSlot DEF FreeLink
      <4>2. QED
        BY <1>2, <1>3, <4>1
    <3>2. CASE ~FreeLink(t)
      <4>1. next' = next
        BY <1>8, <3>2 DEF Does, AllocCall, AllocNext, AllocSwap, AllocMiss, Stamp, FreeCall, DoubleFreeCall, Enter,
              ScanStep, ScanFound, ScanEnd, Clear, FreeMiss
      <4>2. QED
        BY <1>3, <4>1
    <3>3. QED
      BY <3>1, <3>2
  <2>3. \A v \in Threads : pc'[v] = "free_link" =>
          \/ seen'[v] = free_head
          \/ pc[v] = "free_link" /\ slot'[v] = slot[v] /\ seen'[v] = seen[v]
    BY <1>2, <1>8 DEF Does, AllocCall, AllocNext, AllocSwap, AllocMiss, Stamp, FreeCall, DoubleFreeCall, Enter,
              ScanStep, ScanFound, ScanEnd, Clear, FreeLink, FreeMiss, Leave, LoadHead, locals
  <2>4. \A v \in Threads : pc'[v] = "free_link" /\ slot'[v] \in S => seen'[v].ptr \in S \cup {0}
    BY <1>3, <1>4, <2>3
  <2>5. Enclosed(u, S)'
    BY <1>3, <1>6, <2>1, <2>2, <2>4 DEF Enclosed
  <2>6. QED
    BY <1>5, <2>5
<1>9. QED
  BY <1>7, <1>8

LEMMA FirstFreeStep ==
  ASSUME BitInv, NEW t \in Threads, Does(t)
  PROVE  FirstFreeWillMiss'
<1> USE DEF Goto
<1>1. TypeOK /\ SecondFreeWillFind /\ CallsInPlace /\ ListIsLinked /\ Apart
  BY SlotsApart DEF BitInv, PoolInv
<1>2. pc \in [Threads -> PCs] /\ slot \in [Threads -> Address] /\ link \in [Threads -> Address]
  BY <1>1 DEF TypeOK
<1> SUFFICES ASSUME NEW u \in Threads, pc'[u] = "scan", solo' # u
             PROVE  \E S \in SUBSET (Slots \ {slot'[u]}) : Enclosed(u, S)'
  BY DEF FirstFreeWillMiss
<1>3. CASE pc[u] = "scan"
  <2>1. u # t \/ ScanStep(t)
    BY <1>2, <1>3 DEF Does, AllocCall, AllocNext, AllocSwap, AllocMiss, Stamp, FreeCall, DoubleFreeCall,
              ScanFound, ScanEnd, Clear, FreeLink, FreeSwap, FreeMiss, Leave
  <2>2. solo # u
    <3> SUFFICES ASSUME solo = u PROVE FALSE
      OBVIOUS
    <3>1. \A v \in Threads \ {u} : pc[v] = "idle"
      BY <1>1, PoolAssumption DEF SecondFreeWillFind
    <3>2. u # NoThread
      BY PoolAssumption
    <3>3. solo' = solo
      BY <1>3, <2>1, <3>1, <3>2 DEF Does, AllocCall, AllocNext, AllocSwap, AllocMiss, Stamp, FreeCall, DoubleFreeCall,
              ScanStep, ScanFound, ScanEnd, Clear, FreeLink, FreeSwap, FreeMiss
    <3>4. QED
      BY <3>3
  <2>3. PICK S \in SUBSET (Slots \ {slot[u]}) : Enclosed(u, S)
    BY <1>3, <2>2 DEF BitInv, FirstFreeWillMiss
  <2>4. QED
    BY <1>3, <2>1, <2>2, <2>3, EnclosureKept
<1>4. CASE pc[u] # "scan"
  <2>1. PICK s \in Slots : u = t /\ FreeCall(t, s)
    BY <1>2, <1>4 DEF Does, AllocCall, AllocNext, AllocSwap, AllocMiss, Stamp, FreeCall, DoubleFreeCall,
              ScanStep, ScanFound, ScanEnd, Clear, FreeLink, FreeSwap, FreeMiss, Leave, Enter
  <2>2. /\ s \in live /\ slot' = [slot EXCEPT ![t] = s] /\ UNCHANGED <<free_head, next, seen, list>>
        /\ link'[t] = free_head.ptr /\ \A v \in Threads \ {t} : pc'[v] = pc[v]
    BY <1>2, <1>4, <2>1 DEF FreeCall, Enter
  <2>3. FreeSlots' = FreeSlots /\ FreeSlots \in SUBSET (Slots \ {slot'[u]})
    <3>1. FreeSlots \subseteq Slots /\ s \notin FreeSlots
      BY <1>1, <2>2, ListFacts DEF TypeOK, Apart
    <3>2. slot'[u] = s
      BY <1>2, <2>1, <2>2
    <3>3. QED
      BY <2>2, <3>1, <3>2 DEF FreeSlots
  <2>4. link'[u] \in FreeSlots \cup {0}
    BY <1>1, <2>1, <2>2, HeadFacts
  <2>5. \A x \in FreeSlots : next'[x] \in FreeSlots \cup {0}
    BY <1>1, <2>2, LinksStayFree
  <2>6. \A v \in Threads : pc'[v] = "free_link" => slot'[v] \notin FreeSlots
    <3>1. pc'[t] = "scan"
      BY <2>1
    <3>2. \A v \in Threads \ {t} : pc[v] = "free_link" => slot[v] \notin FreeSlots
      BY TakenSlot
    <3>3. QED
      BY <1>2, <2>2, <3>1, <3>2
  <2>7. ASSUME NEW Z, Z = FreeSlots PROVE Enclosed(u, Z)'
    BY <2>3, <2>4, <2>5, <2>6, <2>7 DEF Enclosed
  <2>8. QED
    BY <2>3, <2>7
<1>5. QED
  BY <1>3, <1>4

-----------------------------------------------------------------------------
(* The invariant *)

\* A new pool: all slots are free and linked in address order.
LEMMA PoolInit == Init => BitInv
<1> SUFFICES ASSUME Init PROVE BitInv
  OBVIOUS
<1>1. /\ Capacity \in Nat \ {0} /\ TagMod \in Nat \ {0, 1} /\ 0 \in TypeIds
      /\ NoThread \notin Threads
  BY PoolAssumption
<1>2. /\ list \in Seq(Slots) /\ Len(list) = Capacity /\ DOMAIN list = 1 .. Capacity
      /\ \A i \in 1 .. Capacity : list[i] = i
  BY <1>1 DEF Init, Slots
<1>3. FreeSlots = Slots
  <2>1. FreeSlots = {list[i] : i \in 1 .. Capacity}
    BY <1>2 DEF FreeSlots
  <2>2. QED
    BY <1>2, <2>1 DEF Slots
<1>4. list # <<>> /\ 1 \in 1 .. Capacity
  BY <1>1, <1>2, EmptySeq
<1>5. TypeOK
  <2>1. free_head \in Packed
    <3>1. 1 + Capacity \in Nat
      BY <1>1
    <3>2. (1 + Capacity) % TagMod \in 0 .. TagMod - 1
      BY <1>1, <3>1
    <3>3. QED
      BY <1>1, <3>2 DEF Init, Packed, Address
  <2>2. next \in [Slots -> Address]
    BY <1>1 DEF Init, Slots, Address
  <2>3. [tag |-> 0, ptr |-> 0] \in Packed /\ 0 \in 0 .. TagMod - 1 /\ 0 \in 0 .. Capacity + 2
    BY <1>1 DEF Packed, Address
  <2>4. QED
    BY <1>1, <1>2, <2>1, <2>2, <2>3, Addresses DEF Init, TypeOK, PCs
<1>6. \A t \in Threads : pc[t] = "idle" /\ ~Taken(t)
  BY DEF Init, Taken, Freeing
<1>7. CallsInPlace
  BY <1>6 DEF Init, CallsInPlace, Freeing
<1>8. Apart
  BY <1>2, <1>3, <1>6 DEF Apart, Init
<1>9. ListIsLinked
  <2>1. free_head.ptr = 1
    BY DEF Init
  <2>2. \A i \in 1 .. Capacity : next[list[i]] = IF i = Capacity THEN 0 ELSE list[i + 1]
    <3> SUFFICES ASSUME NEW i \in 1 .. Capacity
                 PROVE  next[i] = IF i = Capacity THEN 0 ELSE list[i + 1]
      BY <1>2
    <3>1. next[i] = IF i = Capacity THEN 0 ELSE i + 1
      BY DEF Init, Slots
    <3>2. i # Capacity => i + 1 \in 1 .. Capacity
      BY <1>1
    <3>3. QED
      BY <1>2, <3>1, <3>2
  <2>3. QED
    BY <1>2, <1>4, <2>1, <2>2 DEF ListIsLinked
<1>10. FreeIsUnstamped
  BY <1>3, <1>6 DEF Init, FreeIsUnstamped
<1>11. TagCountsSwaps /\ FirstFreeWillMiss
  BY <1>6 DEF TagCountsSwaps, FirstFreeWillMiss, Pending
<1>12. SecondFreeWillFind
  BY DEF Init, SecondFreeWillFind
<1>13. QED
  BY <1>5, <1>7, <1>8, <1>9, <1>10, <1>11, <1>12, SlotsConserved DEF BitInv, PoolInv

\* Every step keeps every part of it.
LEMMA PoolStep == BitInv /\ [Next]_vars => BitInv'
<1>1. ASSUME BitInv, NEW t \in Threads, Does(t)
      PROVE  BitInv'
  <2>1. TypeOK' /\ CallsInPlace' /\ Apart'
    BY <1>1, TypeStep, InPlaceStep, ApartStep
  <2>2. (TypeOK /\ CallsInPlace /\ Apart)' => Conservation'
    BY SlotsConserved, PTL
  <2>3. ListIsLinked' /\ FreeIsUnstamped' /\ TagCountsSwaps'
    BY <1>1, LinkedStep, UnstampedStep, TagStep
  <2>4. SecondFreeWillFind' /\ FirstFreeWillMiss'
    BY <1>1, SecondFreeStep, FirstFreeStep
  <2>5. QED
    BY <2>1, <2>2, <2>3, <2>4 DEF BitInv, PoolInv
<1>2. ASSUME BitInv, UNCHANGED vars
      PROVE  BitInv'
  <2> USE <1>2 DEF BitInv, PoolInv, vars
  <2>1. TypeOK'
    BY DEF TypeOK
  <2>2. CallsInPlace'
    BY DEF CallsInPlace
  <2>3. Apart'
    <3>1. Apart
      BY SlotsApart
    <3>2. \A u \in Threads : (Taken(u)' <=> Taken(u)) /\ slot'[u] = slot[u]
      BY DEF Taken
    <3>3. QED
      BY <3>1, <3>2, ApartSame
  <2>4. (TypeOK /\ CallsInPlace /\ Apart)' => Conservation'
    BY SlotsConserved, PTL
  <2>5. ListIsLinked'
    BY DEF ListIsLinked
  <2>6. FreeSlots' = FreeSlots
    BY DEF FreeSlots
  <2>7. FreeIsUnstamped'
    BY <2>6 DEF FreeIsUnstamped
  <2>8. TagCountsSwaps'
    BY DEF TagCountsSwaps, Pending
  <2>9. SecondFreeWillFind'
    BY DEF SecondFreeWillFind
  <2>10. FirstFreeWillMiss'
    BY <2>6 DEF FirstFreeWillMiss, Enclosed
  <2>11. QED
    BY <2>1, <2>2, <2>3, <2>4, <2>5, <2>7, <2>8, <2>9, <2>10
<1>3. Next <=> \E t \in Threads : Does(t)
  BY DEF Next, Does
<1>4. QED
  BY <1>1, <1>2, <1>3

\* The pool between any two steps, for every set of threads, capacity and range of
\* the tags: each slot is free, held by a caller or in the hands of one call, and the
\* words in the arena link exactly the free ones.  BitPool_alloc, BitPool_free.
THEOREM PoolInvariant == Spec => []PoolInv
<1>1. BitInv => PoolInv
  BY DEF BitInv
<1>2. QED
  BY <1>1, PoolInit, PoolStep, PTL DEF Spec

\* A compare-and-swap of the head that succeeds finds the list as its thread read
\* it, as long as no thread sleeps through a whole round of the tag.
THEOREM NoSwapIsStale == Spec => []NoABA
<1>1. BitInv => NoABA
  BY SwapIsCurrent DEF NoABA
<1>2. QED
  BY <1>1, PoolInit, PoolStep, PTL DEF Spec

\* A second free of a slot, with no other call under way, comes to it on the list
\* and changes nothing.
THEOREM SecondFreeIsRefused == Spec => DoubleFreeIsRefused
<1>1. BitInv /\ [Next]_vars => [solo # NoThread => UNCHANGED <<free_head, next, type_id, live>>]_vars
  <2> SUFFICES ASSUME BitInv, [Next]_vars, solo # NoThread, ~UNCHANGED vars
               PROVE  UNCHANGED <<free_head, next, type_id, live>>
    OBVIOUS
  <2>1. PICK t \in Threads : Does(t)
    BY DEF Next, Does
  <2>2. SecondFreeWillFind'
    BY <2>1, SecondFreeStep
  <2>3. /\ pc[solo] = "scan" /\ solo \in Threads /\ \A u \in Threads \ {solo} : pc[u] = "idle"
    BY DEF BitInv, PoolInv, TypeOK, SecondFreeWillFind
  <2>4. pc \in [Threads -> PCs]
    BY DEF BitInv, PoolInv, TypeOK
  <2>5. ScanStep(t) \/ ScanFound(t) \/ ScanEnd(t)
    BY <2>1, <2>3 DEF Does, AllocCall, AllocNext, AllocSwap, AllocMiss, Stamp, FreeCall, DoubleFreeCall,
              Clear, FreeLink, FreeSwap, FreeMiss
  <2>6. QED
    BY <2>5 DEF ScanStep, ScanFound, ScanEnd
<1>2. QED
  BY <1>1, PoolInit, PoolStep, PTL DEF Spec, DoubleFreeIsRefused
=============================================================================
