---------------------------- MODULE PartsProofs -----------------------------
(***************************************************************************)
(* The parts that one caller or one thread uses at a time.                 *)
(*                                                                         *)
(* A hash map answers as a dictionary does, whatever keys collide and      *)
(* whatever growth is refused: for any keys, values, hash and capacities.  *)
(* A loop, a clock and a timer count the time that goes by: for any frame  *)
(* and any scales, for as long as one waits.                               *)
(* A delivery of an input event reaches the listeners registered for it,   *)
(* whatever they register and unregister while they are called.            *)
(* A listener hears of keys, buttons, motions and touches what was pushed, *)
(* and a gesture fires once: for any bindings, capacities and times.       *)
(***************************************************************************)
EXTENDS HashMap, Timing, Input, NumberProofs, FiniteSetTheorems, SequenceTheorems

-----------------------------------------------------------------------------
(* Places in a table of cap slots *)

Positive == Nat \ {0}

\* idx & mask is a slot.
LEMMA ProbeType ==
  ASSUME NEW cap \in Positive, NEW k \in Keys, NEW i \in Nat
  PROVE  Probe(cap, k, i) \in 0 .. cap - 1 /\ Hash[k] \in Nat
<1>1. Hash[k] \in Nat /\ Hash[k] + i \in Nat
  BY HashMapAssumption
<1>2. QED
  BY <1>1, DivMod DEF Probe, Positive

\* idx = (idx + 1) & mask comes to the next place.
LEMMA ProbeNext ==
  ASSUME NEW cap \in Positive, NEW k \in Keys, NEW i \in Nat
  PROVE  (Probe(cap, k, i) + 1) % cap = Probe(cap, k, i + 1)
<1> DEFINE x == Hash[k] + i
           q == x \div cap
           r == x % cap
<1>1. x \in Nat /\ Hash[k] + (i + 1) = x + 1
  BY HashMapAssumption
<1>2. q \in Nat /\ r \in 0 .. cap - 1 /\ x = q * cap + r
  <2> HIDE DEF x
  <2>1. QED
    BY <1>1, DivMod DEF Positive
<1> HIDE DEF x, q, r
<1>3. CASE r + 1 < cap
  <2>1. x + 1 = q * cap + (r + 1) /\ r + 1 = 0 * cap + (r + 1) /\ r + 1 \in Nat /\ x + 1 \in Nat
    BY <1>1, <1>2 DEF Positive
  <2>2. (x + 1) % cap = r + 1
    BY <1>2, <1>3, <2>1, Quotient DEF Positive
  <2>3. (r + 1) % cap = r + 1
    BY <1>3, <2>1, Quotient DEF Positive
  <2>4. QED
    BY <1>1, <2>2, <2>3 DEF Probe, r, x
<1>4. CASE r + 1 = cap
  <2>1. x + 1 = (q + 1) * cap + 0 /\ r + 1 = 1 * cap + 0 /\ r + 1 \in Nat /\ x + 1 \in Nat /\ q + 1 \in Nat
    BY <1>1, <1>2, <1>4 DEF Positive
  <2>2. (x + 1) % cap = 0
    BY <2>1, Quotient DEF Positive
  <2>3. (r + 1) % cap = 0
    BY <2>1, Quotient DEF Positive
  <2>4. QED
    BY <1>1, <2>2, <2>3 DEF Probe, r, x
<1>5. QED
  BY <1>2, <1>3, <1>4 DEF Positive

\* After cap places the probe is where it was.
LEMMA ProbeBack ==
  ASSUME NEW cap \in Positive, NEW k \in Keys, NEW i \in Nat, cap <= i
  PROVE  i - cap \in Nat /\ Probe(cap, k, i - cap) = Probe(cap, k, i)
<1> DEFINE x == Hash[k] + (i - cap)
           q == x \div cap
           r == x % cap
<1>1. i - cap \in Nat /\ x \in Nat /\ Hash[k] + i = x + cap
  BY HashMapAssumption DEF Positive
<1>2. q \in Nat /\ r \in 0 .. cap - 1 /\ x = q * cap + r
  <2> HIDE DEF x
  <2>1. QED
    BY <1>1, DivMod DEF Positive
<1> HIDE DEF x, q, r
<1>3. x + cap = (q + 1) * cap + r /\ x + cap \in Nat /\ q + 1 \in Nat /\ r \in Nat /\ r < cap
  BY <1>1, <1>2 DEF Positive
<1>4. (x + cap) % cap = r
  BY <1>3, Quotient DEF Positive
<1>5. QED
  BY <1>1, <1>4 DEF Probe, r, x

\* Within cap places the probe comes to every slot.
LEMMA ProbeAll ==
  ASSUME NEW cap \in Positive, NEW k \in Keys, NEW s \in 0 .. cap - 1
  PROVE  \E i \in 0 .. cap - 1 : Probe(cap, k, i) = s
<1> DEFINE h == Hash[k]
           q == h \div cap
           r == h % cap
<1>1. h \in Nat
  BY HashMapAssumption
<1>2. q \in Nat /\ r \in 0 .. cap - 1 /\ h = q * cap + r
  <2> HIDE DEF h
  <2>1. QED
    BY <1>1, DivMod DEF Positive
<1> HIDE DEF h, q, r
<1>3. CASE r <= s
  <2>1. s - r \in 0 .. cap - 1 /\ h + (s - r) = q * cap + s /\ h + (s - r) \in Nat /\ s \in Nat /\ s < cap
    BY <1>1, <1>2, <1>3 DEF Positive
  <2>2. (h + (s - r)) % cap = s
    BY <1>2, <2>1, Quotient DEF Positive
  <2>3. QED
    BY <2>1, <2>2 DEF Probe, h
<1>4. CASE s < r
  <2>1. /\ s - r + cap \in 0 .. cap - 1 /\ h + (s - r + cap) = (q + 1) * cap + s
        /\ h + (s - r + cap) \in Nat /\ s \in Nat /\ s < cap /\ q + 1 \in Nat
    BY <1>1, <1>2, <1>4 DEF Positive
  <2>2. (h + (s - r + cap)) % cap = s
    BY <2>1, Quotient DEF Positive
  <2>3. QED
    BY <2>1, <2>2 DEF Probe, h
<1>5. QED
  BY <1>2, <1>3, <1>4 DEF Positive

-----------------------------------------------------------------------------
(* Tables and lookups *)

SlotStates == {Blank, Tomb} \cup {Entry(k, v) : k \in Keys, v \in Values}

\* The three kinds of slots.
LEMMA SlotKinds ==
  /\ Blank \in SlotStates /\ Blank.state = "empty"
  /\ Tomb \in SlotStates /\ Tomb.state = "deleted"
  /\ \A k \in Keys, v \in Values :
       /\ Entry(k, v) \in SlotStates /\ Entry(k, v).state = "occupied"
       /\ Entry(k, v).key = k /\ Entry(k, v).val = v
       /\ \A w : [Entry(k, v) EXCEPT !.val = w] = Entry(k, w)
  /\ \A e \in SlotStates :
       e.state = "occupied" => e.key \in Keys /\ e.val \in Values /\ e = Entry(e.key, e.val)
<1>1. Blank.state = "empty" /\ Tomb.state = "deleted"
  BY DEF Blank, Tomb
<1>2. \A k, v : Entry(k, v).state = "occupied" /\ Entry(k, v).key = k /\ Entry(k, v).val = v
  BY DEF Entry
<1>3. \A k, v, w : [Entry(k, v) EXCEPT !.val = w] = Entry(k, w)
  BY DEF Entry
<1>4. Blank \in SlotStates /\ Tomb \in SlotStates /\ \A k \in Keys, v \in Values : Entry(k, v) \in SlotStates
  BY DEF SlotStates
<1>5. ASSUME NEW e \in SlotStates, e.state = "occupied"
      PROVE  e.key \in Keys /\ e.val \in Values /\ e = Entry(e.key, e.val)
  <2>1. PICK k \in Keys, v \in Values : e = Entry(k, v)
    BY <1>1, <1>5 DEF SlotStates
  <2>2. QED
    BY <1>2, <2>1
<1>6. QED
  BY <1>1, <1>2, <1>3, <1>4, <1>5

Occupies(table, s) == table[s].state = "occupied"

\* The places before the i-th are all taken, if only by tombstones.
NoGap(table, cap, k, i) ==
  \A j \in 0 .. i - 1 : table[Probe(cap, k, j)].state # "empty"

\* A key is in one slot at most, and without a gap before it.
OneSlot(table, cap) ==
  \A s, r \in 0 .. cap - 1 :
    Occupies(table, s) /\ Occupies(table, r) /\ table[s].key = table[r].key => s = r
Reached(table, cap) ==
  \A s \in 0 .. cap - 1 :
    Occupies(table, s) =>
      \E i \in Nat : Probe(cap, table[s].key, i) = s /\ NoGap(table, cap, table[s].key, i)

GoodTable(table, cap) ==
  /\ cap \in Positive
  /\ table \in [0 .. cap - 1 -> SlotStates]
  /\ OneSlot(table, cap) /\ Reached(table, cap)

\* The key and its value are in the table.
Has(table, cap, k, v) == \E s \in 0 .. cap - 1 : table[s] = Entry(k, v)

\* Collection.capacity is the number of slots.
LEMMA CapIs ==
  ASSUME NEW cap \in Positive, NEW table, DOMAIN table = 0 .. cap - 1
  PROVE  Cap(table) = cap
<1>1. 0 \in Int /\ cap - 1 \in Int /\ ~(0 > cap - 1) /\ (cap - 1) - 0 + 1 = cap
  BY DEF Positive
<1>2. Cardinality(0 .. cap - 1) = cap
  BY <1>1, FS_Interval
<1>3. QED
  BY <1>2 DEF Cap

\* What a lookup comes to without a gap it comes to within the bound of Map_get's
\* loop.
LEMMA Nearest ==
  ASSUME NEW cap \in Positive, NEW table, NEW k \in Keys, NEW i \in Nat, NoGap(table, cap, k, i)
  PROVE  \E m \in 0 .. cap - 1 : Probe(cap, k, m) = Probe(cap, k, i) /\ NoGap(table, cap, k, m)
<1> DEFINE T == {m \in 0 .. i : Probe(cap, k, m) = Probe(cap, k, i)}
<1>1. i \in T /\ T \subseteq Nat
  OBVIOUS
<1>2. PICK m \in T : \A j \in T : m <= j
  BY <1>1, LeastNumber
<1>3. m \in Nat /\ m <= i /\ Probe(cap, k, m) = Probe(cap, k, i)
  BY <1>1
<1>4. m < cap
  <2> SUFFICES ASSUME cap <= m PROVE FALSE
    BY <1>3 DEF Positive
  <2>1. m - cap \in Nat /\ Probe(cap, k, m - cap) = Probe(cap, k, m)
    BY <1>3, ProbeBack
  <2>2. m - cap \in T /\ m - cap < m
    BY <1>3, <2>1 DEF Positive
  <2>3. QED
    BY <1>2, <1>3, <2>1, <2>2
<1>5. NoGap(table, cap, k, m)
  BY <1>3 DEF NoGap
<1>6. QED
  BY <1>3, <1>4, <1>5 DEF Positive

\* Map_get finds a key where it is.
LEMMA FindsHeld ==
  ASSUME NEW table, NEW cap, GoodTable(table, cap), NEW s \in 0 .. cap - 1, Occupies(table, s)
  PROVE  /\ Hits(table, table[s].key) # {}
         /\ Probe(cap, table[s].key, Least(Hits(table, table[s].key))) = s
<1> DEFINE k == table[s].key
           H == Hits(table, k)
<1>1. cap \in Positive /\ DOMAIN table = 0 .. cap - 1 /\ Cap(table) = cap
  BY CapIs DEF GoodTable
<1>2. k \in Keys
  BY SlotKinds DEF GoodTable, Occupies
<1>3. PICK i \in Nat : Probe(cap, k, i) = s /\ NoGap(table, cap, k, i)
  BY DEF GoodTable, Reached
<1>4. PICK m \in 0 .. cap - 1 : Probe(cap, k, m) = s /\ NoGap(table, cap, k, m)
  BY <1>1, <1>2, <1>3, Nearest
<1>5. H = {n \in 0 .. cap - 1 : Holds(table, k, Probe(cap, k, n)) /\ NoGap(table, cap, k, n)}
  BY <1>1 DEF Hits, NoGap
<1>6. m \in H
  BY <1>4, <1>5 DEF Holds, Occupies
<1>7. \A n \in H : Probe(cap, k, n) = s
  <2> SUFFICES ASSUME NEW n \in H PROVE Probe(cap, k, n) = s
    OBVIOUS
  <2>1. n \in Nat /\ Holds(table, k, Probe(cap, k, n))
    BY <1>5
  <2>2. Probe(cap, k, n) \in 0 .. cap - 1
    BY <1>1, <1>2, <2>1, ProbeType
  <2>3. QED
    BY <2>1, <2>2 DEF GoodTable, OneSlot, Holds, Occupies
<1>8. Least(H) \in H
  <2>1. H \subseteq Nat
    BY <1>5
  <2>2. \E n \in H : \A j \in H : n <= j
    BY <1>6, <2>1, LeastNumber
  <2>3. QED
    BY <2>2 DEF Least
<1>9. QED
  BY <1>6, <1>7, <1>8

\* Map_get finds nothing where nothing is.
LEMMA FindsOnlyHeld ==
  ASSUME NEW table, NEW cap, GoodTable(table, cap), NEW k \in Keys, Hits(table, k) # {}
  PROVE  \E s \in 0 .. cap - 1 : Occupies(table, s) /\ table[s].key = k
<1>1. cap \in Positive /\ DOMAIN table = 0 .. cap - 1 /\ Cap(table) = cap
  BY CapIs DEF GoodTable
<1>2. PICK i \in 0 .. cap - 1 : Holds(table, k, Probe(cap, k, i))
  BY <1>1 DEF Hits
<1>3. Probe(cap, k, i) \in 0 .. cap - 1
  BY <1>1, ProbeType
<1>4. QED
  BY <1>2, <1>3 DEF Holds, Occupies

SlotsOK == GoodTable(slots, Cap(slots))

\* Map_get returns the value that is in the table with the key, and 0 when there
\* is none.
LEMMA GetIs ==
  ASSUME SlotsOK, NEW k \in Keys
  PROVE  /\ Get(k) \in Values \cup {0}
         /\ \A v \in Values : Get(k) = v <=> Has(slots, Cap(slots), k, v)
<1> DEFINE cap == Cap(slots)
<1>0. GoodTable(slots, cap) /\ 0 \notin Values
  BY HashMapAssumption DEF SlotsOK
<1> HIDE DEF cap
<1>1. CASE Found(k)
  <2>1. PICK s \in 0 .. cap - 1 : Occupies(slots, s) /\ slots[s].key = k
    BY <1>0, <1>1, FindsOnlyHeld DEF Found
  <2>2. Probe(cap, k, Least(Hits(slots, k))) = s
    BY <1>0, <2>1, FindsHeld
  <2>3. Get(k) = slots[s].val
    BY <1>1, <2>2 DEF Get, FoundAt, cap
  <2>4. slots[s] \in SlotStates
    BY <1>0 DEF GoodTable
  <2>5. slots[s].val \in Values /\ slots[s] = Entry(k, slots[s].val)
    BY <2>1, <2>4, SlotKinds DEF Occupies
  <2>6. ASSUME NEW v \in Values, Has(slots, cap, k, v) PROVE Get(k) = v
    <3>1. PICK r \in 0 .. cap - 1 : slots[r] = Entry(k, v)
      BY <2>6 DEF Has
    <3>2. slots[r].state = "occupied" /\ slots[r].key = k /\ slots[r].val = v
      BY <3>1, SlotKinds
    <3>3. r = s
      BY <1>0, <2>1, <3>2 DEF GoodTable, OneSlot, Occupies
    <3>4. QED
      BY <2>3, <3>2, <3>3
  <2>7. Has(slots, cap, k, Get(k))
    BY <2>3, <2>5 DEF Has
  <2>8. QED
    BY <2>3, <2>5, <2>6, <2>7 DEF cap
<1>2. CASE ~Found(k)
  <2>1. Get(k) = 0
    BY <1>2 DEF Get
  <2>2. ASSUME NEW v \in Values, Has(slots, cap, k, v) PROVE FALSE
    <3>1. PICK r \in 0 .. cap - 1 : slots[r] = Entry(k, v)
      BY <2>2 DEF Has
    <3>2. Occupies(slots, r) /\ slots[r].key = k
      BY <3>1, SlotKinds DEF Occupies
    <3>3. Hits(slots, k) # {}
      BY <1>0, <3>2, FindsHeld
    <3>4. QED
      BY <1>2, <3>3 DEF Found
  <2>3. QED
    BY <1>0, <2>1, <2>2 DEF cap
<1>3. QED
  BY <1>1, <1>2

-----------------------------------------------------------------------------
(* Insertions and the rehash *)

\* The new table has what the old one has, and one entry more.
Gains(new, table, cap, k, v) ==
  \A l \in Keys, w \in Values :
    Has(new, cap, l, w) <=> Has(table, cap, l, w) \/ (l = k /\ w = v)

\* An entry that is written to a place before any gap, where no other one is,
\* makes a good table with one more key.
LEMMA PutGood ==
  ASSUME NEW table, NEW cap, GoodTable(table, cap), NEW k \in Keys, NEW v \in Values,
         NEW i \in Nat, NoGap(table, cap, k, i), ~Occupies(table, Probe(cap, k, i)),
         \A s \in 0 .. cap - 1 : ~Holds(table, k, s),
         NEW new, new = [table EXCEPT ![Probe(cap, k, i)] = Entry(k, v)]
  PROVE  GoodTable(new, cap) /\ Gains(new, table, cap, k, v)
<1> DEFINE r == Probe(cap, k, i)
<1>1. cap \in Positive /\ table \in [0 .. cap - 1 -> SlotStates] /\ OneSlot(table, cap) /\ Reached(table, cap)
  BY DEF GoodTable
<1>2. r \in 0 .. cap - 1
  BY <1>1, ProbeType
<1>3. /\ Entry(k, v) \in SlotStates /\ Entry(k, v).state = "occupied" /\ Entry(k, v).key = k
  BY SlotKinds
<1>4. new = [table EXCEPT ![r] = Entry(k, v)]
  OBVIOUS
<1>5. table[r].state # "occupied" /\ \A s \in 0 .. cap - 1 : table[s].state = "occupied" => table[s].key # k
  BY DEF Occupies, Holds
<1>6. Probe(cap, k, i) = r
  OBVIOUS
<1> HIDE DEF r
<1>7. /\ new \in [0 .. cap - 1 -> SlotStates] /\ new[r] = Entry(k, v)
      /\ \A s \in 0 .. cap - 1 : s # r => new[s] = table[s]
  BY <1>1, <1>2, <1>3, <1>4
<1>8. OneSlot(new, cap)
  BY <1>1, <1>3, <1>5, <1>7 DEF OneSlot, Occupies
<1>9. \A l \in Keys, n \in Nat : NoGap(table, cap, l, n) => NoGap(new, cap, l, n)
  <2> SUFFICES ASSUME NEW l \in Keys, NEW n \in Nat, NoGap(table, cap, l, n), NEW j \in 0 .. n - 1
               PROVE  new[Probe(cap, l, j)].state # "empty"
    BY DEF NoGap
  <2>0. j \in Nat
    OBVIOUS
  <2>1. Probe(cap, l, j) \in 0 .. cap - 1
    BY <1>1, <2>0, ProbeType
  <2>2. table[Probe(cap, l, j)].state # "empty"
    BY DEF NoGap
  <2>3. QED
    BY <1>3, <1>7, <2>1, <2>2
<1>10. Reached(new, cap)
  <2> SUFFICES ASSUME NEW s \in 0 .. cap - 1, Occupies(new, s)
               PROVE  \E n \in Nat : Probe(cap, new[s].key, n) = s /\ NoGap(new, cap, new[s].key, n)
    BY DEF Reached
  <2>1. CASE s = r
    BY <1>3, <1>6, <1>7, <1>9, <2>1
  <2>2. CASE s # r
    <3>1. new[s] = table[s] /\ Occupies(table, s)
      BY <1>7, <2>2 DEF Occupies
    <3>2. table[s].key \in Keys
      BY <1>1, <3>1, SlotKinds DEF Occupies
    <3>3. PICK n \in Nat : Probe(cap, table[s].key, n) = s /\ NoGap(table, cap, table[s].key, n)
      BY <1>1, <3>1 DEF Reached
    <3>4. QED
      BY <1>9, <3>1, <3>2, <3>3
  <2>3. QED
    BY <2>1, <2>2
<1>11. ASSUME NEW l \in Keys, NEW w \in Values
       PROVE  Has(new, cap, l, w) <=> Has(table, cap, l, w) \/ (l = k /\ w = v)
  <2>1. Entry(l, w) = Entry(k, v) <=> l = k /\ w = v
    BY SlotKinds
  <2>2. table[r] # Entry(l, w)
    BY <1>5, SlotKinds
  <2>3. Has(new, cap, l, w) => Has(table, cap, l, w) \/ (l = k /\ w = v)
    BY <1>7, <2>1 DEF Has
  <2>4. Has(table, cap, l, w) \/ (l = k /\ w = v) => Has(new, cap, l, w)
    BY <1>2, <1>7, <2>1, <2>2 DEF Has
  <2>5. QED
    BY <2>3, <2>4
<1>12. QED
  BY <1>1, <1>7, <1>8, <1>10, <1>11 DEF GoodTable, Gains

\* The loop of rehash finds a slot for an entry as long as one is free.
LEMMA PlaceGood ==
  ASSUME NEW table, NEW cap, GoodTable(table, cap), NEW k \in Keys, NEW v \in Values,
         \A s \in 0 .. cap - 1 : ~Holds(table, k, s),
         NEW f \in 0 .. cap - 1, ~Occupies(table, f),
         NEW new, new = PlaceEntry(table, Entry(k, v))
  PROVE  GoodTable(new, cap) /\ Gains(new, table, cap, k, v)
<1> DEFINE free == {i \in 0 .. cap - 1 : table[Probe(cap, k, i)].state # "occupied"}
           m == Least(free)
<1>1. cap \in Positive /\ DOMAIN table = 0 .. cap - 1 /\ Cap(table) = cap
  BY CapIs DEF GoodTable
<1>2. free # {} /\ free \subseteq Nat
  <2>1. PICK i \in 0 .. cap - 1 : Probe(cap, k, i) = f
    BY <1>1, ProbeAll
  <2>2. QED
    BY <2>1 DEF Occupies
<1>3. m \in free /\ \A i \in free : m <= i
  <2>1. \E n \in free : \A i \in free : n <= i
    BY <1>2, LeastNumber
  <2> HIDE DEF free
  <2>2. QED
    BY <2>1 DEF Least
<1>4. m \in Nat /\ m \in 0 .. cap - 1 /\ ~Occupies(table, Probe(cap, k, m))
  BY <1>3 DEF Occupies
<1>5. NoGap(table, cap, k, m)
  <2> SUFFICES ASSUME NEW j \in 0 .. m - 1 PROVE table[Probe(cap, k, j)].state # "empty"
    BY DEF NoGap
  <2>1. j \in 0 .. cap - 1 /\ ~(m <= j)
    BY <1>1, <1>4 DEF Positive
  <2>2. j \notin free
    BY <1>3, <2>1
  <2>3. QED
    BY <2>1, <2>2
<1>6. PlaceEntry(table, Entry(k, v)) = [table EXCEPT ![Probe(cap, k, m)] = Entry(k, v)]
  <2>1. Entry(k, v).state = "occupied" /\ Entry(k, v).key = k
    BY SlotKinds
  <2>2. QED
    BY <1>1, <2>1 DEF PlaceEntry
<1> HIDE DEF m
<1>7. PICK n \in Nat : n = m
  BY <1>4
<1>8. NoGap(table, cap, k, n) /\ ~Occupies(table, Probe(cap, k, n))
  BY <1>4, <1>5, <1>7
<1>9. new = [table EXCEPT ![Probe(cap, k, n)] = Entry(k, v)]
  BY <1>6, <1>7
<1>10. QED
  BY <1>8, <1>9, PutGood

\* A new slot array is empty.
LEMMA BlankGood ==
  ASSUME NEW cap \in Positive
  PROVE  /\ GoodTable(BlankTable(cap), cap)
         /\ \A k \in Keys, v \in Values : ~Has(BlankTable(cap), cap, k, v)
<1>1. BlankTable(cap) \in [0 .. cap - 1 -> SlotStates] /\ \A s \in 0 .. cap - 1 : BlankTable(cap)[s].state = "empty"
  BY SlotKinds DEF BlankTable
<1>2. QED
  BY <1>1, SlotKinds DEF GoodTable, OneSlot, Reached, Occupies, Has

\* The table rehash has filled from the first entries of the old one.
Filled(table, cap, i) ==
  LET filled[j \in 0 .. Cap(table)] ==
        IF j = 0 THEN BlankTable(cap) ELSE PlaceEntry(filled[j - 1], table[j - 1])
  IN  filled[i]

\* rehash's loop, unfolded: it begins with an empty table of the new size and
\* takes the old slots one after the other.
LEMMA FilledEq ==
  ASSUME NEW cap \in Positive, NEW table \in [0 .. cap - 1 -> SlotStates], NEW new \in Positive
  PROVE  /\ Rehashed(table, new) = Filled(table, new, cap)
         /\ Filled(table, new, 0) = BlankTable(new)
         /\ \A i \in 0 .. cap - 1 : Filled(table, new, i + 1) = PlaceEntry(Filled(table, new, i), table[i])
<1> DEFINE S == [0 .. new - 1 -> SlotStates]
           g == [p \in Nat \X S |-> IF p[1] \in 0 .. cap - 1 THEN PlaceEntry(p[2], table[p[1]]) ELSE p[2]]
           blank == BlankTable(new)
           Body(f) == [j \in 0 .. cap |-> IF j = 0 THEN blank ELSE PlaceEntry(f[j - 1], table[j - 1])]
           filled == CHOOSE f : f = Body(f)
<1>0. Cap(table) = cap
  BY CapIs
<1>1. g \in [Nat \X S -> S]
  <2>1. ASSUME NEW t \in S, NEW e \in SlotStates PROVE PlaceEntry(t, e) \in S
    <3>1. \A x : [t EXCEPT ![x] = e] \in S
      OBVIOUS
    <3> HIDE DEF S
    <3>2. QED
      BY <2>1, <3>1 DEF PlaceEntry
  <2>2. ASSUME NEW p \in Nat \X S, p[1] \in 0 .. cap - 1
        PROVE  PlaceEntry(p[2], table[p[1]]) \in S
    <3>1. p[2] \in S /\ table[p[1]] \in SlotStates
      BY <2>2
    <3> HIDE DEF S
    <3>2. QED
      BY <2>1, <3>1
  <2> HIDE DEF S
  <2>3. QED
    BY <2>2
<1>2. blank \in S
  BY BlankGood DEF GoodTable
<1> HIDE DEF blank
<1>3. PICK f \in [0 .. cap -> S] : IsIterate(f, cap, blank, g)
  <2> HIDE DEF g, S
  <2>1. cap \in Nat
    BY DEF Positive
  <2>2. QED
    BY <1>1, <1>2, <2>1, Recursion
<1>4. f = Body(f)
  <2>1. ASSUME NEW j \in 0 .. cap, j # 0
        PROVE  g[<<j - 1, f[j - 1]>>] = PlaceEntry(f[j - 1], table[j - 1])
    <3>1. j - 1 \in 0 .. cap - 1 /\ j - 1 \in 0 .. cap /\ j - 1 \in Nat
      BY <2>1 DEF Positive
    <3>2. f[j - 1] \in S
      BY <3>1
    <3> HIDE DEF S
    <3>3. <<j - 1, f[j - 1]>> \in Nat \X S
      BY <3>1, <3>2
    <3>4. QED
      BY <3>1, <3>3
  <2> HIDE DEF g, S
  <2>2. QED
    BY <1>3, <2>1 DEF IsIterate
<1>5. filled = Body(filled)
  <2> HIDE DEF Body
  <2>1. QED
    BY <1>4
<1>6. \A j \in 0 .. cap : filled[j] = IF j = 0 THEN blank ELSE PlaceEntry(filled[j - 1], table[j - 1])
  <2> HIDE DEF filled
  <2>1. QED
    BY <1>5
<1>7. \A i : Filled(table, new, i) = filled[i]
  BY <1>0 DEF Filled, blank
<1>8. Rehashed(table, new) = filled[cap]
  BY <1>0 DEF Rehashed, blank
<1> HIDE DEF filled, Body, g, S
<1>9. Filled(table, new, 0) = BlankTable(new)
  <2>1. 0 \in 0 .. cap
    BY DEF Positive
  <2>2. QED
    BY <1>6, <1>7, <2>1 DEF blank
<1>10. ASSUME NEW i \in 0 .. cap - 1
       PROVE  Filled(table, new, i + 1) = PlaceEntry(Filled(table, new, i), table[i])
  <2>1. i + 1 \in 0 .. cap /\ i + 1 # 0 /\ (i + 1) - 1 = i
    BY DEF Positive
  <2>2. QED
    BY <1>6, <1>7, <2>1
<1>11. QED
  BY <1>7, <1>8, <1>9, <1>10

\* In a table with more slots than it has taken entries from another, a slot is
\* free.
LEMMA SlotIsFree ==
  ASSUME NEW table, NEW new \in Positive, NEW t, GoodTable(t, new), NEW i \in Nat, i < new,
         \A s \in 0 .. new - 1 : Occupies(t, s) => \E r \in 0 .. i - 1 : table[r] = t[s]
  PROVE  \E f \in 0 .. new - 1 : ~Occupies(t, f)
<1> SUFFICES ASSUME \A s \in 0 .. new - 1 : Occupies(t, s) PROVE FALSE
  OBVIOUS
<1> DEFINE S == 0 .. new - 1
           T == 0 .. i - 1
           f == [s \in S |-> CHOOSE r \in T : table[r] = t[s]]
<1>1. \A s \in S : f[s] \in T /\ table[f[s]] = t[s]
  <2> SUFFICES ASSUME NEW s \in S PROVE f[s] \in T /\ table[f[s]] = t[s]
    OBVIOUS
  <2>1. \E r \in T : table[r] = t[s]
    OBVIOUS
  <2> HIDE DEF T
  <2>2. QED
    BY <2>1
<1>2. f \in [S -> T]
  <2>1. f = [s \in S |-> f[s]]
    OBVIOUS
  <2> HIDE DEF f, S, T
  <2>2. QED
    BY <1>1, <2>1
<1>3. /\ IsFiniteSet(S) /\ Cardinality(S) = new
      /\ IsFiniteSet(T) /\ Cardinality(T) = i
  <2>1. 0 \in Int /\ new - 1 \in Int /\ i - 1 \in Int /\ ~(0 > new - 1) /\ (0 > i - 1 <=> i = 0)
    BY DEF Positive
  <2>2. /\ IsFiniteSet(S) /\ Cardinality(S) = (new - 1) - 0 + 1
        /\ IsFiniteSet(T) /\ Cardinality(T) = IF i = 0 THEN 0 ELSE (i - 1) - 0 + 1
    BY <2>1, FS_Interval
  <2> HIDE DEF S, T
  <2>3. QED
    BY <2>2 DEF Positive
<1>4. PICK x \in S, y \in S : x # y /\ f[x] = f[y]
  <2> HIDE DEF f, S, T
  <2>1. QED
    BY <1>2, <1>3, FS_PigeonHole
<1>5. t[x] = t[y]
  BY <1>1, <1>4
<1>6. QED
  BY <1>4, <1>5 DEF GoodTable, OneSlot

\* rehash copies every entry, and nothing else, into a good table.
LEMMA RehashGood ==
  ASSUME NEW table, NEW cap, GoodTable(table, cap), NEW new \in Nat, cap <= new
  PROVE  /\ GoodTable(Rehashed(table, new), new)
         /\ \A k \in Keys, v \in Values : Has(Rehashed(table, new), new, k, v) <=> Has(table, cap, k, v)
<1> DEFINE Fill(i) == Filled(table, new, i)
           Copied(i) ==
             /\ GoodTable(Fill(i), new)
             /\ \A k \in Keys, v \in Values :
                  Has(Fill(i), new, k, v) <=> \E r \in 0 .. i - 1 : table[r] = Entry(k, v)
           T == {i \in 0 .. cap : Copied(i)}
<1>1. /\ cap \in Positive /\ new \in Positive /\ table \in [0 .. cap - 1 -> SlotStates]
      /\ OneSlot(table, cap)
  BY DEF GoodTable, Positive
<1>2. /\ Rehashed(table, new) = Fill(cap)
      /\ Fill(0) = BlankTable(new)
      /\ \A i \in 0 .. cap - 1 : Fill(i + 1) = PlaceEntry(Fill(i), table[i])
  BY <1>1, FilledEq
<1> HIDE DEF Fill
<1>3. 0 \in T
  <2>1. 0 \in 0 .. cap
    BY <1>1 DEF Positive
  <2>2. Copied(0)
    BY <1>1, <1>2, BlankGood
  <2>3. QED
    BY <2>1, <2>2
<1>4. ASSUME NEW i \in 0 .. cap - 1, i \in T
      PROVE  i + 1 \in T
  <2>1. i \in Nat /\ i + 1 \in 0 .. cap /\ i < new /\ (i + 1) - 1 = i
    BY <1>1 DEF Positive
  <2>2. PICK t : t = Fill(i)
    OBVIOUS
  <2>3. /\ GoodTable(t, new)
        /\ \A k \in Keys, v \in Values :
             Has(t, new, k, v) <=> \E r \in 0 .. i - 1 : table[r] = Entry(k, v)
    BY <1>4, <2>2
  <2>4. Fill(i + 1) = PlaceEntry(t, table[i]) /\ table[i] \in SlotStates
    BY <1>1, <1>2, <2>2
  <2>5. \A r : r \in 0 .. i <=> r \in 0 .. i - 1 \/ r = i
    BY <2>1
  <2>6. Copied(i + 1)
    <3>1. CASE table[i].state # "occupied"
      <4>1. Fill(i + 1) = t
        BY <2>4, <3>1 DEF PlaceEntry
      <4>2. \A k \in Keys, v \in Values : table[i] # Entry(k, v)
        BY <3>1, SlotKinds
      <4>3. QED
        BY <2>1, <2>3, <2>5, <4>1, <4>2
    <3>2. CASE table[i].state = "occupied"
      <4>1. PICK k \in Keys, v \in Values : table[i] = Entry(k, v)
        BY <2>4, <3>2, SlotKinds
      <4>2. ASSUME NEW s \in 0 .. new - 1, Occupies(t, s)
            PROVE  \E r \in 0 .. i - 1 : table[r] = t[s]
        <5>1. t[s].key \in Keys /\ t[s].val \in Values /\ t[s] = Entry(t[s].key, t[s].val)
          BY <2>3, <4>2, SlotKinds DEF GoodTable, Occupies
        <5>2. Has(t, new, t[s].key, t[s].val)
          BY <5>1 DEF Has
        <5>3. QED
          BY <2>3, <5>1, <5>2
      <4>3. PICK f \in 0 .. new - 1 : ~Occupies(t, f)
        BY <1>1, <2>1, <2>3, <4>2, SlotIsFree
      <4>4. ASSUME NEW s \in 0 .. new - 1, Holds(t, k, s)
            PROVE  FALSE
        <5>1. PICK r \in 0 .. i - 1 : table[r] = t[s]
          BY <4>2, <4>4 DEF Holds, Occupies
        <5>2. table[i].state = "occupied" /\ table[i].key = k
          BY <4>1, SlotKinds
        <5>3. r = i
          BY <1>1, <2>1, <4>4, <5>1, <5>2 DEF OneSlot, Occupies, Holds
        <5>4. QED
          BY <2>1, <5>3
      <4>5. PICK u : u = PlaceEntry(t, Entry(k, v))
        OBVIOUS
      <4>6. GoodTable(u, new) /\ Gains(u, t, new, k, v)
        BY <2>3, <4>3, <4>4, <4>5, PlaceGood
      <4>7. Fill(i + 1) = u
        BY <2>4, <4>1, <4>5
      <4>8. ASSUME NEW l \in Keys, NEW w \in Values
            PROVE  Has(u, new, l, w) <=> \E r \in 0 .. i : table[r] = Entry(l, w)
        <5>1. table[i] = Entry(l, w) <=> l = k /\ w = v
          BY <4>1, SlotKinds
        <5>2. QED
          BY <2>3, <2>5, <4>6, <5>1 DEF Gains
      <4>9. QED
        BY <2>1, <4>6, <4>7, <4>8
    <3>3. QED
      BY <3>1, <3>2
  <2>7. QED
    BY <2>1, <2>6
<1>5. cap \in T
  <2> HIDE DEF T
  <2>1. cap \in Nat /\ cap \in 0 .. cap
    BY <1>1 DEF Positive
  <2>2. QED
    BY <1>3, <1>4, <2>1, Induction
<1>6. Copied(cap)
  BY <1>5
<1>7. QED
  BY <1>2, <1>6 DEF Has

-----------------------------------------------------------------------------
(* The invariant of a map *)

\* The probe of Map_put has passed no empty slot and not its key, and knows a
\* tombstone it has passed, if any.
ProbeOK ==
  LET cap == Cap(slots)  k == arg.key IN
  /\ k \in Keys /\ arg.val \in Values
  /\ \E i \in Nat :
       /\ idx = Probe(cap, k, i) /\ NoGap(slots, cap, k, i)
       /\ \A j \in 0 .. i - 1 : ~Holds(slots, k, Probe(cap, k, j))
       /\ \/ firstDeleted = -1
          \/ \E j \in 0 .. i - 1 : firstDeleted = Probe(cap, k, j) /\ slots[firstDeleted].state = "deleted"

\* The keys that have a value.
Held == {k \in Keys : Get(k) # 0}

\* No call of the map is under way.
NoCall == [key |-> NoKey, val |-> 0]

\* What the caller has asked for.
ArgOK ==
  /\ pc = "idle" => arg = NoCall
  /\ pc = "probe" => arg.key \in Keys /\ arg.val \in Values
  /\ pc = "remove" => arg.key \in Keys /\ arg.val = 0

\* What holds in every state of a map.
MapInv ==
  /\ SlotsOK
  /\ pc \in {"idle", "probe", "remove"} /\ (pc = "probe" => ProbeOK) /\ ArgOK
  /\ IsFiniteSet(Held) /\ activeCount = Cardinality(Held)

\* What lookups return, before and after a step.
GetsAre ==
  \A k \in Keys :
    /\ Get(k) \in Values \cup {0}
    /\ \A v \in Values : Get(k) = v <=> Has(slots, Cap(slots), k, v)
SameGets == \A l \in Keys : Get(l)' = Get(l)
SetsGet(k, v) == \A l \in Keys : Get(l)' = IF l = k THEN v ELSE Get(l)

\* The call under way returns, and the answer is changed for its key alone.
Answered(k, v) == /\ k \in Keys /\ k = arg.key /\ v = arg.val /\ arg' = NoCall
                  /\ SetsGet(k, v)

\* Map_get answers every key by what is in the table.
LEMMA GetsKnown == SlotsOK => GetsAre
  BY GetIs DEF GetsAre

\* The same entries give the same answers.
LEMMA SameEntries ==
  ASSUME SlotsOK, SlotsOK',
         \A k \in Keys, v \in Values : Has(slots', Cap(slots)', k, v) <=> Has(slots, Cap(slots), k, v)
  PROVE  SameGets
<1>1. GetsAre
  BY GetsKnown
<1>2. SlotsOK' => GetsAre'
  BY GetsKnown, PTL
<1>3. ASSUME NEW k \in Keys
      PROVE  Get(k)' = Get(k)
  <2>1. /\ Get(k) \in Values \cup {0} /\ Get(k)' \in Values \cup {0}
        /\ \A v \in Values : Get(k)' = v <=> Get(k) = v
    BY <1>1, <1>2 DEF GetsAre
  <2>2. PICK a \in Values \cup {0}, b \in Values \cup {0} : a = Get(k) /\ b = Get(k)'
    BY <2>1
  <2>3. QED
    BY <2>1, <2>2
<1>4. QED
  BY <1>3 DEF SameGets

\* The same entries but those of one key give the same answers for the others.
LEMMA OtherEntries ==
  ASSUME SlotsOK, SlotsOK', NEW k \in Keys, NEW v \in Values \cup {0},
         \A l \in Keys, w \in Values :
           Has(slots', Cap(slots)', l, w) <=> IF l = k THEN w = v ELSE Has(slots, Cap(slots), l, w)
  PROVE  SetsGet(k, v)
<1>1. GetsAre
  BY GetsKnown
<1>2. SlotsOK' => GetsAre'
  BY GetsKnown, PTL
<1>3. ASSUME NEW l \in Keys
      PROVE  Get(l)' = IF l = k THEN v ELSE Get(l)
  <2>1. /\ Get(l) \in Values \cup {0} /\ Get(l)' \in Values \cup {0}
        /\ \A w \in Values : Get(l)' = w <=> IF l = k THEN w = v ELSE Get(l) = w
    BY <1>1, <1>2 DEF GetsAre
  <2>2. PICK a \in Values \cup {0}, b \in Values \cup {0} : a = Get(l) /\ b = Get(l)'
    BY <2>1
  <2>3. QED
    BY <2>1, <2>2
<1>4. QED
  BY <1>3 DEF SetsGet

\* A call that begins at the place its hash names has passed nothing.
LEMMA BeginsAnywhere ==
  ASSUME NEW k \in Keys, NEW v \in Values, SlotsOK', pc' = "probe",
         arg' = [key |-> k, val |-> v], idx' = Probe(Cap(slots'), k, 0), firstDeleted' = -1
  PROVE  ProbeOK'
<1>1. arg'.key = k /\ arg'.val = v
  OBVIOUS
<1>2. NoGap(slots', Cap(slots'), k, 0)
  BY DEF NoGap
<1>3. QED
  BY <1>1, <1>2 DEF ProbeOK

\* Map_put begins in the table as it is, refused growth included.
LEMMA CallStep ==
  ASSUME MapInv, NEW k \in Keys, NEW v \in Values, PutCall(k, v) \/ PutExhausted(k, v)
  PROVE  /\ SlotsOK' /\ pc' = "probe" /\ ProbeOK' /\ SameGets /\ activeCount' = activeCount
         /\ pc = "idle" /\ arg' = [key |-> k, val |-> v]
<1>1. /\ pc = "idle" /\ slots' = slots /\ pc' = "probe" /\ arg' = [key |-> k, val |-> v]
      /\ idx' = Probe(Cap(slots), k, 0) /\ firstDeleted' = -1 /\ activeCount' = activeCount
  BY DEF PutCall, PutExhausted, Begin
<1>2. SlotsOK'
  BY <1>1 DEF MapInv, SlotsOK
<1>3. SameGets
  BY <1>1, <1>2, SameEntries DEF MapInv
<1>4. QED
  BY <1>1, <1>2, <1>3, BeginsAnywhere

\* Map_put begins in a table twice as large, which holds the same entries.
LEMMA GrowStep ==
  ASSUME MapInv, NEW k \in Keys, NEW v \in Values, PutGrow(k, v)
  PROVE  /\ SlotsOK' /\ pc' = "probe" /\ ProbeOK' /\ SameGets /\ activeCount' = activeCount
         /\ pc = "idle" /\ arg' = [key |-> k, val |-> v]
<1>1. PICK cap : cap = Cap(slots)
  OBVIOUS
<1>2. GoodTable(slots, cap)
  BY <1>1 DEF MapInv, SlotsOK
<1>3. cap \in Positive /\ 2 * cap \in Nat /\ cap <= 2 * cap
  BY <1>2 DEF GoodTable, Positive
<1>4. PICK new : new = Rehashed(slots, 2 * cap)
  OBVIOUS
<1>5. /\ GoodTable(new, 2 * cap)
      /\ \A l \in Keys, w \in Values : Has(new, 2 * cap, l, w) <=> Has(slots, cap, l, w)
  BY <1>2, <1>3, <1>4, RehashGood
<1>6. /\ pc = "idle" /\ slots' = new /\ pc' = "probe" /\ arg' = [key |-> k, val |-> v]
      /\ idx' = Probe(Cap(new), k, 0) /\ firstDeleted' = -1 /\ activeCount' = activeCount
  BY <1>1, <1>4 DEF PutGrow, Begin
<1>7. Cap(new) = 2 * cap
  BY <1>5, CapIs DEF GoodTable
<1>8. SlotsOK' /\ Cap(slots)' = 2 * cap
  BY <1>5, <1>6, <1>7 DEF SlotsOK
<1>9. SameGets
  BY <1>1, <1>5, <1>6, <1>8, SameEntries DEF MapInv
<1>10. QED
  BY <1>6, <1>8, <1>9, BeginsAnywhere

\* The state of the probe, with rigid names.
LEMMA AtProbe ==
  ASSUME MapInv, pc = "probe"
  PROVE  \E cap \in Positive, k \in Keys, v \in Values, i \in Nat :
           /\ cap = Cap(slots) /\ k = arg.key /\ v = arg.val
           /\ GoodTable(slots, cap)
           /\ idx = Probe(cap, k, i) /\ idx \in 0 .. cap - 1 /\ NoGap(slots, cap, k, i)
           /\ \A j \in 0 .. i - 1 : ~Holds(slots, k, Probe(cap, k, j))
           /\ \/ firstDeleted = -1
              \/ \E j \in 0 .. i - 1 : firstDeleted = Probe(cap, k, j) /\ slots[firstDeleted].state = "deleted"
<1>1. GoodTable(slots, Cap(slots)) /\ Cap(slots) \in Positive /\ arg.key \in Keys /\ arg.val \in Values
  BY DEF MapInv, SlotsOK, GoodTable, ProbeOK
<1>2. PICK i \in Nat :
        /\ idx = Probe(Cap(slots), arg.key, i) /\ NoGap(slots, Cap(slots), arg.key, i)
        /\ \A j \in 0 .. i - 1 : ~Holds(slots, arg.key, Probe(Cap(slots), arg.key, j))
        /\ \/ firstDeleted = -1
           \/ \E j \in 0 .. i - 1 : firstDeleted = Probe(Cap(slots), arg.key, j) /\ slots[firstDeleted].state = "deleted"
  BY DEF MapInv, ProbeOK
<1>3. idx \in 0 .. Cap(slots) - 1
  BY <1>1, <1>2, ProbeType
<1>4. QED
  BY <1>1, <1>2, <1>3

\* The probe passes a slot.
LEMMA SkipStep ==
  ASSUME MapInv, PutSkip
  PROVE  /\ SlotsOK' /\ pc' = "probe" /\ ProbeOK' /\ SameGets /\ activeCount' = activeCount
         /\ pc = "probe" /\ arg' = arg
<1>1. /\ pc = "probe" /\ pc' = pc /\ slots' = slots /\ arg' = arg /\ activeCount' = activeCount
      /\ slots[idx].state # "empty" /\ ~Holds(slots, arg.key, idx)
      /\ firstDeleted' = IF slots[idx].state = "deleted" /\ firstDeleted = -1 THEN idx ELSE firstDeleted
      /\ idx' = (idx + 1) % Cap(slots)
  BY DEF PutSkip
<1>2. PICK cap \in Positive, k \in Keys, v \in Values, i \in Nat :
        /\ cap = Cap(slots) /\ k = arg.key /\ v = arg.val
        /\ GoodTable(slots, cap)
        /\ idx = Probe(cap, k, i) /\ idx \in 0 .. cap - 1 /\ NoGap(slots, cap, k, i)
        /\ \A j \in 0 .. i - 1 : ~Holds(slots, k, Probe(cap, k, j))
        /\ \/ firstDeleted = -1
           \/ \E j \in 0 .. i - 1 : firstDeleted = Probe(cap, k, j) /\ slots[firstDeleted].state = "deleted"
  BY <1>1, AtProbe
<1>3. SlotsOK' /\ Cap(slots') = cap
  BY <1>1, <1>2 DEF SlotsOK
<1>4. SameGets
  BY <1>1, <1>3, SameEntries DEF MapInv
<1>5. i + 1 \in Nat /\ \A j : j \in 0 .. (i + 1) - 1 <=> j \in 0 .. i - 1 \/ j = i
  OBVIOUS
<1>6. idx' = Probe(cap, k, i + 1)
  BY <1>1, <1>2, ProbeNext
<1>7. NoGap(slots', cap, k, i + 1) /\ \A j \in 0 .. (i + 1) - 1 : ~Holds(slots', k, Probe(cap, k, j))
  BY <1>1, <1>2, <1>5 DEF NoGap
<1>8. \/ firstDeleted' = -1
      \/ \E j \in 0 .. (i + 1) - 1 : firstDeleted' = Probe(cap, k, j) /\ slots'[firstDeleted'].state = "deleted"
  <2>1. CASE slots[idx].state = "deleted" /\ firstDeleted = -1
    BY <1>1, <1>2, <1>5, <2>1
  <2>2. CASE ~(slots[idx].state = "deleted" /\ firstDeleted = -1)
    BY <1>1, <1>2, <1>5, <2>2
  <2>3. QED
    BY <2>1, <2>2
<1>9. ProbeOK'
  BY <1>1, <1>2, <1>3, <1>5, <1>6, <1>7, <1>8 DEF ProbeOK
<1>10. QED
  BY <1>1, <1>3, <1>4, <1>9

\* The value of the key that is there changes.
LEMMA UpdateStep ==
  ASSUME MapInv, PutUpdate
  PROVE  /\ SlotsOK' /\ pc' = "idle" /\ activeCount' = activeCount
         /\ \E k \in Keys, v \in Values : Answered(k, v) /\ Get(k) # 0
<1>1. /\ pc = "probe" /\ pc' = "idle" /\ activeCount' = activeCount /\ arg' = NoCall
      /\ slots[idx].state = "occupied" /\ slots[idx].key = arg.key
      /\ slots' = [slots EXCEPT ![idx].val = arg.val]
  BY DEF PutUpdate, Return, Holds, NoCall
<1>2. PICK cap \in Positive, k \in Keys, v \in Values, i \in Nat :
        /\ cap = Cap(slots) /\ k = arg.key /\ v = arg.val
        /\ GoodTable(slots, cap)
        /\ idx = Probe(cap, k, i) /\ idx \in 0 .. cap - 1
  BY <1>1, AtProbe
<1>3. slots \in [0 .. cap - 1 -> SlotStates] /\ OneSlot(slots, cap) /\ Reached(slots, cap)
  BY <1>2 DEF GoodTable
<1>4. PICK u \in Values : slots[idx] = Entry(k, u)
  BY <1>1, <1>2, <1>3, SlotKinds
<1>5. [slots[idx] EXCEPT !.val = v] = Entry(k, v)
  BY <1>4, SlotKinds
<1>6. PICK r, new : r \in 0 .. cap - 1 /\ r = idx /\ new = slots'
  BY <1>2
<1>7. new = [slots EXCEPT ![r] = Entry(k, v)]
  BY <1>1, <1>2, <1>5, <1>6
<1>8. Entry(k, v) \in SlotStates /\ Entry(k, v).state = "occupied" /\ Entry(k, v).key = k
  BY SlotKinds
<1>9. /\ new \in [0 .. cap - 1 -> SlotStates] /\ new[r] = Entry(k, v) /\ r \in 0 .. cap - 1
      /\ \A s \in 0 .. cap - 1 : s # r => new[s] = slots[s]
  BY <1>3, <1>6, <1>7, <1>8
<1>10. \A s \in 0 .. cap - 1 : new[s].state = slots[s].state /\ (slots[s].state = "occupied" => new[s].key = slots[s].key)
  BY <1>1, <1>2, <1>6, <1>8, <1>9
<1>11. OneSlot(new, cap)
  BY <1>3, <1>10 DEF OneSlot, Occupies
<1>12. Reached(new, cap)
  <2> SUFFICES ASSUME NEW s \in 0 .. cap - 1, Occupies(new, s)
               PROVE  \E n \in Nat : Probe(cap, new[s].key, n) = s /\ NoGap(new, cap, new[s].key, n)
    BY DEF Reached
  <2>1. Occupies(slots, s) /\ new[s].key = slots[s].key /\ slots[s].key \in Keys
    BY <1>3, <1>10, SlotKinds DEF Occupies
  <2>2. PICK n \in Nat : Probe(cap, slots[s].key, n) = s /\ NoGap(slots, cap, slots[s].key, n)
    BY <1>3, <2>1 DEF Reached
  <2>3. \A j \in 0 .. n - 1 : Probe(cap, slots[s].key, j) \in 0 .. cap - 1
    <3> SUFFICES ASSUME NEW j \in 0 .. n - 1 PROVE Probe(cap, slots[s].key, j) \in 0 .. cap - 1
      OBVIOUS
    <3>1. j \in Nat
      OBVIOUS
    <3>2. QED
      BY <2>1, <3>1, ProbeType
  <2>4. NoGap(new, cap, slots[s].key, n)
    BY <1>10, <2>2, <2>3 DEF NoGap
  <2>5. QED
    BY <2>1, <2>2, <2>4
<1>13. GoodTable(new, cap)
  BY <1>9, <1>11, <1>12 DEF GoodTable
<1>14. Cap(new) = cap
  BY <1>9, CapIs
<1>15. SlotsOK' /\ Cap(slots)' = cap
  BY <1>6, <1>13, <1>14 DEF SlotsOK
<1>16. ASSUME NEW l \in Keys, NEW w \in Values
       PROVE  Has(new, cap, l, w) <=> IF l = k THEN w = v ELSE Has(slots, cap, l, w)
  <2>1. Entry(l, w) = Entry(k, v) <=> l = k /\ w = v
    BY SlotKinds
  <2>2. slots[r] = Entry(l, w) => l = k
    <3>1. Entry(k, u).key = k /\ Entry(l, w).key = l
      BY SlotKinds
    <3>2. QED
      BY <1>4, <1>6, <3>1
  <2>3. CASE l = k
    <3>1. \A s \in 0 .. cap - 1 : new[s] = Entry(l, w) => s = r
      <4> SUFFICES ASSUME NEW s \in 0 .. cap - 1, new[s] = Entry(l, w) PROVE s = r
        OBVIOUS
      <4>1. new[s].state = "occupied" /\ new[s].key = k
        BY <2>3, SlotKinds
      <4>2. QED
        BY <1>8, <1>9, <1>11, <4>1 DEF OneSlot, Occupies
    <3>2. QED
      BY <1>9, <2>1, <2>3, <3>1 DEF Has
  <2>4. CASE l # k
    <3>1. new[r] # Entry(l, w) /\ slots[r] # Entry(l, w)
      BY <1>9, <2>1, <2>2, <2>4
    <3>2. QED
      BY <1>9, <2>4, <3>1 DEF Has
  <2>5. QED
    BY <2>3, <2>4
<1>17. SetsGet(k, v)
  BY <1>2, <1>6, <1>15, <1>16, OtherEntries DEF MapInv
<1>18. Get(k) # 0
  <2>1. Has(slots, Cap(slots), k, u)
    BY <1>2, <1>4 DEF Has
  <2>2. Get(k) = u
    BY <2>1, GetIs DEF MapInv
  <2>3. QED
    BY <2>2, HashMapAssumption
<1>19. Answered(k, v)
  BY <1>1, <1>2, <1>17 DEF Answered
<1>20. QED
  BY <1>1, <1>15, <1>18, <1>19

\* The probe ends at an empty slot: its key is in the table nowhere.
LEMMA NotThere ==
  ASSUME NEW table, NEW cap, GoodTable(table, cap), NEW k \in Keys, NEW i \in Nat,
         table[Probe(cap, k, i)].state = "empty",
         \A j \in 0 .. i - 1 : ~Holds(table, k, Probe(cap, k, j))
  PROVE  \A s \in 0 .. cap - 1 : ~Holds(table, k, s)
<1> SUFFICES ASSUME NEW s \in 0 .. cap - 1, Holds(table, k, s) PROVE FALSE
  OBVIOUS
<1>1. table[s].state = "occupied" /\ table[s].key = k
  BY DEF Holds
<1>2. PICK n \in Nat : Probe(cap, k, n) = s /\ NoGap(table, cap, k, n)
  BY <1>1 DEF GoodTable, Reached, Occupies
<1>3. n >= i
  <2> SUFFICES ASSUME n \in 0 .. i - 1 PROVE FALSE
    OBVIOUS
  <2>1. QED
    BY <1>2
<1>4. n # i
  BY <1>1, <1>2
<1>5. i \in 0 .. n - 1
  BY <1>3, <1>4
<1>6. QED
  BY <1>2, <1>5 DEF NoGap

\* The key is inserted, in a tombstone if one was passed.
LEMMA InsertStep ==
  ASSUME MapInv, PutInsert
  PROVE  /\ SlotsOK' /\ pc' = "idle" /\ activeCount' = activeCount + 1
         /\ \E k \in Keys, v \in Values : Answered(k, v) /\ Get(k) = 0
<1>1. /\ pc = "probe" /\ pc' = "idle" /\ activeCount' = activeCount + 1 /\ arg' = NoCall
      /\ slots[idx].state = "empty"
      /\ slots' = [slots EXCEPT ![IF firstDeleted = -1 THEN idx ELSE firstDeleted] = Entry(arg.key, arg.val)]
  BY DEF PutInsert, Return, NoCall
<1>2. PICK cap \in Positive, k \in Keys, v \in Values, i \in Nat :
        /\ cap = Cap(slots) /\ k = arg.key /\ v = arg.val
        /\ GoodTable(slots, cap)
        /\ idx = Probe(cap, k, i) /\ idx \in 0 .. cap - 1 /\ NoGap(slots, cap, k, i)
        /\ \A j \in 0 .. i - 1 : ~Holds(slots, k, Probe(cap, k, j))
        /\ \/ firstDeleted = -1
           \/ \E j \in 0 .. i - 1 : firstDeleted = Probe(cap, k, j) /\ slots[firstDeleted].state = "deleted"
  BY <1>1, AtProbe
<1>3. \A s \in 0 .. cap - 1 : ~Holds(slots, k, s)
  BY <1>1, <1>2, NotThere
<1>4. PICK n \in Nat :
        /\ NoGap(slots, cap, k, n) /\ ~Occupies(slots, Probe(cap, k, n))
        /\ slots' = [slots EXCEPT ![Probe(cap, k, n)] = Entry(k, v)]
  <2>1. CASE firstDeleted = -1
    BY <1>1, <1>2, <2>1 DEF Occupies
  <2>2. CASE firstDeleted # -1
    <3>1. PICK j \in 0 .. i - 1 : firstDeleted = Probe(cap, k, j) /\ slots[firstDeleted].state = "deleted"
      BY <1>2, <2>2
    <3>2. j \in Nat /\ NoGap(slots, cap, k, j)
      BY <1>2 DEF NoGap
    <3>3. QED
      BY <1>1, <1>2, <2>2, <3>1, <3>2 DEF Occupies
  <2>3. QED
    BY <2>1, <2>2
<1>5. PICK new : new = slots'
  OBVIOUS
<1>6. new = [slots EXCEPT ![Probe(cap, k, n)] = Entry(k, v)]
  BY <1>4, <1>5
<1>7. GoodTable(new, cap) /\ Gains(new, slots, cap, k, v)
  BY <1>2, <1>3, <1>4, <1>6, PutGood
<1>8. Cap(new) = cap
  BY <1>7, CapIs DEF GoodTable
<1>9. SlotsOK' /\ Cap(slots)' = cap
  BY <1>5, <1>7, <1>8 DEF SlotsOK
<1>10. \A w \in Values : ~Has(slots, cap, k, w)
  BY <1>3, SlotKinds DEF Has, Holds
<1>11. ASSUME NEW l \in Keys, NEW w \in Values
       PROVE  Has(new, cap, l, w) <=> IF l = k THEN w = v ELSE Has(slots, cap, l, w)
  BY <1>7, <1>10 DEF Gains
<1>12. SetsGet(k, v)
  BY <1>2, <1>5, <1>9, <1>11, OtherEntries DEF MapInv
<1>13. Get(k) = 0
  BY <1>2, <1>10, GetIs DEF MapInv
<1>14. Answered(k, v)
  BY <1>1, <1>2, <1>12 DEF Answered
<1>15. QED
  BY <1>1, <1>9, <1>13, <1>14

\* A removal leaves a tombstone: no other key is lost.
LEMMA RemoveStep ==
  ASSUME MapInv, RemoveFound
  PROVE  /\ SlotsOK' /\ pc' = "idle" /\ activeCount' = activeCount - 1
         /\ \E k \in Keys : Answered(k, 0) /\ Get(k) # 0
<1>0. PICK k \in Keys : k = arg.key /\ arg.val = 0
  BY DEF MapInv, ArgOK, RemoveFound
<1>1. /\ pc' = "idle" /\ activeCount' = activeCount - 1 /\ arg' = NoCall /\ Found(k)
      /\ slots' = [slots EXCEPT ![FoundAt(k)] = Tomb]
  BY <1>0 DEF RemoveFound, Return, NoCall
<1>2. PICK cap : cap = Cap(slots)
  OBVIOUS
<1>3. /\ GoodTable(slots, cap) /\ cap \in Positive /\ slots \in [0 .. cap - 1 -> SlotStates]
      /\ OneSlot(slots, cap) /\ Reached(slots, cap)
  BY <1>2 DEF MapInv, SlotsOK, GoodTable
<1>4. PICK r \in 0 .. cap - 1 : Occupies(slots, r) /\ slots[r].key = k
  BY <1>1, <1>3, FindsOnlyHeld DEF Found
<1>5. FoundAt(k) = r
  BY <1>2, <1>3, <1>4, FindsHeld DEF FoundAt
<1>6. PICK u \in Values : slots[r] = Entry(k, u)
  BY <1>3, <1>4, SlotKinds DEF Occupies
<1>7. PICK new : new = slots'
  OBVIOUS
<1>8. /\ new \in [0 .. cap - 1 -> SlotStates] /\ new[r].state = "deleted" /\ new[r] = Tomb
      /\ \A s \in 0 .. cap - 1 : s # r => new[s] = slots[s]
  <2>1. new = [slots EXCEPT ![r] = Tomb] /\ Tomb \in SlotStates /\ Tomb.state = "deleted"
    BY <1>1, <1>5, <1>7, SlotKinds
  <2>2. QED
    BY <1>3, <2>1
<1>9. OneSlot(new, cap)
  BY <1>3, <1>8 DEF OneSlot, Occupies
<1>10. \A l \in Keys, n \in Nat : NoGap(slots, cap, l, n) => NoGap(new, cap, l, n)
  <2> SUFFICES ASSUME NEW l \in Keys, NEW n \in Nat, NoGap(slots, cap, l, n), NEW j \in 0 .. n - 1
               PROVE  new[Probe(cap, l, j)].state # "empty"
    BY DEF NoGap
  <2>1. j \in Nat
    OBVIOUS
  <2>2. Probe(cap, l, j) \in 0 .. cap - 1
    BY <1>3, <2>1, ProbeType
  <2>3. slots[Probe(cap, l, j)].state # "empty"
    BY DEF NoGap
  <2>4. QED
    BY <1>8, <2>2, <2>3
<1>11. Reached(new, cap)
  <2> SUFFICES ASSUME NEW s \in 0 .. cap - 1, Occupies(new, s)
               PROVE  \E n \in Nat : Probe(cap, new[s].key, n) = s /\ NoGap(new, cap, new[s].key, n)
    BY DEF Reached
  <2>1. s # r
    BY <1>8 DEF Occupies
  <2>2. new[s] = slots[s] /\ Occupies(slots, s)
    BY <1>8, <2>1 DEF Occupies
  <2>3. slots[s].key \in Keys
    BY <1>3, <2>2, SlotKinds DEF Occupies
  <2>4. PICK n \in Nat : Probe(cap, slots[s].key, n) = s /\ NoGap(slots, cap, slots[s].key, n)
    BY <1>3, <2>2 DEF Reached
  <2>5. QED
    BY <1>10, <2>2, <2>3, <2>4
<1>12. GoodTable(new, cap)
  BY <1>3, <1>8, <1>9, <1>11 DEF GoodTable
<1>13. Cap(new) = cap
  BY <1>3, <1>8, CapIs
<1>14. SlotsOK' /\ Cap(slots)' = cap
  BY <1>7, <1>12, <1>13 DEF SlotsOK
<1>15. ASSUME NEW l \in Keys, NEW w \in Values
       PROVE  Has(new, cap, l, w) <=> IF l = k THEN w = 0 ELSE Has(slots, cap, l, w)
  <2>1. new[r] # Entry(l, w)
    BY <1>8, SlotKinds
  <2>2. slots[r] = Entry(l, w) => l = k
    <3>1. Entry(l, w).key = l
      BY SlotKinds
    <3>2. QED
      BY <1>4, <3>1
  <2>3. w # 0
    BY HashMapAssumption
  <2>4. CASE l = k
    <3>1. \A s \in 0 .. cap - 1 : slots[s] = Entry(l, w) => s = r
      <4> SUFFICES ASSUME NEW s \in 0 .. cap - 1, slots[s] = Entry(l, w) PROVE s = r
        OBVIOUS
      <4>1. slots[s].state = "occupied" /\ slots[s].key = k
        BY <2>4, SlotKinds
      <4>2. QED
        BY <1>3, <1>4, <4>1 DEF OneSlot, Occupies
    <3>2. ~Has(new, cap, l, w)
      BY <1>8, <2>1, <3>1 DEF Has
    <3>3. QED
      BY <2>3, <2>4, <3>2
  <2>5. CASE l # k
    BY <1>8, <2>1, <2>2, <2>5 DEF Has
  <2>6. QED
    BY <2>4, <2>5
<1>16. SetsGet(k, 0)
  BY <1>2, <1>7, <1>14, <1>15, OtherEntries DEF MapInv
<1>17. Get(k) # 0
  <2>1. Has(slots, Cap(slots), k, u)
    BY <1>2, <1>6 DEF Has
  <2>2. Get(k) = u
    BY <2>1, GetIs DEF MapInv
  <2>3. QED
    BY <2>2, HashMapAssumption
<1>18. Answered(k, 0)
  BY <1>0, <1>1, <1>16 DEF Answered
<1>19. QED
  BY <1>1, <1>14, <1>17, <1>18

\* A removal of a key that is not there changes nothing.
LEMMA NothingStep ==
  ASSUME MapInv, RemoveNothing
  PROVE  /\ SlotsOK' /\ pc' = "idle" /\ activeCount' = activeCount
         /\ SameGets /\ \E k \in Keys : Answered(k, 0)
<1>1. PICK k \in Keys : k = arg.key /\ arg.val = 0
  BY DEF MapInv, ArgOK, RemoveNothing
<1>2. /\ pc' = "idle" /\ activeCount' = activeCount /\ arg' = NoCall /\ slots' = slots /\ ~Found(k)
  BY <1>1 DEF RemoveNothing, Return, NoCall
<1>3. SlotsOK'
  BY <1>2 DEF MapInv, SlotsOK
<1>4. SameGets
  BY <1>2, <1>3, SameEntries DEF MapInv
<1>5. Get(k) = 0
  BY <1>2 DEF Get
<1>6. SetsGet(k, 0)
  BY <1>4, <1>5 DEF SameGets, SetsGet
<1>7. Answered(k, 0)
  BY <1>1, <1>2, <1>6 DEF Answered
<1>8. QED
  BY <1>2, <1>3, <1>4, <1>7

\* Map_remove is called.
LEMMA RemovalBegins ==
  ASSUME MapInv, NEW k \in Keys, RemoveCall(k)
  PROVE  /\ SlotsOK' /\ pc = "idle" /\ pc' = "remove" /\ activeCount' = activeCount
         /\ SameGets /\ arg' = [key |-> k, val |-> 0]
<1>1. /\ pc = "idle" /\ pc' = "remove" /\ activeCount' = activeCount /\ slots' = slots
      /\ arg' = [key |-> k, val |-> 0]
  BY DEF RemoveCall
<1>2. SlotsOK'
  BY <1>1 DEF MapInv, SlotsOK
<1>3. SameGets
  BY <1>1, <1>2, SameEntries DEF MapInv
<1>4. QED
  BY <1>1, <1>2, <1>3

-----------------------------------------------------------------------------
(* The theorems *)

\* size stays when no answer of Map_get changes.
LEMMA SizeSame ==
  ASSUME MapInv, SameGets, activeCount' = activeCount
  PROVE  IsFiniteSet(Held') /\ activeCount' = Cardinality(Held')
<1>1. Held' = Held
  BY DEF Held, SameGets
<1>2. QED
  BY <1>1 DEF MapInv

\* size stays when Map_put changes the value of a key that is there.
LEMMA SizeUpdated ==
  ASSUME MapInv, NEW k \in Keys, NEW v \in Values, Get(k) # 0, SetsGet(k, v), activeCount' = activeCount
  PROVE  IsFiniteSet(Held') /\ activeCount' = Cardinality(Held')
<1>1. v # 0
  BY HashMapAssumption
<1>2. Held' = Held
  BY <1>1 DEF Held, SetsGet
<1>3. QED
  BY <1>2 DEF MapInv

\* size goes up with a key that Map_put inserts.
LEMMA SizeGrown ==
  ASSUME MapInv, NEW k \in Keys, NEW v \in Values, Get(k) = 0, SetsGet(k, v), activeCount' = activeCount + 1
  PROVE  IsFiniteSet(Held') /\ activeCount' = Cardinality(Held')
<1>1. v # 0
  BY HashMapAssumption
<1>2. Held' = Held \cup {k} /\ k \notin Held
  BY <1>1 DEF Held, SetsGet
<1>3. QED
  BY <1>2, FS_AddElement DEF MapInv

\* size goes down with a key that Map_remove takes.
LEMMA SizeShrunk ==
  ASSUME MapInv, NEW k \in Keys, Get(k) # 0, SetsGet(k, 0), activeCount' = activeCount - 1
  PROVE  IsFiniteSet(Held') /\ activeCount' = Cardinality(Held')
<1>1. Held' = Held \ {k} /\ k \in Held
  BY DEF Held, SetsGet
<1>2. QED
  BY <1>1, FS_RemoveElement DEF MapInv

\* What a step of a map is to its caller: it takes a call, goes on with one, a rehash
\* included, or returns from it.
Effect ==
  \/ SameGets /\ arg = NoCall /\ arg' \in [key : Keys, val : Values \cup {0}]
  \/ SameGets /\ arg' = arg
  \/ \E k \in Keys, v \in Values \cup {0} : Answered(k, v)

\* Every step keeps the invariant, and changes no answer but that for the key of a
\* call that returns.
LEMMA MapStep ==
  ASSUME MapInv, [Next]_vars
  PROVE  MapInv' /\ Effect
<1>1. ASSUME NEW k \in Keys, NEW v \in Values, PutCall(k, v) \/ PutExhausted(k, v) \/ PutGrow(k, v)
      PROVE  MapInv' /\ Effect
  <2>1. /\ SlotsOK' /\ pc' = "probe" /\ ProbeOK' /\ SameGets /\ activeCount' = activeCount
        /\ pc = "idle" /\ arg' = [key |-> k, val |-> v]
    BY <1>1, CallStep, GrowStep
  <2>2. ArgOK' /\ arg = NoCall /\ arg' \in [key : Keys, val : Values \cup {0}]
    BY <2>1 DEF MapInv, ArgOK
  <2>3. QED
    BY <2>1, <2>2, SizeSame DEF MapInv, Effect
<1>2. CASE PutSkip
  <2>1. /\ SlotsOK' /\ pc' = "probe" /\ ProbeOK' /\ SameGets /\ activeCount' = activeCount
        /\ pc = "probe" /\ arg' = arg
    BY <1>2, SkipStep
  <2>2. ArgOK'
    BY <2>1 DEF MapInv, ArgOK
  <2>3. QED
    BY <2>1, <2>2, SizeSame DEF MapInv, Effect
<1>3. CASE PutUpdate
  <2>1. SlotsOK' /\ pc' = "idle" /\ activeCount' = activeCount
    BY <1>3, UpdateStep
  <2>2. PICK k \in Keys, v \in Values : Answered(k, v) /\ Get(k) # 0
    BY <1>3, UpdateStep
  <2>3. SetsGet(k, v) /\ arg' = NoCall
    BY <2>2 DEF Answered
  <2>4. IsFiniteSet(Held') /\ activeCount' = Cardinality(Held')
    BY <2>1, <2>2, <2>3, SizeUpdated
  <2>5. QED
    BY <2>1, <2>2, <2>3, <2>4 DEF MapInv, ArgOK, Effect
<1>4. CASE PutInsert
  <2>1. SlotsOK' /\ pc' = "idle" /\ activeCount' = activeCount + 1
    BY <1>4, InsertStep
  <2>2. PICK k \in Keys, v \in Values : Answered(k, v) /\ Get(k) = 0
    BY <1>4, InsertStep
  <2>3. SetsGet(k, v) /\ arg' = NoCall
    BY <2>2 DEF Answered
  <2>4. IsFiniteSet(Held') /\ activeCount' = Cardinality(Held')
    BY <2>1, <2>2, <2>3, SizeGrown
  <2>5. QED
    BY <2>1, <2>2, <2>3, <2>4 DEF MapInv, ArgOK, Effect
<1>5. ASSUME NEW k \in Keys, RemoveCall(k)
      PROVE  MapInv' /\ Effect
  <2>1. /\ SlotsOK' /\ pc = "idle" /\ pc' = "remove" /\ activeCount' = activeCount
        /\ SameGets /\ arg' = [key |-> k, val |-> 0]
    BY <1>5, RemovalBegins
  <2>2. ArgOK' /\ arg = NoCall /\ arg' \in [key : Keys, val : Values \cup {0}]
    BY <2>1 DEF MapInv, ArgOK
  <2>3. QED
    BY <2>1, <2>2, SizeSame DEF MapInv, Effect
<1>6. CASE RemoveFound
  <2>1. SlotsOK' /\ pc' = "idle" /\ activeCount' = activeCount - 1
    BY <1>6, RemoveStep
  <2>2. PICK k \in Keys : Answered(k, 0) /\ Get(k) # 0
    BY <1>6, RemoveStep
  <2>3. SetsGet(k, 0) /\ arg' = NoCall
    BY <2>2 DEF Answered
  <2>4. IsFiniteSet(Held') /\ activeCount' = Cardinality(Held')
    BY <2>1, <2>2, <2>3, SizeShrunk
  <2>5. QED
    BY <2>1, <2>2, <2>3, <2>4 DEF MapInv, ArgOK, Effect
<1>7. CASE RemoveNothing
  <2>1. SlotsOK' /\ pc' = "idle" /\ activeCount' = activeCount /\ SameGets
    BY <1>7, NothingStep
  <2>2. PICK k \in Keys : Answered(k, 0)
    BY <1>7, NothingStep
  <2>3. arg' = NoCall
    BY <2>2 DEF Answered
  <2>4. QED
    BY <2>1, <2>2, <2>3, SizeSame DEF MapInv, ArgOK, Effect
<1>8. CASE UNCHANGED vars
  <2>1. SlotsOK' /\ pc' = pc /\ arg' = arg /\ activeCount' = activeCount
    BY <1>8 DEF vars, MapInv, SlotsOK
  <2>2. (ProbeOK' <=> ProbeOK) /\ (ArgOK' <=> ArgOK)
    BY <1>8 DEF vars, ProbeOK, ArgOK
  <2>3. SameGets
    BY <1>8, <2>1, SameEntries DEF vars, MapInv
  <2>4. QED
    BY <2>1, <2>2, <2>3, SizeSame DEF MapInv, Effect
<1>9. QED
  BY <1>1, <1>2, <1>3, <1>4, <1>5, <1>6, <1>7, <1>8 DEF Next

\* A new map is empty.
LEMMA MapInit == Init => MapInv /\ arg = NoCall /\ \A k \in Keys : Get(k) = 0
<1> SUFFICES ASSUME Init PROVE MapInv /\ arg = NoCall /\ \A k \in Keys : Get(k) = 0
  OBVIOUS
<1>1. slots = BlankTable(FirstCap) /\ activeCount = 0 /\ pc = "idle" /\ arg = NoCall /\ FirstCap \in Positive
  BY HashMapAssumption DEF Init, Positive, NoCall
<1>2. GoodTable(slots, FirstCap) /\ \A k \in Keys, v \in Values : ~Has(slots, FirstCap, k, v)
  BY <1>1, BlankGood
<1>3. Cap(slots) = FirstCap
  BY <1>1, <1>2, CapIs DEF GoodTable
<1>4. SlotsOK
  BY <1>2, <1>3 DEF SlotsOK
<1>5. \A k \in Keys : Get(k) = 0
  BY <1>2, <1>3, <1>4, GetIs
<1>6. Held = {}
  BY <1>5 DEF Held
<1>7. QED
  BY <1>1, <1>4, <1>5, <1>6, FS_EmptySet DEF MapInv, ArgOK

\* In every state a key is in one slot at most, with no empty slot between the one
\* its hash names and its own, size is the number of keys with a value, and a put
\* under way has passed no empty slot, not its key, and the tombstone it remembers:
\* whatever the puts, removals, rehashes and refused rehashes of map.c before.
THEOREM MapIsSound == Spec => []MapInv
<1>1. MapInv /\ [Next]_vars => MapInv'
  BY MapStep
<1>2. QED
  BY <1>1, MapInit, PTL DEF Spec

\* Collection.activeCount, which Map_put and Map_remove count up and down, is the
\* number of keys that Map_get finds a value for.
THEOREM SizeCountsKeys == Spec => []SizeIsKeys
<1>1. MapInv => SizeIsKeys
  BY DEF MapInv, SizeIsKeys, Held
<1>2. QED
  BY <1>1, MapIsSound, PTL

\* Map_get and Map_remove find every occupied slot by its key: removals leave
\* tombstones, a put reuses the first of them only when the key is nowhere else, and
\* rehash copies every entry to a place its probe comes to.
THEOREM KeysAreReachable == Spec => []EveryKeyIsReachable
<1>1. MapInv => EveryKeyIsReachable
  <2> SUFFICES ASSUME MapInv, NEW s \in Occupied
               PROVE  Found(slots[s].key) /\ FoundAt(slots[s].key) = s
    BY DEF EveryKeyIsReachable
  <2>1. GoodTable(slots, Cap(slots)) /\ DOMAIN slots = 0 .. Cap(slots) - 1
    BY DEF MapInv, SlotsOK, GoodTable
  <2>2. s \in 0 .. Cap(slots) - 1 /\ Occupies(slots, s)
    BY <2>1 DEF Occupied, Occupies
  <2>3. QED
    BY <2>1, <2>2, FindsHeld DEF Found, FoundAt
<1>2. QED
  BY <1>1, MapIsSound, PTL

\* A step of the map is a step of the dictionary or a stutter.
LEMMA EffectIsDictionary ==
  Effect => [AbstractDictionary!Next]_<<[k \in Keys |-> Get(k)], arg>>
<1> SUFFICES ASSUME Effect PROVE [AbstractDictionary!Next]_<<[k \in Keys |-> Get(k)], arg>>
  OBVIOUS
<1> DEFINE map == [k \in Keys |-> Get(k)]
<1>1. SameGets => map' = map
  BY DEF SameGets
<1>2. AbstractDictionary!NoCall = NoCall
  BY DEF AbstractDictionary!NoCall, NoCall
<1>3. CASE SameGets /\ arg = NoCall /\ arg' \in [key : Keys, val : Values \cup {0}]
  <2>1. AbstractDictionary!Ask
    BY <1>1, <1>2, <1>3 DEF AbstractDictionary!Ask
  <2>2. QED
    BY <2>1 DEF AbstractDictionary!Next
<1>4. CASE SameGets /\ arg' = arg
  BY <1>1, <1>4
<1>5. ASSUME NEW k \in Keys, NEW v \in Values \cup {0}, Answered(k, v)
      PROVE  AbstractDictionary!Next
  <2>1. /\ k = arg.key /\ v = arg.val /\ arg' = NoCall /\ SetsGet(k, v)
    BY <1>5 DEF Answered
  <2>2. map' = [map EXCEPT ![arg.key] = arg.val]
    BY <2>1 DEF SetsGet
  <2>3. arg # NoCall
    BY <2>1, HashMapAssumption DEF NoCall
  <2>4. AbstractDictionary!Done
    BY <1>2, <2>1, <2>2, <2>3 DEF AbstractDictionary!Done
  <2>5. QED
    BY <2>4 DEF AbstractDictionary!Next
<1>6. QED
  BY <1>3, <1>4, <1>5 DEF Effect

\* A map is a dictionary to its callers: when Map_put returns, the answer for the key
\* it was called with is the value it was called with, when Map_remove returns there
\* is none, and no other answer changes then, nor any at all while a call goes on,
\* whatever entries its rehash moves.
THEOREM MapImplementsDictionary == Spec => ImplementsDictionary
<1>1. Init => AbstractDictionary!Init
  BY MapInit DEF AbstractDictionary!Init, AbstractDictionary!NoCall, NoCall
<1>2. MapInv /\ [Next]_vars => [AbstractDictionary!Next]_<<[k \in Keys |-> Get(k)], arg>>
  BY MapStep, EffectIsDictionary
<1>3. QED
  BY <1>1, <1>2, MapIsSound, PTL DEF Spec, ImplementsDictionary, AbstractDictionary!Spec

-----------------------------------------------------------------------------
(* The time that the engine counts *)

\* What Loop_run knows where it is, and what the ticks have used up.
LoopInv ==
  /\ mono \in Nat /\ prev \in Nat /\ began \in Nat /\ acc \in Nat /\ ticks \in Nat /\ late \in Nat
  /\ running \in BOOLEAN /\ stalled \in BOOLEAN
  /\ phase \in {"out", "test", "step", "clamp"} /\ steps \in 0 .. 4
  /\ began <= prev /\ prev <= mono
  /\ ticks * Frame + acc <= prev - began
  /\ ~stalled => ticks * Frame + acc = prev - began
  /\ phase = "test" /\ running => acc < Frame
  /\ phase = "step" /\ ~stalled => acc + steps * Frame < 4 * Frame
  /\ phase = "clamp" /\ running => acc < Frame \/ steps = 4
  /\ phase = "clamp" /\ ~stalled => steps < 4
  /\ late <= 1 /\ (running \/ phase = "step" => late = 0)

\* What a clock and its timer have counted up to the tick before.
ClockInv ==
  /\ watch \in {"clock", "loop"} /\ mono \in Nat /\ due \in Nat /\ scans \in Nat /\ stale \in BOOLEAN
  /\ dial \in [scale : Nat, paused : BOOLEAN, last : Nat, virtual : Nat]
  /\ timer \in [current : Nat, total : Nat]
  /\ dial.last = timer.current /\ timer.current <= mono
  /\ 2 * dial.virtual <= timer.total /\ timer.total - 2 * dial.virtual <= scans
  /\ watch = "clock" /\ ~stale => due = timer.total + (mono - timer.current) * Rate(dial)
  /\ watch = "loop" => due = 0 /\ timer.total = 0

TimeInv == LoopInv /\ ClockInv

\* A product of a number and frame_ms, and half of one.
LEMMA Products ==
  ASSUME NEW a \in Nat, NEW b \in Nat
  PROVE  /\ a * b \in Nat /\ (a + 1) * b = a * b + b
         /\ (a * b) \div 2 \in Nat
         /\ 2 * ((a * b) \div 2) <= a * b /\ a * b - 2 * ((a * b) \div 2) <= 1
<1>1. a * b \in Nat /\ (a + 1) * b = a * b + b
  OBVIOUS
<1>2. PICK n \in Nat : n = a * b
  BY <1>1
<1>3. n \div 2 \in Nat /\ 2 * (n \div 2) <= n /\ n - 2 * (n \div 2) <= 1
  OBVIOUS
<1>4. QED
  BY <1>1, <1>2, <1>3

\* A pass begins: Loop_run adds what went by to the accumulator.
LEMMA SampleKeeps == LoopInv /\ Sample => LoopInv'
<1> SUFFICES ASSUME LoopInv, Sample PROVE LoopInv'
  OBVIOUS
<1>1. /\ phase = "test" /\ phase' = "step" /\ mono' = mono /\ running /\ running' = running
      /\ acc' = acc + mono - prev /\ prev' = mono /\ steps' = 0
      /\ stalled' = (stalled \/ acc + mono - prev >= 4 * Frame)
      /\ ticks' = ticks /\ began' = began /\ late' = late
  BY DEF Sample, Goto
<1>2. PICK u \in Nat : u = ticks * Frame
  BY Products, TimingAssumption DEF LoopInv
<1>3. PICK f \in Nat : f = Frame /\ 4 * Frame = 4 * f /\ 0 * Frame = 0
  BY TimingAssumption
<1>4. ticks' * Frame = u /\ steps' * Frame = 0
  BY <1>1, <1>2, <1>3
<1>5. PICK a \in Nat : a = acc + mono - prev
  BY DEF LoopInv
<1>6. acc' = a /\ stalled' = (stalled \/ a >= 4 * Frame)
  BY <1>1, <1>5
<1>7. u + a <= prev' - began' /\ (~stalled => u + a = prev' - began')
  <2>1. u + acc <= prev - began /\ (~stalled => u + acc = prev - began)
    BY <1>2 DEF LoopInv
  <2>2. QED
    BY <1>1, <1>5, <2>1 DEF LoopInv
<1>8. ~stalled' => a < 4 * Frame
  <2>1. ~stalled' => ~(a >= 4 * Frame)
    BY <1>6
  <2>2. QED
    BY <1>3, <2>1
<1>9. QED
  BY <1>1, <1>3, <1>4, <1>6, <1>7, <1>8 DEF LoopInv

\* One step of a pass: frame_ms are used up by a tick.
LEMMA StepKeeps == ASSUME LoopInv, NEW stops \in BOOLEAN, StepOnce(stops) PROVE LoopInv'
<1>1. /\ phase = "step" /\ phase' = IF running /\ ~stops THEN "step" ELSE "clamp"
      /\ mono' = mono /\ running' = (running /\ ~stops)
      /\ acc >= Frame /\ steps < 4
      /\ acc' = acc - Frame /\ steps' = steps + 1 /\ ticks' = ticks + 1
      /\ late' = (IF running THEN late ELSE late + 1)
      /\ prev' = prev /\ began' = began /\ stalled' = stalled
  BY DEF StepOnce, Goto
<1>2. PICK u \in Nat : u = ticks * Frame
  BY Products, TimingAssumption DEF LoopInv
<1>3. PICK w \in Nat : w = steps * Frame
  BY Products, TimingAssumption DEF LoopInv
<1>4. PICK f \in Nat : f = Frame /\ f # 0
  BY TimingAssumption
<1>5. ticks' * Frame = u + f /\ steps' * Frame = w + f
  BY <1>1, <1>2, <1>3, <1>4, Products DEF LoopInv
<1>6. acc' = acc - f /\ acc' \in Nat /\ acc' + f = acc
  BY <1>1, <1>4 DEF LoopInv
<1>7. /\ ticks' * Frame + acc' <= prev' - began'
      /\ ~stalled' => ticks' * Frame + acc' = prev' - began'
  BY <1>1, <1>2, <1>5, <1>6 DEF LoopInv
<1>8. ~stalled => acc + w < 4 * f
  BY <1>1, <1>3, <1>4 DEF LoopInv
<1>9. ~stalled' => acc' + steps' * Frame < 4 * Frame
  BY <1>1, <1>4, <1>5, <1>6, <1>8 DEF LoopInv
<1>10. steps = 3 => w = 3 * f
  BY <1>3, <1>4
<1>11. ~stalled' => steps' < 4
  <2>1. SUFFICES ASSUME ~stalled, steps = 3 PROVE FALSE
    BY <1>1 DEF LoopInv
  <2>2. acc + 3 * f < 4 * f /\ acc >= f /\ acc \in Nat
    BY <1>1, <1>4, <1>8, <1>10, <2>1 DEF LoopInv
  <2>3. QED
    BY <2>2
<1>12. late = 0 /\ late' \in 0 .. 1 /\ (running' => late' = 0) /\ (phase' = "step" => running)
  BY <1>1 DEF LoopInv
<1>13. late' \in Nat /\ late' <= 1 /\ (running' \/ phase' = "step" => late' = 0)
  BY <1>1, <1>12
<1>14. phase' \in {"step", "clamp"} /\ (phase' = "clamp" => ~running')
  BY <1>1
<1>15. mono' \in Nat /\ prev' \in Nat /\ began' \in Nat /\ ticks' \in Nat
       /\ running' \in BOOLEAN /\ stalled' \in BOOLEAN /\ steps' \in 0 .. 4
       /\ began' <= prev' /\ prev' <= mono'
  BY <1>1 DEF LoopInv
<1>16. QED
  BY <1>6, <1>7, <1>9, <1>11, <1>13, <1>14, <1>15 DEF LoopInv

\* The end of a pass: after four steps the rest of the backlog is dropped, and
\* that happens only when four were due.
LEMMA ClampKeeps == LoopInv /\ ClampBacklog => LoopInv'
<1> SUFFICES ASSUME LoopInv, ClampBacklog PROVE LoopInv'
  OBVIOUS
<1>1. /\ phase = "clamp" /\ phase' = "test" /\ mono' = mono /\ running' = running
      /\ acc' = IF steps = 4 THEN 0 ELSE acc
      /\ prev' = prev /\ steps' = steps /\ ticks' = ticks /\ began' = began
      /\ stalled' = stalled /\ late' = late
  BY DEF ClampBacklog, Goto
<1>2. PICK u \in Nat : u = ticks * Frame
  BY Products, TimingAssumption DEF LoopInv
<1>3. PICK f \in Nat : f = Frame /\ f # 0
  BY TimingAssumption
<1>4. acc' \in Nat /\ acc' <= acc /\ (running' => acc' < f) /\ (~stalled => acc' = acc)
  BY <1>1, <1>3 DEF LoopInv
<1>5. u + acc' <= prev' - began' /\ (~stalled' => u + acc' = prev' - began')
  BY <1>1, <1>2, <1>4 DEF LoopInv
<1>6. ticks' * Frame = u
  BY <1>1, <1>2
<1>7. QED
  BY <1>1, <1>3, <1>4, <1>5, <1>6 DEF LoopInv

\* Loop_run begins, finds the flag down, finds no step due, or is told to stop; or
\* a millisecond goes by.
LEMMA OtherKeeps ==
  LoopInv /\ (RunLoop \/ LeaveLoop \/ NoStep \/ StopLoop \/ Elapse) => LoopInv'
<1> SUFFICES ASSUME LoopInv, RunLoop \/ LeaveLoop \/ NoStep \/ StopLoop \/ Elapse PROVE LoopInv'
  OBVIOUS
<1>1. CASE RunLoop
  <2>1. /\ phase' = "test" /\ running' = TRUE /\ acc' = 0 /\ prev' = mono /\ mono' = mono
        /\ ticks' = 0 /\ began' = mono /\ stalled' = FALSE /\ late' = 0 /\ steps' = steps
    BY <1>1 DEF RunLoop, Goto
  <2>2. Frame \in Nat \ {0} /\ 0 * Frame = 0
    BY TimingAssumption
  <2>3. ticks' * Frame = 0 /\ acc' < Frame
    BY <2>1, <2>2
  <2>4. mono \in Nat /\ steps' \in 0 .. 4
    BY <2>1 DEF LoopInv
  <2>5. began' <= prev' /\ prev' <= mono' /\ prev' - began' = 0
    BY <2>1, <2>4
  <2>6. ticks' * Frame + acc' = prev' - began' /\ ticks' * Frame + acc' <= prev' - began'
    BY <2>1, <2>3, <2>5
  <2>7. /\ mono' \in Nat /\ prev' \in Nat /\ began' \in Nat /\ acc' \in Nat /\ ticks' \in Nat
        /\ late' \in Nat /\ late' <= 1 /\ late' = 0
        /\ phase' = "test"
    BY <2>1, <2>4
  <2>8. running' \in BOOLEAN /\ stalled' \in BOOLEAN
    BY <2>1
  <2>9. QED
    BY <2>3, <2>4, <2>5, <2>6, <2>7, <2>8 DEF LoopInv
<1>2. CASE LeaveLoop
  BY <1>2 DEF LeaveLoop, Goto, LoopInv
<1>3. CASE NoStep
  <2>1. /\ phase = "step" /\ phase' = "clamp" /\ mono' = mono /\ (acc < Frame \/ steps = 4)
        /\ running' = running /\ acc' = acc /\ prev' = prev /\ steps' = steps /\ ticks' = ticks
        /\ began' = began /\ stalled' = stalled /\ late' = late
    BY <1>3 DEF NoStep, Goto
  <2>2. PICK f \in Nat : f = Frame /\ 4 * f = 4 * Frame
    BY TimingAssumption
  <2>3. PICK w \in Nat : w = steps * Frame
    BY Products, TimingAssumption DEF LoopInv
  <2>4. steps = 4 => w = 4 * f
    BY <2>2, <2>3
  <2>5. ~stalled => steps < 4
    BY <2>1, <2>2, <2>3, <2>4 DEF LoopInv
  <2>6. QED
    BY <2>1, <2>5 DEF LoopInv
<1>4. CASE StopLoop
  BY <1>4 DEF StopLoop, LoopInv
<1>5. CASE Elapse
  <2>1. mono' = mono + 1 /\ UNCHANGED loopVars
    BY <1>5 DEF Elapse
  <2>2. QED
    BY <2>1 DEF loopVars, LoopInv
<1>6. QED
  BY <1>1, <1>2, <1>3, <1>4, <1>5

\* What has nothing to do with a loop leaves it.
LEMMA LoopStays == LoopInv /\ UNCHANGED <<mono, loopVars>> => LoopInv'
  BY DEF loopVars, LoopInv

-----------------------------------------------------------------------------
(* The clock and its timer *)

\* NanoTimer_tickWithClock: the timer counts the interval to the full, the clock
\* all but half a millisecond of it.
LEMMA TickKeeps == ClockInv /\ TickClock => ClockInv'
<1> SUFFICES ASSUME ClockInv, TickClock PROVE ClockInv'
  OBVIOUS
<1>1. /\ watch = "clock" /\ watch' = watch /\ timer.current < mono /\ mono' = mono
      /\ dial' = Ticked(dial)
      /\ timer' = [current |-> mono, total |-> timer.total + (mono - timer.current) * Rate(dial)]
      /\ scans' = scans + 1 /\ due' = due /\ stale' = stale
  BY DEF TickClock
<1>2. Rate(dial) \in Nat
  BY DEF Rate, ClockInv
<1>3. PICK g \in Nat : g = mono - timer.current
  BY <1>1 DEF ClockInv
<1>4. PICK n \in Nat : n = g * Rate(dial)
  BY <1>2, Products
<1>5. PICK h \in Nat : h = n \div 2 /\ 2 * h <= n /\ n - 2 * h <= 1
  BY <1>2, <1>4, Products
<1>6. dial.last = timer.current
  BY DEF ClockInv
<1>7. /\ dial'.scale = dial.scale /\ dial'.paused = dial.paused
      /\ dial'.last = mono /\ dial'.virtual = dial.virtual + h
  BY <1>1, <1>3, <1>4, <1>5, <1>6 DEF Ticked, ClockInv
<1>8. timer'.current = mono /\ timer'.total = timer.total + n
  BY <1>1, <1>3, <1>4
<1>9. /\ 2 * dial'.virtual <= timer'.total
      /\ timer'.total - 2 * dial'.virtual <= scans'
  BY <1>1, <1>5, <1>7, <1>8 DEF ClockInv
<1>10. ~stale' => due' = timer'.total + (mono' - timer'.current) * Rate(dial')
  <2>1. Rate(dial') = Rate(dial) /\ mono' - timer'.current = 0
    BY <1>1, <1>7, <1>8 DEF Rate, ClockInv
  <2>2. (mono' - timer'.current) * Rate(dial') = 0
    BY <1>2, <2>1
  <2>3. ~stale => due = timer.total + n
    BY <1>1, <1>3, <1>4 DEF ClockInv
  <2>4. QED
    BY <1>1, <1>8, <2>2, <2>3 DEF ClockInv
<1>11. /\ dial' \in [scale : Nat, paused : BOOLEAN, last : Nat, virtual : Nat]
       /\ timer' \in [current : Nat, total : Nat]
  <2>1. dial' = [dial EXCEPT !.last = mono, !.virtual = dial.virtual + h]
    BY <1>1, <1>3, <1>4, <1>5, <1>6 DEF Ticked
  <2>2. timer' = [current |-> mono, total |-> timer.total + n]
    BY <1>1, <1>3, <1>4
  <2>3. dial.virtual + h \in Nat /\ timer.total + n \in Nat /\ mono \in Nat
    BY <1>4, <1>5 DEF ClockInv
  <2>4. QED
    BY <2>1, <2>2, <2>3 DEF ClockInv
<1>12. QED
  BY <1>1, <1>5, <1>7, <1>8, <1>9, <1>10, <1>11 DEF ClockInv

\* A setting that is made right after a tick changes the rate of no time that has
\* gone by; one that is made later is not spoken of until the next reset.
LEMMA SettingKeeps ==
  ASSUME ClockInv, NEW d \in [scale : Nat, paused : BOOLEAN, last : Nat, virtual : Nat],
         d.last = dial.last, d.virtual = dial.virtual, Setting(d)
  PROVE  ClockInv'
<1>1. /\ watch = "clock" /\ watch' = watch /\ mono' = mono /\ timer' = timer
      /\ due' = due /\ scans' = scans /\ dial' = d
      /\ stale' = (stale \/ timer.current # mono)
  BY DEF Setting
<1>2. stale' \in BOOLEAN /\ (~stale' => ~stale /\ timer.current = mono)
  BY <1>1 DEF ClockInv
<1>3. ASSUME ~stale' PROVE due' = timer'.total + (mono' - timer'.current) * Rate(dial')
  <2>1. ~stale /\ mono - timer.current = 0 /\ mono' - timer'.current = 0
    BY <1>1, <1>2, <1>3 DEF ClockInv
  <2>2. Rate(dial) \in Nat /\ Rate(dial') \in Nat
    BY <1>1 DEF Rate, ClockInv
  <2>3. (mono - timer.current) * Rate(dial) = 0 /\ (mono' - timer'.current) * Rate(dial') = 0
    BY <2>1, <2>2
  <2>4. due = timer.total + 0
    BY <1>1, <2>1, <2>3 DEF ClockInv
  <2>5. QED
    BY <1>1, <2>3, <2>4
<1>4. QED
  BY <1>1, <1>2, <1>3 DEF ClockInv

\* A reset begins the count anew, for the clock as for the timer.
LEMMA ResetKeeps == ClockInv /\ ResetClock => ClockInv'
<1> SUFFICES ASSUME ClockInv, ResetClock PROVE ClockInv'
  OBVIOUS
<1>1. /\ watch = "clock" /\ watch' = watch /\ mono' = mono
      /\ dial' = [dial EXCEPT !.last = mono, !.virtual = 0]
      /\ timer' = [current |-> mono, total |-> 0]
      /\ due' = 0 /\ scans' = 0 /\ stale' = FALSE
  BY DEF ResetClock
<1>2. /\ dial' \in [scale : Nat, paused : BOOLEAN, last : Nat, virtual : Nat]
      /\ dial'.last = mono /\ dial'.virtual = 0
      /\ timer' \in [current : Nat, total : Nat] /\ timer'.current = mono /\ timer'.total = 0
  BY <1>1 DEF ClockInv
<1>3. mono' - timer'.current = 0 /\ Rate(dial') \in Nat
  BY <1>1, <1>2 DEF Rate, ClockInv
<1>4. (mono' - timer'.current) * Rate(dial') = 0
  BY <1>3
<1>5. mono \in Nat
  BY DEF ClockInv
<1>6. due' = timer'.total + (mono' - timer'.current) * Rate(dial')
  BY <1>1, <1>2, <1>4
<1>7. stale' \in BOOLEAN /\ scans' \in Nat /\ due' \in Nat
  BY <1>1
<1>8. QED
  BY <1>1, <1>2, <1>5, <1>6, <1>7 DEF ClockInv

\* A millisecond is due at the rate that is set.
LEMMA ElapseKeeps == ClockInv /\ Elapse => ClockInv'
<1> SUFFICES ASSUME ClockInv, Elapse PROVE ClockInv'
  OBVIOUS
<1>1. /\ mono' = mono + 1 /\ watch' = watch /\ dial' = dial /\ timer' = timer
      /\ scans' = scans /\ stale' = stale
      /\ due' = IF watch = "clock" THEN due + Rate(dial) ELSE due
  BY DEF Elapse, dialVars
<1>2. PICK a \in Nat, b \in Nat : a = mono - timer.current /\ b = Rate(dial)
  BY DEF Rate, ClockInv
<1>3. (a + 1) * b = a * b + b /\ a * b \in Nat
  BY <1>2, Products
<1>4. mono' - timer'.current = a + 1 /\ Rate(dial') = b
  BY <1>1, <1>2 DEF ClockInv
<1>5. ASSUME watch = "clock", ~stale PROVE due' = timer'.total + (a + 1) * b
  <2>1. due = timer.total + a * b /\ due' = due + b
    BY <1>1, <1>2, <1>5 DEF ClockInv
  <2>2. timer.total \in Nat
    BY DEF ClockInv
  <2>3. QED
    BY <1>1, <1>3, <2>1, <2>2
<1>6. QED
  BY <1>1, <1>2, <1>4, <1>5 DEF ClockInv

\* The invariant holds from the start and is kept by every step.
LEMMA TimeStep == TimeInv /\ [TimingNext]_timingVars => TimeInv'
<1> SUFFICES ASSUME TimeInv, [TimingNext]_timingVars PROVE TimeInv'
  OBVIOUS
<1>1. CASE Elapse
  BY <1>1, OtherKeeps, ElapseKeeps DEF TimeInv
<1>2. CASE RunLoop \/ InLoop \/ StepOnce(TRUE) \/ StopLoop
  <2>1. LoopInv'
    BY <1>2, OtherKeeps, SampleKeeps, StepKeeps, ClampKeeps DEF TimeInv, InLoop
  <2>2. UNCHANGED <<watch, mono, dialVars>>
    BY <1>2 DEF RunLoop, InLoop, LeaveLoop, Sample, StepOnce, NoStep, ClampBacklog, StopLoop, Goto
  <2>3. ClockInv'
    BY <2>2 DEF TimeInv, ClockInv, dialVars, Rate
  <2>4. QED
    BY <2>1, <2>3 DEF TimeInv
<1>3. CASE TickClock
  BY <1>3, TickKeeps, LoopStays DEF TimeInv, TickClock
<1>4. CASE ResetClock
  BY <1>4, ResetKeeps, LoopStays DEF TimeInv, ResetClock
<1>5. ASSUME NEW s \in Scales, SetTimeScale(s) PROVE TimeInv'
  <2>1. s \in Nat
    BY TimingAssumption
  <2>2. ClockInv'
    BY <1>5, <2>1, SettingKeeps DEF SetTimeScale, TimeInv, ClockInv
  <2>3. QED
    BY <1>5, <2>2, LoopStays DEF SetTimeScale, Setting, TimeInv
<1>6. ASSUME NEW p \in BOOLEAN, SetPaused(p) PROVE TimeInv'
  <2>1. ClockInv'
    BY <1>6, SettingKeeps DEF SetPaused, TimeInv, ClockInv
  <2>2. QED
    BY <1>6, <2>1, LoopStays DEF SetPaused, Setting, TimeInv
<1>7. CASE UNCHANGED timingVars
  BY <1>7 DEF timingVars, loopVars, dialVars, TimeInv, LoopInv, ClockInv, Rate
<1>8. QED
  BY <1>1, <1>2, <1>3, <1>4, <1>5, <1>6, <1>7 DEF TimingNext

\* Before Loop_run and the first tick nothing is counted.
LEMMA TimeBegins == TimingInit => TimeInv
<1> SUFFICES ASSUME TimingInit PROVE TimeInv
  OBVIOUS
<1>1. 0 * Frame = 0 /\ 4 * Frame \in Nat /\ (0 - 0) * 2 = 0
  BY TimingAssumption
<1>2. running \in BOOLEAN /\ stalled \in BOOLEAN /\ stale \in BOOLEAN
  BY DEF TimingInit
<1>3. LoopInv
  BY <1>1, <1>2 DEF TimingInit, LoopInv
<1>4. /\ dial \in [scale : Nat, paused : BOOLEAN, last : Nat, virtual : Nat]
      /\ timer \in [current : Nat, total : Nat]
  BY DEF TimingInit
<1>5. Rate(dial) = 2
  BY DEF TimingInit, Rate
<1>6. ClockInv
  BY <1>1, <1>2, <1>4, <1>5 DEF TimingInit, ClockInv
<1>7. QED
  BY <1>3, <1>6 DEF TimeInv

\* The steps of Loop_run follow the milliseconds that went by: between two passes
\* less than a frame is owed, no tick is made before its frame has gone by, and
\* after a stop the one tick begins that the pass had come to.  A scaled clock that
\* is set right after its ticks loses less than a millisecond a tick, and its timer
\* nothing.
THEOREM TimeAddsUp == TimingSpec => []TimeIsCounted
<1>1. TimeInv => TimeIsCounted
  <2> SUFFICES ASSUME TimeInv PROVE TimeIsCounted
    OBVIOUS
  <2>1. PICK u \in Nat : u = ticks * Frame
    BY Products, TimingAssumption DEF TimeInv, LoopInv
  <2>2. ticks * Frame <= mono - began
    BY <2>1 DEF TimeInv, LoopInv
  <2>3. ASSUME phase = "test", running, ~stalled PROVE ticks = (prev - began) \div Frame
    <3>1. prev - began \in Nat /\ prev - began = ticks * Frame + acc /\ acc < Frame
      BY <2>1, <2>3 DEF TimeInv, LoopInv
    <3>2. QED
      BY <3>1, Quotient, TimingAssumption DEF TimeInv, LoopInv
  <2>4. TicksFollowTime
    BY <2>2, <2>3 DEF TicksFollowTime, TimeInv, LoopInv
  <2>5. ASSUME timer.current = mono, ~stale PROVE timer.total = due
    <3>1. CASE watch = "clock"
      <4>1. mono - timer.current = 0 /\ Rate(dial) \in Nat
        BY <2>5 DEF TimeInv, ClockInv, Rate
      <4>2. (mono - timer.current) * Rate(dial) = 0
        BY <4>1
      <4>3. QED
        BY <2>5, <3>1, <4>2 DEF TimeInv, ClockInv
    <3>2. CASE watch = "loop"
      BY <3>2 DEF TimeInv, ClockInv
    <3>3. QED
      BY <3>1, <3>2 DEF TimeInv, ClockInv
  <2>6. ClockFollowsTime
    BY <2>5 DEF ClockFollowsTime, TimeInv, ClockInv
  <2>7. QED
    BY <2>4, <2>6 DEF TimeIsCounted
<1>2. QED
  BY <1>1, TimeBegins, TimeStep, PTL DEF TimingSpec

-----------------------------------------------------------------------------
(* The registries of listeners and a delivery *)

ListType == [seg : Nat, count : Nat, cap : Nat]
TableRows == [win : Windows, list : ListType]

\* A list is none, or the used slots of a segment.
IsList(ss, L) ==
  /\ L \in ListType
  /\ L.count <= L.cap /\ L.seg <= Len(ss)
  /\ L.seg = 0 => L.cap = 0
  /\ L.seg # 0 => Len(ss[L.seg]) = L.cap

\* No two lists share a segment but those of one window in the tables that
\* growRows has left behind.
RegistriesOK ==
  /\ segs \in Seq(Seq(Listeners)) /\ tables \in Seq(Seq(TableRows)) /\ tables # <<>>
  /\ rowCap \in Nat
  /\ IsList(segs, globals)
  /\ \A t \in DOMAIN tables : \A r \in DOMAIN tables[t] :
       /\ IsList(segs, tables[t][r].list)
       /\ tables[t][r].list.seg # 0 => tables[t][r].list.seg # globals.seg
       /\ r \in DOMAIN Rows /\ Rows[r].win = tables[t][r].win
  /\ \A t, u \in DOMAIN tables : \A r \in DOMAIN tables[t], q \in DOMAIN tables[u] :
       tables[t][r].list.seg = tables[u][q].list.seg /\ tables[t][r].list.seg # 0
         => tables[t][r].win = tables[u][q].win
  /\ \A r, q \in DOMAIN Rows : Rows[r].win = Rows[q].win => r = q

\* The delivery has a pointer to a row.
AtRow == pass.pc \in {"row", "call"} /\ pass.row # 0

\* Where a delivery is.  Its pointer is one into the table as it is now, unless
\* that has moved.
PassOK ==
  /\ pass \in [pc : {"none", "global", "row", "call", "next", "done"}, window : Scopes,
               i : Nat, r : Nat, table : Nat, row : Nat]
  /\ pass.i # 0 /\ pass.r # 0
  /\ moved \in BOOLEAN /\ astray \in BOOLEAN
  /\ pass.pc = "global" => pass.row = 0
  /\ pass.pc = "row" => pass.row # 0
  /\ AtRow =>
       /\ pass.table \in DOMAIN tables /\ pass.row \in DOMAIN tables[pass.table]
       /\ IF pass.window = Broadcast THEN pass.row = pass.r
          ELSE tables[pass.table][pass.row].win = pass.window
       /\ moved \/ pass.table = Len(tables)
  /\ pass.window = Broadcast => pass.r <= Len(Rows) + 1
  /\ pass.window = Broadcast /\ pass.pc = "done" => pass.r > Len(Rows)

\* The loop over the listeners of w is under way, or behind the delivery.
LoopAt(w) == pass.pc \in {"global", "row", "call"} /\ CurrentScope = w
Behind(w) ==
  IF w = Broadcast THEN pass.pc \in {"next", "done"} \/ AtRow
  ELSE IF pass.window = Broadcast THEN RowFor(w) # 0 /\ RowFor(w) < pass.r
  ELSE pass.window = w /\ pass.pc \in {"next", "done"}

\* The listeners of w as they are now, and how many of the first m are l.
Current(w) == Items(ListOf(w))
Among(l, s, m) == Cardinality({i \in 1 .. m : s[i] = l})

\* One sequence begins with the other.
Begins(s, t) == Len(s) <= Len(t) /\ \A i \in 1 .. Len(s) : s[i] = t[i]

\* The list that the loop is at may be an old one, but it is the beginning of the
\* one there is now, and not shorter than when the delivery began.
PointerOK(w) ==
  /\ Len(start[w]) <= CurrentList.count /\ Begins(Items(CurrentList), Current(w))
  /\ pass.i <= CurrentList.count + IF pass.pc = "call" THEN 0 ELSE 1

\* The first m of the list were called, and nobody else of it.
CalledTo(w, m) ==
  /\ \A l \in Listeners : Times(<<w, l>>, heard) = Among(l, Current(w), m)
  /\ LoopAt(w) => m = IF pass.pc = "call" THEN pass.i ELSE pass.i - 1
  /\ Behind(w) => Len(start[w]) <= m
  /\ ~LoopAt(w) /\ ~Behind(w) => m = 0

Served(w) ==
  /\ Begins(start[w], Current(w))
  /\ LoopAt(w) => PointerOK(w)
  /\ \E m \in 0 .. Len(Current(w)) : CalledTo(w, m)

HeardOK ==
  /\ heard \in Seq(Scopes \X Listeners)
  /\ astray => moved
  /\ pass.pc # "none" =>
       /\ start \in [Scopes -> Seq(Listeners)]
       /\ \A n \in DOMAIN heard : InScope(heard[n][1])
       /\ touched = {} => \A w \in Scopes : Served(w)

RouteInv == RegistriesOK /\ PassOK /\ HeardOK

\* What a list has in its segment.
ItemsIn(ss, L) == IF L.count = 0 THEN <<>> ELSE SubSeq(ss[L.seg], 1, L.count)

\* The used slots of a segment are there.
LEMMA ItemsInList ==
  ASSUME NEW ss \in Seq(Seq(Listeners)), NEW L, IsList(ss, L)
  PROVE  /\ ItemsIn(ss, L) \in Seq(Listeners) /\ Len(ItemsIn(ss, L)) = L.count /\ L.count \in Nat
         /\ \A i \in 1 .. L.count : ItemsIn(ss, L)[i] = ss[L.seg][i] /\ ss[L.seg][i] \in Listeners
         /\ L.count # 0 => L.seg \in 1 .. Len(ss) /\ L.count <= Len(ss[L.seg])
<1>1. CASE L.count = 0
  BY <1>1 DEF ItemsIn, IsList, ListType
<1>2. CASE L.count # 0
  <2>1. PICK n \in Nat : n = L.count /\ n # 0 /\ n <= L.cap
    BY <1>2 DEF IsList, ListType
  <2>2. L.seg \in 1 .. Len(ss) /\ Len(ss[L.seg]) = L.cap
    BY <2>1 DEF IsList, ListType
  <2>3. PICK s \in Seq(Listeners) : s = ss[L.seg] /\ Len(s) >= n
    BY <2>1, <2>2, ElementOfSeq DEF IsList, ListType
  <2>4. \A i \in 1 .. n : s[i] \in Listeners
    BY <2>1, <2>3, LenProperties
  <2>5. /\ SubSeq(s, 1, n) \in Seq(Listeners) /\ Len(SubSeq(s, 1, n)) = n
        /\ \A i \in 1 .. n : SubSeq(s, 1, n)[i] = s[i]
    BY <2>1, <2>4, SubSeqProperties
  <2>6. ItemsIn(ss, L) = SubSeq(s, 1, n)
    BY <1>2, <2>1, <2>3 DEF ItemsIn
  <2>7. QED
    BY <2>1, <2>2, <2>3, <2>4, <2>5, <2>6
<1>3. QED
  BY <1>1, <1>2

\* The same of the segments that there are.
LEMMA ItemsOfList ==
  ASSUME segs \in Seq(Seq(Listeners)), NEW L, IsList(segs, L)
  PROVE  /\ Items(L) \in Seq(Listeners) /\ Len(Items(L)) = L.count /\ L.count \in Nat
         /\ \A i \in 1 .. L.count : Items(L)[i] = segs[L.seg][i] /\ segs[L.seg][i] \in Listeners
         /\ L.count # 0 => L.seg \in 1 .. Len(segs) /\ L.count <= Len(segs[L.seg])
<1>1. Items(L) = ItemsIn(segs, L)
  BY DEF Items, ItemsIn
<1>2. QED
  BY <1>1, ItemsInList

\* The segments that there are stay, each as long as it is.
Keeps(ss, new) ==
  /\ new \in Seq(Seq(Listeners)) /\ Len(ss) <= Len(new)
  /\ \A s \in 1 .. Len(ss) : Len(new[s]) = Len(ss[s])

\* growSegment leaves old blocks readable, and a removal only moves a listener:
\* what was a list remains one.
LEMMA ListStays ==
  ASSUME NEW ss \in Seq(Seq(Listeners)), NEW new, Keeps(ss, new), NEW L, IsList(ss, L)
  PROVE  IsList(new, L)
<1>1. Len(ss) \in Nat /\ Len(new) \in Nat
  BY LenProperties DEF Keeps
<1>2. L \in ListType /\ L.seg \in Nat
  BY DEF IsList, ListType
<1>3. QED
  BY <1>1, <1>2 DEF Keeps, IsList

\* A list with one listener more, in the same segment or in a fresh one.
IsAppended(L, l, new, N) ==
  /\ Keeps(segs, new) /\ IsList(new, N)
  /\ N.count = L.count + 1 /\ (N.seg = L.seg \/ N.seg = Len(segs) + 1) /\ N.seg # 0
  /\ \A s \in 1 .. Len(segs) : \A i \in 1 .. Len(segs[s]) :
       s # L.seg \/ i <= L.count => new[s][i] = segs[s][i]
  /\ \A i \in 1 .. L.count : new[N.seg][i] = segs[L.seg][i]
  /\ new[N.seg][L.count + 1] = l

\* Key_addListener and Key_attachWindow: the new listener comes behind the others,
\* in the same segment or in one that growSegment has filled from it.
LEMMA AppendsOne ==
  ASSUME segs \in Seq(Seq(Listeners)), NEW L, IsList(segs, L), NEW l \in Listeners
  PROVE  IsAppended(L, l, Appended(L, l).segs, Appended(L, l).list)
<1>1. L \in ListType /\ Len(segs) \in Nat
  BY LenProperties DEF IsList
<1>2. CASE Grows(L)
  <2> DEFINE n == L.count
             c == Doubled(L.cap, FirstSlots)
             s == GrownCopy(L)
             e == [s EXCEPT ![n + 1] = l]
             N == [seg |-> Len(segs) + 1, count |-> n + 1, cap |-> c]
             new == Append(segs, e)
  <2>1. n \in Nat /\ n = L.cap /\ c \in Nat /\ n < c
    BY <1>1, <1>2, RouteAssumption DEF Grows, Doubled, IsList, ListType
  <2>2. c - n \in Nat
    BY <2>1
  <2>3. UnusedSlots(c - n) \in Seq(Listeners) /\ Len(UnusedSlots(c - n)) = c - n
    <3>1. (CHOOSE x \in Listeners : TRUE) \in Listeners
      OBVIOUS
    <3>2. UnusedSlots(c - n) \in [1 .. c - n -> Listeners]
      BY <3>1 DEF UnusedSlots
    <3>3. QED
      BY <2>2, <3>2
  <2>4. /\ Items(L) \in Seq(Listeners) /\ Len(Items(L)) = n
        /\ \A i \in 1 .. n : Items(L)[i] = segs[L.seg][i]
    BY ItemsOfList
  <2>5. s = Items(L) \o UnusedSlots(c - n)
    BY DEF GrownCopy
  <2>6. /\ s \in Seq(Listeners) /\ Len(s) = n + (c - n)
        /\ \A i \in 1 .. n + (c - n) : s[i] = IF i <= n THEN Items(L)[i] ELSE UnusedSlots(c - n)[i - n]
    <3> HIDE DEF s, n, c
    <3>1. PICK a \in Seq(Listeners) : a = Items(L) /\ Len(a) = n
      BY <2>4
    <3>2. PICK b \in Seq(Listeners) : b = UnusedSlots(c - n) /\ Len(b) = c - n
      BY <2>3
    <3>3. /\ a \o b \in Seq(Listeners) /\ Len(a \o b) = Len(a) + Len(b)
          /\ \A i \in 1 .. Len(a) + Len(b) :
               (a \o b)[i] = IF i <= Len(a) THEN a[i] ELSE b[i - Len(a)]
      BY ConcatProperties
    <3>4. s = a \o b
      BY <2>5, <3>1, <3>2
    <3>5. QED
      BY <3>1, <3>2, <3>3, <3>4
  <2>7. n + (c - n) = c /\ n + 1 \in 1 .. c /\ 1 .. n \subseteq 1 .. c
    BY <2>1
  <2>8. Len(s) = c /\ n + 1 \in 1 .. Len(s)
    BY <2>6, <2>7
  <2>9. /\ e \in Seq(Listeners) /\ Len(e) = c
        /\ \A j \in 1 .. c : e[j] = IF j = n + 1 THEN l ELSE s[j]
    <3> HIDE DEF s, n, c
    <3>1. QED
      BY <2>6, <2>8, ExceptSeq
  <2>10. \A i \in 1 .. n : e[i] = segs[L.seg][i]
    <3> SUFFICES ASSUME NEW i \in 1 .. n PROVE e[i] = segs[L.seg][i]
      OBVIOUS
    <3> HIDE DEF e, s, c
    <3>1. i \in 1 .. c /\ i <= n /\ i # n + 1
      BY <2>1, <2>7
    <3>2. e[i] = s[i] /\ s[i] = Items(L)[i]
      BY <2>6, <2>7, <2>9, <3>1
    <3>3. QED
      BY <2>4, <3>2
  <2>11. e[n + 1] = l
    BY <2>7, <2>9
  <2>12. /\ new \in Seq(Seq(Listeners)) /\ Len(new) = Len(segs) + 1
         /\ \A i \in 1 .. Len(segs) : new[i] = segs[i]
         /\ new[Len(segs) + 1] = e
    <3> HIDE DEF e
    <3>1. e \in Seq(Listeners)
      BY <2>9
    <3>2. QED
      BY <3>1, AppendProperties
  <2>13. Appended(L, l).segs = new /\ Appended(L, l).list = N
    BY <1>2 DEF Appended, Grown
  <2>14. Keeps(segs, new)
    <3> HIDE DEF new
    <3>1. QED
      BY <1>1, <2>12 DEF Keeps
  <2>15. N.seg = Len(segs) + 1 /\ N.count = n + 1 /\ N.cap = c
    OBVIOUS
  <2>16. IsList(new, N)
    <3>1. N \in ListType
      BY <1>1, <2>1 DEF ListType
    <3>2. N.seg # 0 /\ n + 1 <= c /\ Len(new[N.seg]) = c
      BY <1>1, <2>1, <2>9, <2>12
    <3> HIDE DEF N, new
    <3>3. QED
      BY <2>12, <2>15, <3>1, <3>2 DEF IsList
  <2>17. N.seg # 0
    BY <1>1
  <2> HIDE DEF new, N, e, s, c
  <2>18. IsAppended(L, l, new, N)
    BY <2>10, <2>11, <2>12, <2>14, <2>15, <2>16, <2>17 DEF IsAppended
  <2>19. QED
    BY <2>13, <2>18
<1>3. CASE ~Grows(L)
  <2> DEFINE n == L.count
             g == L.seg
             N == [L EXCEPT !.count = n + 1]
             e == [segs[g] EXCEPT ![n + 1] = l]
             new == [segs EXCEPT ![g] = e]
  <2>1. n \in Nat /\ n + 1 <= L.cap /\ L.cap \in Nat /\ g # 0 /\ g \in 1 .. Len(segs)
    BY <1>1, <1>3 DEF Grows, IsList, ListType
  <2>2. segs[g] \in Seq(Listeners) /\ Len(segs[g]) = L.cap
    BY <2>1, ElementOfSeq DEF IsList
  <2>3. n + 1 \in 1 .. Len(segs[g])
    BY <2>1, <2>2
  <2>4. /\ e \in Seq(Listeners) /\ Len(e) = L.cap
        /\ \A j \in 1 .. L.cap : e[j] = IF j = n + 1 THEN l ELSE segs[g][j]
    <3> HIDE DEF n, g
    <3>1. QED
      BY <2>2, <2>3, ExceptSeq
  <2>5. /\ new \in Seq(Seq(Listeners)) /\ Len(new) = Len(segs)
        /\ \A s \in 1 .. Len(segs) : new[s] = IF s = g THEN e ELSE segs[s]
    <3> HIDE DEF e
    <3>1. e \in Seq(Listeners) /\ g \in 1 .. Len(segs)
      BY <2>1, <2>4
    <3>2. QED
      BY <3>1, ExceptSeq
  <2>6. Appended(L, l).segs = new /\ Appended(L, l).list = N
    <3>1. [segs EXCEPT ![L.seg][L.count + 1] = l] = new
      OBVIOUS
    <3>2. [L EXCEPT !.count = @ + 1] = N
      OBVIOUS
    <3>3. QED
      BY <1>3, <3>1, <3>2 DEF Appended
  <2>7. N \in ListType /\ N.seg = g /\ N.count = n + 1 /\ N.cap = L.cap
    <3>1. L \in [seg : Nat, count : Nat, cap : Nat] /\ n + 1 \in Nat
      BY <1>1, <2>1 DEF ListType
    <3>2. N = [seg |-> L.seg, count |-> n + 1, cap |-> L.cap]
      BY <3>1
    <3> HIDE DEF N, n
    <3>3. QED
      BY <3>1, <3>2 DEF ListType
  <2> HIDE DEF new, N, e
  <2>8. Keeps(segs, new)
    <3>1. \A s \in 1 .. Len(segs) : Len(new[s]) = Len(segs[s])
      <4> TAKE s \in 1 .. Len(segs)
      <4>1. CASE s = g
        BY <2>2, <2>4, <2>5, <4>1
      <4>2. CASE s # g
        BY <2>5, <4>2
      <4>3. QED
        BY <4>1, <4>2
    <3>2. QED
      BY <1>1, <2>5, <3>1 DEF Keeps
  <2>9. IsList(new, N)
    BY <2>1, <2>4, <2>5, <2>7 DEF IsList
  <2>10. \A s \in 1 .. Len(segs) : \A i \in 1 .. Len(segs[s]) :
           s # L.seg \/ i <= L.count => new[s][i] = segs[s][i]
    <3> TAKE s \in 1 .. Len(segs)
    <3> TAKE i \in 1 .. Len(segs[s])
    <3> SUFFICES ASSUME s # g \/ i <= n PROVE new[s][i] = segs[s][i]
      OBVIOUS
    <3>1. CASE s = g
      <4>1. i \in 1 .. L.cap /\ i # n + 1
        BY <2>1, <2>2, <3>1
      <4>2. QED
        BY <2>4, <2>5, <3>1, <4>1
    <3>2. CASE s # g
      BY <2>5, <3>2
    <3>3. QED
      BY <3>1, <3>2
  <2>11. \A i \in 1 .. n : new[N.seg][i] = segs[g][i]
    <3> TAKE i \in 1 .. n
    <3>1. i \in 1 .. L.cap /\ i # n + 1
      BY <2>1
    <3>2. new[g] = e
      BY <2>1, <2>5
    <3>3. QED
      BY <2>4, <2>7, <3>1, <3>2
  <2>12. new[N.seg][n + 1] = l
    BY <2>1, <2>2, <2>3, <2>4, <2>5, <2>7
  <2>13. IsAppended(L, l, new, N)
    BY <2>1, <2>7, <2>8, <2>9, <2>10, <2>11, <2>12 DEF IsAppended
  <2>14. QED
    BY <2>6, <2>13
<1>4. QED
  BY <1>2, <1>3

\* A removal moves the last listener into the hole.
LEMMA HoleKeeps ==
  ASSUME segs \in Seq(Seq(Listeners)), NEW L, IsList(segs, L), L.count # 0, NEW l
  PROVE  Keeps(segs, Holed(L, l))
<1> DEFINE g == L.seg
           p == Place(L, l)
           v == segs[g][L.count]
           e == [segs[g] EXCEPT ![p] = v]
<1>1. g \in 1 .. Len(segs) /\ v \in Listeners /\ Len(segs) \in Nat
  <2>1. L.count \in 1 .. L.count
    BY ItemsOfList
  <2>2. QED
    BY <2>1, ItemsOfList, LenProperties
<1>2. segs[g] \in Seq(Listeners)
  BY <1>1, ElementOfSeq
<1>3. Holed(L, l) = [segs EXCEPT ![g] = e]
  BY DEF Holed
<1> HIDE DEF g, p, v
<1>4. e \in Seq(Listeners) /\ Len(e) = Len(segs[g])
  <2>1. CASE p \in 1 .. Len(segs[g])
    BY <1>1, <1>2, <2>1, ExceptSeq
  <2>2. CASE p \notin 1 .. Len(segs[g])
    <3>1. segs[g] \in [1 .. Len(segs[g]) -> Listeners]
      BY <1>2, LenProperties
    <3>2. e = segs[g]
      BY <2>2, <3>1
    <3>3. QED
      BY <1>2, <3>2
  <2>3. QED
    BY <2>1, <2>2
<1> HIDE DEF e
<1>5. /\ Holed(L, l) \in Seq(Seq(Listeners)) /\ Len(Holed(L, l)) = Len(segs)
      /\ \A s \in 1 .. Len(segs) : Holed(L, l)[s] = IF s = g THEN e ELSE segs[s]
  BY <1>1, <1>3, <1>4, ExceptSeq
<1>6. \A s \in 1 .. Len(segs) : Len(Holed(L, l)[s]) = Len(segs[s])
  BY <1>4, <1>5
<1>7. QED
  BY <1>1, <1>5, <1>6 DEF Keeps

\* The table of rows as it is now.
LEMMA RowFacts ==
  ASSUME RegistriesOK
  PROVE  /\ Len(tables) \in DOMAIN tables /\ DOMAIN tables = 1 .. Len(tables) /\ Len(tables) \in Nat \ {0}
         /\ \A t \in DOMAIN tables : /\ tables[t] \in Seq(TableRows)
                                     /\ DOMAIN tables[t] = 1 .. Len(tables[t])
                                     /\ Len(tables[t]) \in Nat
         /\ Rows \in Seq(TableRows) /\ DOMAIN Rows = 1 .. Len(Rows) /\ Len(Rows) \in Nat
<1>1. Len(tables) \in Nat \ {0} /\ DOMAIN tables = 1 .. Len(tables)
  BY LenProperties, EmptySeq DEF RegistriesOK
<1>2. Len(tables) \in DOMAIN tables
  BY <1>1
<1>3. \A t \in DOMAIN tables : tables[t] \in Seq(TableRows)
  BY <1>1, ElementOfSeq DEF RegistriesOK
<1>4. QED
  BY <1>1, <1>2, <1>3, LenProperties DEF Rows

\* rowFor finds the one row of a window.
LEMMA RowForFinds ==
  ASSUME RegistriesOK, NEW w \in Windows
  PROVE  /\ RowFor(w) # 0 => RowFor(w) \in DOMAIN Rows /\ Rows[RowFor(w)].win = w
         /\ RowFor(w) = 0 => \A r \in DOMAIN Rows : Rows[r].win # w
         /\ \A r \in DOMAIN Rows : Rows[r].win = w => RowFor(w) = r
         /\ RowFor(w) \in 0 .. Len(Rows)
<1>1. DOMAIN Rows = 1 .. Len(Rows) /\ Len(Rows) \in Nat
  BY RowFacts
<1>2. CASE \E r \in DOMAIN Rows : Rows[r].win = w
  <2>1. RowFor(w) \in DOMAIN Rows /\ Rows[RowFor(w)].win = w
    BY <1>2 DEF RowFor
  <2>2. QED
    BY <1>1, <2>1 DEF RegistriesOK
<1>3. CASE ~\E r \in DOMAIN Rows : Rows[r].win = w
  BY <1>1, <1>3 DEF RowFor
<1>4. QED
  BY <1>2, <1>3

\* The listeners of a scope are a list.
LEMMA ListsOfScopes ==
  ASSUME RegistriesOK, NEW w \in Scopes
  PROVE  IsList(segs, ListOf(w))
<1>1. segs \in Seq(Seq(Listeners)) /\ Len(segs) \in Nat
  BY LenProperties DEF RegistriesOK
<1>2. CASE w = Broadcast
  BY <1>2 DEF ListOf, RegistriesOK
<1>3. CASE w # Broadcast /\ RowFor(w) = 0
  BY <1>1, <1>3 DEF ListOf, NoSeg, IsList, ListType
<1>4. CASE w # Broadcast /\ RowFor(w) # 0
  <2>1. w \in Windows
    BY <1>4 DEF Scopes
  <2>2. RowFor(w) \in DOMAIN Rows
    BY <1>4, <2>1, RowForFinds
  <2>3. Len(tables) \in DOMAIN tables
    BY RowFacts
  <2>4. IsList(segs, tables[Len(tables)][RowFor(w)].list)
    BY <2>2, <2>3 DEF RegistriesOK, Rows
  <2>5. QED
    BY <1>4, <2>4 DEF ListOf, Rows
<1>5. QED
  BY <1>2, <1>3, <1>4

\* What the lists of the scopes have.
LEMMA CurrentIs ==
  ASSUME RegistriesOK, NEW w \in Scopes
  PROVE  /\ Current(w) \in Seq(Listeners) /\ Len(Current(w)) = ListOf(w).count
         /\ Len(Current(w)) \in Nat
         /\ \A i \in 1 .. ListOf(w).count :
              Current(w)[i] = segs[ListOf(w).seg][i] /\ Current(w)[i] \in Listeners
<1>1. segs \in Seq(Seq(Listeners)) /\ IsList(segs, ListOf(w))
  BY ListsOfScopes DEF RegistriesOK
<1>2. PICK L : L = ListOf(w)
  OBVIOUS
<1>3. QED
  BY <1>1, <1>2, ItemsOfList DEF Current

\* The same, to be had of the next state too.
RowsAreTable == Rows \in Seq(TableRows) /\ DOMAIN Rows = 1 .. Len(Rows) /\ Len(Rows) \in Nat
LEMMA RowsKnown == RegistriesOK => RowsAreTable
  BY RowFacts DEF RowsAreTable

\* The same of rowFor.
RowForIsRight ==
  \A w \in Windows :
    /\ RowFor(w) # 0 => RowFor(w) \in DOMAIN Rows /\ Rows[RowFor(w)].win = w
    /\ RowFor(w) = 0 => \A r \in DOMAIN Rows : Rows[r].win # w
    /\ \A r \in DOMAIN Rows : Rows[r].win = w => RowFor(w) = r
LEMMA RowForKnown == RegistriesOK => RowForIsRight
  BY RowForFinds DEF RowForIsRight

\* The same of the lists.
CurrentIsRight ==
  \A w \in Scopes :
    /\ Current(w) \in Seq(Listeners) /\ Len(Current(w)) = ListOf(w).count
    /\ Len(Current(w)) \in Nat
    /\ \A i \in 1 .. ListOf(w).count : Current(w)[i] = segs[ListOf(w).seg][i]
LEMMA CurrentKnown == RegistriesOK => CurrentIsRight
  BY CurrentIs DEF CurrentIsRight

\* What an attachment does to the table: one row has a listener more, and may be
\* a fresh one; a table that has moved is left behind as it was.
Attached(w, l, at, N) ==
  /\ IsAppended(ListOf(w), l, segs', N) /\ globals' = globals /\ rowCap' \in Nat
  /\ IF RowFor(w) = 0 THEN at = Len(Rows) + 1 ELSE at = RowFor(w)
  /\ Len(Rows') = IF RowFor(w) = 0 THEN Len(Rows) + 1 ELSE Len(Rows)
  /\ at \in 1 .. Len(Rows') /\ DOMAIN Rows' = 1 .. Len(Rows')
  /\ Rows'[at].win = w /\ Rows'[at].list = N
  /\ \A r \in 1 .. Len(Rows) : r # at => Rows'[r] = Rows[r]
  /\ tables' \in Seq(Seq(TableRows)) /\ tables' # <<>>
  /\ \/ Len(tables') = Len(tables)
     \/ Len(tables') = Len(tables) + 1 /\ moved' /\ RowFor(w) = 0
  /\ \A t \in 1 .. Len(tables') - 1 : t \in DOMAIN tables /\ tables'[t] = tables[t]

\* Key_attachWindow, with growSegment and growRows.
LEMMA AttachDoes ==
  ASSUME RegistriesOK, NEW w \in Windows, NEW l \in Listeners, AttachWindow(w, l)
  PROVE  \E at, N : Attached(w, l, at, N)
<1> DEFINE r == RowFor(w)
           moves == r = 0 /\ Len(Rows) + 1 > rowCap
           rows == IF r = 0 THEN Append(Rows, [win |-> w, list |-> NoSeg]) ELSE Rows
           at == IF r = 0 THEN Len(rows) ELSE r
           L == rows[at].list
           A == Appended(L, l)
           n == SetRow(rows, at, A.list)
<1>1. /\ segs' = A.segs /\ globals' = globals
      /\ rowCap' = IF moves THEN Doubled(rowCap, FirstRows) ELSE rowCap
      /\ tables' = IF moves THEN Append(tables, n) ELSE Last(tables, n)
      /\ moved' = (moved \/ moves)
  BY DEF AttachWindow
<1>2. /\ Rows \in Seq(TableRows) /\ DOMAIN Rows = 1 .. Len(Rows) /\ Len(Rows) \in Nat
      /\ Len(tables) \in DOMAIN tables /\ DOMAIN tables = 1 .. Len(tables) /\ Len(tables) \in Nat \ {0}
      /\ tables \in Seq(Seq(TableRows)) /\ segs \in Seq(Seq(Listeners))
  BY RowFacts DEF RegistriesOK
<1>3. w # Broadcast /\ w \in Scopes
  BY RouteAssumption DEF Scopes
<1>4. /\ rows \in Seq(TableRows) /\ Len(rows) = IF r = 0 THEN Len(Rows) + 1 ELSE Len(Rows)
      /\ at \in 1 .. Len(rows) /\ rows[at].win = w /\ rows[at].list = ListOf(w)
      /\ \A q \in 1 .. Len(Rows) : rows[q] = Rows[q]
  <2>1. CASE r = 0
    <3>1. NoSeg \in ListType /\ [win |-> w, list |-> NoSeg] \in TableRows
      BY DEF NoSeg, ListType, TableRows
    <3>2. /\ rows = Append(Rows, [win |-> w, list |-> NoSeg]) /\ at = Len(rows)
          /\ ListOf(w) = NoSeg
      BY <1>3, <2>1 DEF ListOf
    <3> HIDE DEF rows, at
    <3>3. /\ rows \in Seq(TableRows) /\ Len(rows) = Len(Rows) + 1
          /\ rows[Len(rows)] = [win |-> w, list |-> NoSeg]
          /\ \A q \in 1 .. Len(Rows) : rows[q] = Rows[q]
      BY <1>2, <3>1, <3>2, AppendProperties
    <3>4. QED
      BY <1>2, <2>1, <3>2, <3>3
  <2>2. CASE r # 0
    <3>1. r \in DOMAIN Rows /\ Rows[r].win = w /\ ListOf(w) = Rows[r].list
      BY <1>3, <2>2, RowForFinds DEF ListOf
    <3>2. QED
      BY <1>2, <2>2, <3>1
  <2>3. QED
    BY <2>1, <2>2
<1>5. IsList(segs, L)
  BY <1>3, <1>4, ListsOfScopes
<1>6. IsAppended(ListOf(w), l, segs', A.list)
  <2>1. IsAppended(L, l, A.segs, A.list)
    <3> HIDE DEF L
    <3>1. QED
      BY <1>2, <1>5, AppendsOne
  <2>2. QED
    BY <1>1, <1>4, <2>1
<1>7. PICK N : N = A.list
  OBVIOUS
<1>8. N \in ListType
  BY <1>6, <1>7 DEF IsAppended, IsList
<1>9. /\ n \in Seq(TableRows) /\ Len(n) = Len(rows) /\ n[at].win = w /\ n[at].list = N
      /\ \A q \in 1 .. Len(rows) : q # at => n[q] = rows[q]
  <2>1. PICK e \in TableRows : e = [rows[at] EXCEPT !.list = N] /\ e.win = w /\ e.list = N
    <3>1. rows[at] \in TableRows
      BY <1>4, ElementOfSeq
    <3> HIDE DEF rows, at
    <3>2. rows[at] \in [win : Windows, list : ListType]
      BY <3>1 DEF TableRows
    <3>3. [rows[at] EXCEPT !.list = N] = [win |-> rows[at].win, list |-> N]
      BY <3>2
    <3>4. [rows[at] EXCEPT !.list = N] \in TableRows
      BY <1>8, <3>2, <3>3 DEF TableRows
    <3>5. QED
      BY <1>4, <3>3, <3>4
  <2>2. n = [rows EXCEPT ![at] = e]
    BY <1>7, <2>1 DEF SetRow
  <2> HIDE DEF rows, at, n
  <2>3. QED
    BY <1>4, <2>1, <2>2, ExceptSeq
<1> HIDE DEF n, A, L, rows
<1>10. moves \in BOOLEAN
  OBVIOUS
<1>11. rowCap' \in Nat
  BY <1>1, RouteAssumption DEF Doubled, RegistriesOK
<1>12. /\ tables' \in Seq(Seq(TableRows)) /\ tables' # <<>> /\ Len(tables') \in Nat
       /\ Len(tables') = IF moves THEN Len(tables) + 1 ELSE Len(tables)
       /\ tables'[Len(tables')] = n
       /\ \A t \in 1 .. Len(tables') - 1 : t \in DOMAIN tables /\ tables'[t] = tables[t]
  <2>0. PICK k \in Nat \ {0} : k = Len(tables) /\ DOMAIN tables = 1 .. k
    BY <1>2
  <2>1. CASE moves
    <3>1. tables' = Append(tables, n)
      BY <1>1, <2>1
    <3>2. /\ tables' \in Seq(Seq(TableRows)) /\ tables' # <<>> /\ Len(tables') = k + 1
          /\ \A t \in 1 .. k : tables'[t] = tables[t]
          /\ tables'[k + 1] = n
      <4>1. PICK x \in Seq(TableRows) : x = n
        BY <1>9
      <4>2. /\ Append(tables, x) \in Seq(Seq(TableRows)) /\ Append(tables, x) # <<>>
            /\ Len(Append(tables, x)) = Len(tables) + 1
            /\ \A t \in 1 .. Len(tables) : Append(tables, x)[t] = tables[t]
            /\ Append(tables, x)[Len(tables) + 1] = x
        <5>1. PICK T : T = Seq(TableRows)
          OBVIOUS
        <5>2. tables \in Seq(T) /\ x \in T
          BY <1>2, <4>1, <5>1
        <5>3. QED
          BY <5>1, <5>2, AppendProperties
      <4>3. tables' = Append(tables, x)
        BY <3>1, <4>1
      <4>4. QED
        BY <2>0, <4>1, <4>2, <4>3
    <3>3. 1 .. Len(tables') - 1 = 1 .. k
      BY <2>0, <3>2
    <3>4. QED
      BY <2>0, <2>1, <3>2, <3>3
  <2>2. CASE ~moves
    <3>1. tables' = [tables EXCEPT ![Len(tables)] = n]
      BY <1>1, <2>2 DEF Last
    <3>2. /\ tables' \in Seq(Seq(TableRows)) /\ Len(tables') = Len(tables)
          /\ \A t \in 1 .. Len(tables) : tables'[t] = IF t = Len(tables) THEN n ELSE tables[t]
      BY <1>2, <1>9, <3>1, ExceptSeq
    <3>3. tables' # <<>>
      BY <2>0, <3>2
    <3>4. tables'[k] = n /\ \A t \in 1 .. k - 1 : t \in 1 .. k /\ tables'[t] = tables[t]
      BY <2>0, <3>2
    <3>5. QED
      BY <2>0, <2>2, <3>2, <3>3, <3>4
  <2>3. QED
    BY <2>1, <2>2
<1>13. Rows' = n
  BY <1>12 DEF Rows
<1>14. DOMAIN Rows' = 1 .. Len(Rows')
  BY <1>9, <1>13, LenProperties
<1>15. \A q \in 1 .. Len(Rows) : q # at => Rows'[q] = Rows[q]
  <2>1. \A q \in 1 .. Len(Rows) : q \in 1 .. Len(rows)
    BY <1>2, <1>4
  <2>2. QED
    BY <1>4, <1>9, <1>13, <2>1
<1>16. Len(tables') = Len(tables) \/ (Len(tables') = Len(tables) + 1 /\ moved' /\ r = 0)
  BY <1>1, <1>12
<1>17. IF r = 0 THEN at = Len(Rows) + 1 ELSE at = r
  BY <1>4
<1>18. Attached(w, l, at, N)
  BY <1>1, <1>4, <1>6, <1>7, <1>9, <1>11, <1>12, <1>13, <1>14, <1>15, <1>16, <1>17 DEF Attached
<1>19. QED
  BY <1>18

\* Every row after an attachment is one there was, or the one that has grown.
LEMMA OldOrGrown ==
  ASSUME RegistriesOK, NEW w, NEW l, NEW at, NEW N, Attached(w, l, at, N),
         NEW t \in DOMAIN tables', NEW q \in DOMAIN tables'[t]
  PROVE  \/ t = Len(tables') /\ q = at /\ tables'[t][q].win = w /\ tables'[t][q].list = N
         \/ \E u \in DOMAIN tables : q \in DOMAIN tables[u] /\ tables'[t][q] = tables[u][q]
<1>1. DOMAIN tables' = 1 .. Len(tables') /\ Len(tables') \in Nat
  BY LenProperties DEF Attached
<1>2. CASE t # Len(tables')
  <2>1. t \in 1 .. Len(tables') - 1
    BY <1>1, <1>2
  <2>2. QED
    BY <2>1 DEF Attached
<1>3. CASE t = Len(tables')
  <2>1. q \in 1 .. Len(Rows') /\ tables'[t] = Rows'
    BY <1>3 DEF Attached, Rows
  <2>2. CASE q = at
    BY <1>3, <2>1, <2>2 DEF Attached
  <2>3. CASE q # at
    <3>1. Len(Rows) \in Nat /\ DOMAIN Rows = 1 .. Len(Rows) /\ Len(tables) \in DOMAIN tables
      BY RowFacts
    <3>2. q \in 1 .. Len(Rows)
      BY <2>1, <2>3, <3>1 DEF Attached
    <3>3. tables'[t][q] = Rows[q]
      BY <2>1, <2>3, <3>2 DEF Attached
    <3>4. q \in DOMAIN tables[Len(tables)] /\ tables'[t][q] = tables[Len(tables)][q]
      BY <3>1, <3>2, <3>3 DEF Rows
    <3>5. QED
      BY <3>1, <3>4
  <2>4. QED
    BY <2>2, <2>3
<1>4. QED
  BY <1>2, <1>3

\* An attachment leaves sound registries.
LEMMA AttachKeeps ==
  ASSUME RegistriesOK, NEW w \in Windows, NEW l \in Listeners, NEW at, NEW N, Attached(w, l, at, N)
  PROVE  RegistriesOK'
<1>1. /\ Keeps(segs, segs') /\ IsList(segs', N) /\ globals' = globals
      /\ N.seg = ListOf(w).seg \/ N.seg = Len(segs) + 1
      /\ N.seg # 0
  BY DEF Attached, IsAppended
<1>2. segs \in Seq(Seq(Listeners)) /\ segs' \in Seq(Seq(Listeners)) /\ Len(segs) \in Nat
  BY <1>1, LenProperties DEF Keeps, RegistriesOK
<1>3. /\ Len(Rows) \in Nat /\ DOMAIN Rows = 1 .. Len(Rows) /\ Len(tables) \in DOMAIN tables
      /\ DOMAIN tables = 1 .. Len(tables)
  BY RowFacts
<1>4. IsList(segs', globals')
  BY <1>1, <1>2, ListStays DEF RegistriesOK
<1>5. w # Broadcast /\ (RowFor(w) # 0 => /\ RowFor(w) \in DOMAIN Rows /\ Rows[RowFor(w)].win = w
                                        /\ ListOf(w) = Rows[RowFor(w)].list)
  BY RowForFinds, RouteAssumption DEF ListOf
<1>6. RowFor(w) = 0 => ListOf(w).seg = 0
  BY <1>5 DEF ListOf, NoSeg
<1>7. N.seg # Len(segs) + 1 => /\ RowFor(w) \in DOMAIN tables[Len(tables)]
                              /\ tables[Len(tables)][RowFor(w)].win = w
                              /\ tables[Len(tables)][RowFor(w)].list.seg = N.seg
  BY <1>1, <1>5, <1>6 DEF Rows
<1>8. globals.seg \in Nat /\ globals.seg <= Len(segs)
  BY DEF RegistriesOK, IsList, ListType
<1>9. N.seg # globals.seg
  <2>1. CASE N.seg = Len(segs) + 1
    BY <1>2, <1>8, <2>1
  <2>2. CASE N.seg # Len(segs) + 1
    <3>1. PICK v \in DOMAIN tables : \E x \in DOMAIN tables[v] : tables[v][x].list.seg = N.seg
      BY <1>3, <1>7, <2>2
    <3>2. PICK x \in DOMAIN tables[v] : tables[v][x].list.seg = N.seg
      BY <3>1
    <3>3. QED
      BY <1>1, <3>2 DEF RegistriesOK
  <2>3. QED
    BY <2>1, <2>2
\* A row there was with the segment of the new list is of the same window.
<1>10. ASSUME NEW u \in DOMAIN tables, NEW q \in DOMAIN tables[u], tables[u][q].list.seg = N.seg
       PROVE  tables[u][q].win = w
  <2>1. tables[u][q].list.seg \in Nat /\ tables[u][q].list.seg <= Len(segs)
    BY DEF RegistriesOK, IsList, ListType
  <2>2. N.seg # Len(segs) + 1
    BY <1>2, <1>10, <2>1
  <2>3. QED
    <3>1. PICK v \in DOMAIN tables :
            \E x \in DOMAIN tables[v] : tables[v][x].list.seg = N.seg /\ tables[v][x].win = w
      BY <1>3, <1>7, <2>2
    <3>2. PICK x \in DOMAIN tables[v] : tables[v][x].list.seg = N.seg /\ tables[v][x].win = w
      BY <3>1
    <3>3. QED
      BY <1>1, <1>10, <3>2 DEF RegistriesOK
<1>11. \A r \in 1 .. Len(Rows) : r \in 1 .. Len(Rows') /\ Rows'[r].win = Rows[r].win
  <2> TAKE r \in 1 .. Len(Rows)
  <2>1. r \in 1 .. Len(Rows')
    BY <1>3 DEF Attached
  <2>2. CASE r = at
    <3>1. at = RowFor(w) /\ at # 0
      BY <1>3, <2>2 DEF Attached
    <3>2. QED
      BY <1>5, <2>1, <2>2, <3>1 DEF Attached
  <2>3. CASE r # at
    BY <2>1, <2>3 DEF Attached
  <2>4. QED
    BY <2>2, <2>3
<1>12. DOMAIN Rows' = 1 .. Len(Rows') /\ at \in 1 .. Len(Rows') /\ Rows'[at].win = w
  BY DEF Attached
<1>13. \A t \in DOMAIN tables' : \A q \in DOMAIN tables'[t] :
         /\ IsList(segs', tables'[t][q].list)
         /\ tables'[t][q].list.seg # 0 => tables'[t][q].list.seg # globals'.seg
         /\ q \in DOMAIN Rows' /\ Rows'[q].win = tables'[t][q].win
  <2> TAKE t \in DOMAIN tables'
  <2> TAKE q \in DOMAIN tables'[t]
  <2>1. CASE q = at /\ tables'[t][q].win = w /\ tables'[t][q].list = N
    BY <1>1, <1>9, <1>12, <2>1
  <2>2. ASSUME NEW u \in DOMAIN tables, q \in DOMAIN tables[u], tables'[t][q] = tables[u][q]
        PROVE  /\ IsList(segs', tables'[t][q].list)
               /\ tables'[t][q].list.seg # 0 => tables'[t][q].list.seg # globals'.seg
               /\ q \in DOMAIN Rows' /\ Rows'[q].win = tables'[t][q].win
    <3>1. PICK L : L = tables[u][q].list
      OBVIOUS
    <3>2. /\ IsList(segs, L) /\ (L.seg # 0 => L.seg # globals.seg)
          /\ q \in DOMAIN Rows /\ Rows[q].win = tables[u][q].win
      BY <2>2, <3>1 DEF RegistriesOK
    <3>3. IsList(segs', L)
      BY <1>1, <1>2, <3>2, ListStays
    <3>4. QED
      BY <1>1, <1>3, <1>11, <1>12, <2>2, <3>1, <3>2, <3>3
  <2>3. QED
    BY <2>1, <2>2, OldOrGrown
<1>14. \A t, u \in DOMAIN tables' : \A r \in DOMAIN tables'[t], q \in DOMAIN tables'[u] :
         tables'[t][r].list.seg = tables'[u][q].list.seg /\ tables'[t][r].list.seg # 0
           => tables'[t][r].win = tables'[u][q].win
  <2> TAKE t, u \in DOMAIN tables'
  <2> TAKE r \in DOMAIN tables'[t], q \in DOMAIN tables'[u]
  <2> SUFFICES ASSUME tables'[t][r].list.seg = tables'[u][q].list.seg, tables'[t][r].list.seg # 0
               PROVE  tables'[t][r].win = tables'[u][q].win
    OBVIOUS
  <2>1. \/ tables'[t][r].win = w /\ tables'[t][r].list = N
        \/ \E x \in DOMAIN tables : r \in DOMAIN tables[x] /\ tables'[t][r] = tables[x][r]
    BY OldOrGrown
  <2>2. \/ tables'[u][q].win = w /\ tables'[u][q].list = N
        \/ \E x \in DOMAIN tables : q \in DOMAIN tables[x] /\ tables'[u][q] = tables[x][q]
    BY OldOrGrown
  <2>3. CASE tables'[t][r].win = w /\ tables'[t][r].list = N
    BY <1>10, <2>2, <2>3
  <2>4. CASE tables'[u][q].win = w /\ tables'[u][q].list = N
    BY <1>10, <2>1, <2>4
  <2>5. CASE /\ \E x \in DOMAIN tables : r \in DOMAIN tables[x] /\ tables'[t][r] = tables[x][r]
             /\ \E x \in DOMAIN tables : q \in DOMAIN tables[x] /\ tables'[u][q] = tables[x][q]
    BY <2>5 DEF RegistriesOK
  <2>6. QED
    BY <2>1, <2>2, <2>3, <2>4, <2>5
<1>15. \A r, q \in DOMAIN Rows' : Rows'[r].win = Rows'[q].win => r = q
  <2>1. \A r \in DOMAIN Rows' : r # at => r \in DOMAIN Rows /\ Rows'[r].win = Rows[r].win
    BY <1>3, <1>11, <1>12 DEF Attached
  <2>2. \A r \in DOMAIN Rows' : r # at => Rows'[r].win # w
    BY <1>3, <2>1, RowForFinds DEF Attached
  <2>3. QED
    BY <1>12, <2>1, <2>2 DEF RegistriesOK
<1>16. tables' \in Seq(Seq(TableRows)) /\ tables' # <<>> /\ rowCap' \in Nat
  BY DEF Attached
<1>17. QED
  BY <1>2, <1>4, <1>13, <1>14, <1>15, <1>16 DEF RegistriesOK

\* Key_addListener leaves sound registries.
LEMMA AddKeeps ==
  ASSUME RegistriesOK, NEW l \in Listeners, AddListener(l)
  PROVE  RegistriesOK' /\ IsAppended(globals, l, segs', globals')
<1>1. /\ globals' = Appended(globals, l).list /\ segs' = Appended(globals, l).segs
      /\ tables' = tables /\ rowCap' = rowCap
  BY DEF AddListener
<1>2. segs \in Seq(Seq(Listeners)) /\ IsList(segs, globals)
  BY DEF RegistriesOK
<1>3. IsAppended(globals, l, segs', globals')
  BY <1>1, <1>2, AppendsOne
<1>4. /\ Keeps(segs, segs') /\ IsList(segs', globals') /\ segs' \in Seq(Seq(Listeners))
      /\ globals'.seg = globals.seg \/ globals'.seg = Len(segs) + 1
  BY <1>3 DEF IsAppended, Keeps
<1>5. \A t \in DOMAIN tables : \A q \in DOMAIN tables[t] :
        /\ IsList(segs', tables[t][q].list)
        /\ tables[t][q].list.seg # 0 => tables[t][q].list.seg # globals'.seg
  <2> TAKE t \in DOMAIN tables
  <2> TAKE q \in DOMAIN tables[t]
  <2>1. PICK L : L = tables[t][q].list
    OBVIOUS
  <2>2. IsList(segs, L) /\ (L.seg # 0 => L.seg # globals.seg)
    BY <2>1 DEF RegistriesOK
  <2>3. IsList(segs', L)
    BY <1>2, <1>4, <2>2, ListStays
  <2>4. L.seg \in Nat /\ L.seg <= Len(segs) /\ Len(segs) \in Nat
    BY <1>2, <2>2, LenProperties DEF IsList, ListType
  <2>5. L.seg # 0 => L.seg # globals'.seg
    BY <1>4, <2>2, <2>4
  <2>6. QED
    BY <2>1, <2>3, <2>5
<1>6. Rows' = Rows
  BY <1>1 DEF Rows
<1>7. RegistriesOK'
  BY <1>1, <1>4, <1>5, <1>6 DEF RegistriesOK
<1>8. QED
  BY <1>3, <1>7

\* What a removal does: lists get shorter where they are.
Shrunk ==
  /\ Keeps(segs, segs') /\ rowCap' = rowCap
  /\ IsList(segs', globals') /\ globals'.seg = globals.seg
  /\ tables' \in Seq(Seq(TableRows)) /\ Len(tables') = Len(tables)
  /\ \A t \in DOMAIN tables :
       /\ DOMAIN tables'[t] = DOMAIN tables[t]
       /\ \A q \in DOMAIN tables[t] :
            /\ tables'[t][q].win = tables[t][q].win
            /\ tables'[t][q].list.seg = tables[t][q].list.seg
            /\ IsList(segs', tables'[t][q].list)

\* A removal leaves sound registries.
LEMMA ShrunkKeeps ==
  ASSUME RegistriesOK, Shrunk
  PROVE  /\ RegistriesOK' /\ DOMAIN tables' = DOMAIN tables
         /\ DOMAIN Rows' = DOMAIN Rows /\ \A r \in DOMAIN Rows : Rows'[r].win = Rows[r].win
<1>1. /\ Len(tables) \in Nat \ {0} /\ DOMAIN tables = 1 .. Len(tables)
      /\ Len(tables) \in DOMAIN tables
  BY RowFacts
<1>2. DOMAIN tables' = DOMAIN tables /\ tables' # <<>>
  BY <1>1, LenProperties DEF Shrunk
<1>3. DOMAIN Rows' = DOMAIN Rows /\ \A r \in DOMAIN Rows : Rows'[r].win = Rows[r].win
  BY <1>1 DEF Shrunk, Rows
<1>4. segs' \in Seq(Seq(Listeners)) /\ rowCap' \in Nat
  BY DEF Shrunk, Keeps, RegistriesOK
<1>5. \A t \in DOMAIN tables' : \A r \in DOMAIN tables'[t] :
       /\ IsList(segs', tables'[t][r].list)
       /\ tables'[t][r].list.seg # 0 => tables'[t][r].list.seg # globals'.seg
       /\ r \in DOMAIN Rows' /\ Rows'[r].win = tables'[t][r].win
  <2> TAKE t \in DOMAIN tables'
  <2> TAKE r \in DOMAIN tables'[t]
  <2>1. t \in DOMAIN tables /\ r \in DOMAIN tables[t]
    BY <1>2 DEF Shrunk
  <2>2. /\ IsList(segs', tables'[t][r].list) /\ tables'[t][r].list.seg = tables[t][r].list.seg
        /\ tables'[t][r].win = tables[t][r].win /\ globals'.seg = globals.seg
    BY <2>1 DEF Shrunk
  <2>3. /\ r \in DOMAIN Rows /\ Rows[r].win = tables[t][r].win
        /\ tables[t][r].list.seg # 0 => tables[t][r].list.seg # globals.seg
    BY <2>1 DEF RegistriesOK
  <2>4. QED
    BY <1>3, <2>2, <2>3
<1>6. \A t, u \in DOMAIN tables' : \A r \in DOMAIN tables'[t], q \in DOMAIN tables'[u] :
       tables'[t][r].list.seg = tables'[u][q].list.seg /\ tables'[t][r].list.seg # 0
         => tables'[t][r].win = tables'[u][q].win
  <2> TAKE t, u \in DOMAIN tables'
  <2> TAKE r \in DOMAIN tables'[t], q \in DOMAIN tables'[u]
  <2>1. t \in DOMAIN tables /\ u \in DOMAIN tables /\ r \in DOMAIN tables[t] /\ q \in DOMAIN tables[u]
    BY <1>2 DEF Shrunk
  <2>2. /\ tables'[t][r].list.seg = tables[t][r].list.seg /\ tables'[t][r].win = tables[t][r].win
        /\ tables'[u][q].list.seg = tables[u][q].list.seg /\ tables'[u][q].win = tables[u][q].win
    BY <2>1 DEF Shrunk
  <2>3. tables[t][r].list.seg = tables[u][q].list.seg /\ tables[t][r].list.seg # 0
          => tables[t][r].win = tables[u][q].win
    BY <2>1 DEF RegistriesOK
  <2>4. QED
    BY <2>2, <2>3
<1>7. \A r, q \in DOMAIN Rows' : Rows'[r].win = Rows'[q].win => r = q
  BY <1>3 DEF RegistriesOK
<1>8. IsList(segs', globals') /\ tables' \in Seq(Seq(TableRows))
  BY DEF Shrunk
<1>9. QED
  BY <1>2, <1>3, <1>4, <1>5, <1>6, <1>7, <1>8 DEF RegistriesOK

\* A list that is shorter is a list still.
LEMMA ShorterList ==
  ASSUME NEW ss, NEW L, IsList(ss, L), NEW n \in Nat, n <= L.count
  PROVE  IsList(ss, [L EXCEPT !.count = n]) /\ [L EXCEPT !.count = n].seg = L.seg
<1>1. L \in [seg : Nat, count : Nat, cap : Nat]
  BY DEF IsList, ListType
<1>2. [L EXCEPT !.count = n] = [seg |-> L.seg, count |-> n, cap |-> L.cap]
  BY <1>1
<1>3. [L EXCEPT !.count = n] \in ListType
  BY <1>1, <1>2 DEF ListType
<1>4. QED
  BY <1>1, <1>2, <1>3 DEF IsList

\* Key_detachWindow and Key_detachWindowAll store a smaller count in the row.
LEMMA RowShrinks ==
  ASSUME RegistriesOK, NEW w \in Windows, RowFor(w) # 0, Keeps(segs, segs'),
         NEW n \in Nat, n <= ListOf(w).count,
         tables' = Last(tables, SetRow(Rows, RowFor(w), [ListOf(w) EXCEPT !.count = n])),
         globals' = globals, rowCap' = rowCap
  PROVE  Shrunk
<1> DEFINE r == RowFor(w)
           L == ListOf(w)
           N == [L EXCEPT !.count = n]
           k == Len(tables)
<1>1. /\ Rows \in Seq(TableRows) /\ DOMAIN Rows = 1 .. Len(Rows)
      /\ k \in DOMAIN tables /\ DOMAIN tables = 1 .. k /\ tables \in Seq(Seq(TableRows))
      /\ Rows = tables[k]
  BY RowFacts DEF RegistriesOK, Rows
<1>2. r \in DOMAIN Rows /\ L = Rows[r].list /\ w # Broadcast /\ w \in Scopes
  BY RowForFinds, RouteAssumption DEF ListOf, Scopes
<1>3. IsList(segs, L) /\ segs \in Seq(Seq(Listeners))
  BY <1>2, ListsOfScopes DEF RegistriesOK
<1>4. IsList(segs', L) /\ IsList(segs', globals')
  <2>1. IsList(segs', L)
    <3> HIDE DEF L
    <3>1. QED
      BY <1>3, ListStays
  <2>2. IsList(segs, globals)
    BY DEF RegistriesOK
  <2>3. IsList(segs', globals)
    BY <1>3, <2>2, ListStays
  <2>4. QED
    BY <2>1, <2>3
<1>5. IsList(segs', N) /\ N.seg = L.seg
  BY <1>4, ShorterList
<1>6. N \in ListType
  BY <1>5 DEF IsList
<1> HIDE DEF N
<1>7. PICK e \in TableRows : e = [Rows[r] EXCEPT !.list = N] /\ e.win = Rows[r].win /\ e.list = N
  <2>1. Rows[r] \in [win : Windows, list : ListType]
    BY <1>1, <1>2, ElementOfSeq DEF TableRows
  <2>2. [Rows[r] EXCEPT !.list = N] = [win |-> Rows[r].win, list |-> N]
    BY <2>1
  <2>3. [win |-> Rows[r].win, list |-> N] \in TableRows
    BY <1>6, <2>1 DEF TableRows
  <2>4. QED
    BY <2>2, <2>3
<1>8. PICK new : new = SetRow(Rows, r, N)
  OBVIOUS
<1>9. new = [Rows EXCEPT ![r] = e]
  BY <1>7, <1>8 DEF SetRow
<1>10. /\ new \in Seq(TableRows) /\ Len(new) = Len(Rows) /\ DOMAIN new = DOMAIN Rows
       /\ \A q \in DOMAIN Rows : new[q] = IF q = r THEN e ELSE Rows[q]
  <2> HIDE DEF r
  <2>1. QED
    BY <1>1, <1>2, <1>9, ExceptSeq, LenProperties
<1>11. tables' = [tables EXCEPT ![k] = new]
  BY <1>8 DEF N, Last
<1>12. /\ tables' \in Seq(Seq(TableRows)) /\ Len(tables') = k
       /\ \A t \in 1 .. k : tables'[t] = IF t = k THEN new ELSE tables[t]
  <2>1. PICK T : T = Seq(TableRows)
    OBVIOUS
  <2>2. PICK j : j = k
    OBVIOUS
  <2>3. tables \in Seq(T) /\ new \in T /\ j \in 1 .. Len(tables)
    BY <1>1, <1>10, <2>1, <2>2
  <2>4. tables' = [tables EXCEPT ![j] = new]
    BY <1>11, <2>2
  <2>5. /\ [tables EXCEPT ![j] = new] \in Seq(T) /\ Len([tables EXCEPT ![j] = new]) = Len(tables)
        /\ \A t \in 1 .. Len(tables) : [tables EXCEPT ![j] = new][t] = IF t = j THEN new ELSE tables[t]
    BY <2>3, ExceptSeq
  <2>6. QED
    BY <2>1, <2>2, <2>4, <2>5
<1>13. \A t \in DOMAIN tables :
         /\ DOMAIN tables'[t] = DOMAIN tables[t]
         /\ \A q \in DOMAIN tables[t] :
              /\ tables'[t][q].win = tables[t][q].win
              /\ tables'[t][q].list.seg = tables[t][q].list.seg
              /\ IsList(segs', tables'[t][q].list)
  <2> TAKE t \in DOMAIN tables
  <2>1. DOMAIN tables'[t] = DOMAIN tables[t]
    BY <1>1, <1>10, <1>12
  <2>2. ASSUME NEW q \in DOMAIN tables[t]
        PROVE  /\ tables'[t][q].win = tables[t][q].win
               /\ tables'[t][q].list.seg = tables[t][q].list.seg
               /\ IsList(segs', tables'[t][q].list)
    <3>1. CASE t = k /\ q = r
      BY <1>1, <1>2, <1>5, <1>7, <1>10, <1>12, <3>1
    <3>2. CASE ~(t = k /\ q = r)
      <4>1. tables'[t][q] = tables[t][q]
        BY <1>1, <1>10, <1>12, <3>2
      <4>2. PICK M : M = tables[t][q].list
        OBVIOUS
      <4>3. IsList(segs, M)
        BY <4>2 DEF RegistriesOK
      <4>4. IsList(segs', M)
        BY <1>3, <4>3, ListStays
      <4>5. QED
        BY <4>1, <4>2, <4>4
    <3>3. QED
      BY <3>1, <3>2
  <2>3. QED
    BY <2>1, <2>2
<1>14. QED
  BY <1>4, <1>12, <1>13 DEF Shrunk

\* A list that holds a listener is not empty.
LEMMA HasOne ==
  ASSUME NEW L, NEW l, Times(l, Items(L)) > 0
  PROVE  L.count # 0
<1> SUFFICES ASSUME L.count = 0 PROVE FALSE
  OBVIOUS
<1>1. Items(L) = <<>>
  BY DEF Items
<1>2. {i \in DOMAIN Items(L) : Items(L)[i] = l} = {}
  BY <1>1
<1>3. Times(l, Items(L)) = 0
  BY <1>2, FS_EmptySet DEF Times
<1>4. QED
  BY <1>3

\* Key_removeListener, Key_detachWindow and Key_detachWindowAll shorten one list
\* in place; a delivery under way is told of it by nothing.
LEMMA RemovalDoes ==
  ASSUME RegistriesOK, NEW w, NEW l \in Listeners,
         RemoveListener(l) \/ (w \in Windows /\ (DetachWindow(w, l) \/ DetachWindowAll(w)))
  PROVE  Shrunk /\ touched' # {} /\ UNCHANGED <<pass, heard, start, astray, moved>>
<1>0. /\ segs \in Seq(Seq(Listeners)) /\ IsList(segs, globals)
      /\ w \in Windows => IsList(segs, ListOf(w)) /\ w # Broadcast
  BY ListsOfScopes, RouteAssumption DEF RegistriesOK, Scopes
<1>1. CASE RemoveListener(l)
  <2>1. /\ segs' = Holed(globals, l) /\ globals' = [globals EXCEPT !.count = @ - 1]
        /\ tables' = tables /\ rowCap' = rowCap
        /\ touched' = touched \union {<<Broadcast, l>>} /\ Times(l, Items(globals)) > 0
        /\ UNCHANGED <<pass, heard, start, astray, moved>>
    BY <1>1 DEF RemoveListener, MayChange
  <2>2. globals.count # 0 /\ globals.count \in Nat
    BY <1>0, <2>1, HasOne DEF IsList, ListType
  <2>3. Keeps(segs, segs')
    BY <1>0, <2>1, <2>2, HoleKeeps
  <2>4. IsList(segs', globals)
    BY <1>0, <2>3, ListStays
  <2>5. PICK n \in Nat : n = globals.count - 1 /\ n <= globals.count
    BY <2>2
  <2>6. globals' = [globals EXCEPT !.count = n]
    BY <2>1, <2>5
  <2>7. IsList(segs', globals') /\ globals'.seg = globals.seg
    BY <2>4, <2>5, <2>6, ShorterList
  <2>8. \A t \in DOMAIN tables : \A q \in DOMAIN tables[t] : IsList(segs', tables[t][q].list)
    <3> TAKE t \in DOMAIN tables
    <3> TAKE q \in DOMAIN tables[t]
    <3>1. PICK M : M = tables[t][q].list
      OBVIOUS
    <3>2. IsList(segs, M)
      BY <3>1 DEF RegistriesOK
    <3>3. QED
      BY <1>0, <2>3, <3>1, <3>2, ListStays
  <2>9. tables' \in Seq(Seq(TableRows))
    BY <2>1 DEF RegistriesOK
  <2>10. Shrunk
    BY <2>1, <2>3, <2>7, <2>8, <2>9 DEF Shrunk
  <2>11. QED
    BY <2>1, <2>10
<1>2. CASE w \in Windows /\ DetachWindow(w, l)
  <2>1. /\ segs' = Holed(ListOf(w), l) /\ rowCap' = rowCap /\ globals' = globals
        /\ tables' = Last(tables, SetRow(Rows, RowFor(w), [ListOf(w) EXCEPT !.count = @ - 1]))
        /\ touched' = touched \union {<<w, l>>} /\ Times(l, Items(ListOf(w))) > 0
        /\ UNCHANGED <<pass, heard, start, astray, moved>>
    BY <1>2 DEF DetachWindow, MayChange
  <2>2. ListOf(w).count # 0 /\ ListOf(w).count \in Nat
    BY <1>0, <1>2, <2>1, HasOne DEF IsList, ListType
  <2>3. RowFor(w) # 0
    BY <1>0, <1>2, <2>2 DEF ListOf, NoSeg
  <2>4. Keeps(segs, segs')
    <3>1. PICK L : L = ListOf(w)
      OBVIOUS
    <3>2. QED
      BY <1>0, <1>2, <2>1, <2>2, <3>1, HoleKeeps
  <2>5. PICK n \in Nat : n = ListOf(w).count - 1 /\ n <= ListOf(w).count
    BY <2>2
  <2>6. [ListOf(w) EXCEPT !.count = @ - 1] = [ListOf(w) EXCEPT !.count = n]
    BY <2>5
  <2>7. Shrunk
    BY <1>2, <2>1, <2>3, <2>4, <2>5, <2>6, RowShrinks
  <2>8. QED
    BY <2>1, <2>7
<1>3. CASE w \in Windows /\ DetachWindowAll(w)
  <2>1. /\ segs' = segs /\ rowCap' = rowCap /\ globals' = globals /\ RowFor(w) # 0
        /\ tables' = Last(tables, SetRow(Rows, RowFor(w), [ListOf(w) EXCEPT !.count = 0]))
        /\ touched' = touched \union {<<w, x>> : x \in Listeners}
        /\ UNCHANGED <<pass, heard, start, astray, moved>>
    BY <1>3 DEF DetachWindowAll, MayChange
  <2>2. Keeps(segs, segs')
    <3>1. Len(segs) \in Nat
      BY <1>0, LenProperties
    <3>2. QED
      BY <1>0, <1>3, <2>1, <3>1 DEF Keeps
  <2>3. 0 \in Nat /\ 0 <= ListOf(w).count
    BY <1>0, <1>3 DEF IsList, ListType
  <2>4. Shrunk
    BY <1>3, <2>1, <2>2, <2>3, RowShrinks
  <2>5. <<w, l>> \in touched'
    BY <2>1
  <2>6. QED
    BY <2>1, <2>4, <2>5
<1>4. QED
  BY <1>1, <1>2, <1>3

\* What a removal leaves: a delivery under way keeps its place, and none but those
\* in its scope were called.
LEMMA RemovalKeeps ==
  ASSUME RouteInv, NEW w, NEW l \in Listeners,
         RemoveListener(l) \/ (w \in Windows /\ (DetachWindow(w, l) \/ DetachWindowAll(w)))
  PROVE  RouteInv'
<1>1. /\ Shrunk /\ touched' # {}
      /\ pass' = pass /\ heard' = heard /\ start' = start /\ astray' = astray /\ moved' = moved
  BY RemovalDoes DEF RouteInv
<1>2. /\ RegistriesOK' /\ DOMAIN tables' = DOMAIN tables
      /\ DOMAIN Rows' = DOMAIN Rows /\ \A r \in DOMAIN Rows : Rows'[r].win = Rows[r].win
  BY <1>1, ShrunkKeeps DEF RouteInv
<1>3. Len(tables') = Len(tables)
  BY <1>1 DEF Shrunk
<1>4. Len(Rows') = Len(Rows)
  <2>1. Rows' \in Seq(TableRows) /\ Rows \in Seq(TableRows)
    <3>1. RegistriesOK' => RowsAreTable'
      BY RowsKnown, PTL
    <3>2. QED
      BY <1>2, <3>1, RowFacts DEF RouteInv, RowsAreTable
  <2>2. Len(Rows) \in Nat /\ Len(Rows') \in Nat /\ DOMAIN Rows = 1 .. Len(Rows) /\ DOMAIN Rows' = 1 .. Len(Rows')
    BY <2>1, LenProperties
  <2>3. QED
    BY <1>2, <2>2
<1>5. AtRow' <=> AtRow
  BY <1>1 DEF AtRow
<1>6. AtRow => /\ pass.table \in DOMAIN tables /\ pass.row \in DOMAIN tables[pass.table]
               /\ tables'[pass.table][pass.row].win = tables[pass.table][pass.row].win
               /\ DOMAIN tables'[pass.table] = DOMAIN tables[pass.table]
  BY <1>1 DEF RouteInv, PassOK, Shrunk
<1>7. PassOK'
  BY <1>1, <1>2, <1>3, <1>4, <1>5, <1>6 DEF RouteInv, PassOK
<1>8. HeardOK'
  BY <1>1 DEF RouteInv, HeardOK, InScope
<1>9. QED
  BY <1>2, <1>7, <1>8 DEF RouteInv

\* An append to one list leaves the slots of another as they are, and those of an
\* old copy of it that is not longer.
LEMMA OthersUntouched ==
  ASSUME segs \in Seq(Seq(Listeners)), NEW L, IsList(segs, L), NEW l, NEW new, NEW N,
         IsAppended(L, l, new, N),
         NEW M, IsList(segs, M), M.seg # L.seg \/ M.count <= L.count \/ M.seg = 0
  PROVE  /\ IsList(new, M)
         /\ \A i \in 1 .. M.count : new[M.seg][i] = segs[M.seg][i]
<1>1. Keeps(segs, new)
  BY DEF IsAppended
<1>2. ASSUME NEW i \in 1 .. M.count PROVE new[M.seg][i] = segs[M.seg][i]
  <2>1. /\ M.count \in Nat /\ M.seg \in Nat /\ M.cap \in Nat /\ M.count <= M.cap
        /\ M.seg = 0 => M.cap = 0
    BY DEF IsList, ListType
  <2>2. M.count # 0 /\ M.seg # 0
    BY <1>2, <2>1
  <2>3. M.seg \in 1 .. Len(segs) /\ M.count <= Len(segs[M.seg]) /\ i \in 1 .. Len(segs[M.seg])
    BY <1>2, <2>1, <2>2, LenProperties DEF IsList
  <2>4. M.seg # L.seg \/ (M.count <= L.count)
    BY <2>2
  <2>5. CASE M.seg # L.seg
    BY <2>3, <2>5 DEF IsAppended
  <2>6. CASE M.seg = L.seg /\ M.count <= L.count
    <3>1. i <= L.count
      <4>1. L.count \in Nat
        BY DEF IsList, ListType
      <4>2. QED
        BY <1>2, <2>1, <2>6, <4>1
    <3>2. QED
      BY <2>3, <3>1 DEF IsAppended
  <2>7. QED
    BY <2>4, <2>5, <2>6
<1>3. QED
  BY <1>1, <1>2, ListStays

\* One list has a listener more, and the lists of the other scopes are as they were.
GrowsAt(w, l, N) ==
  /\ IsAppended(ListOf(w), l, segs', N) /\ ListOf(w)' = N
  /\ \A x \in Scopes : x # w =>
       /\ ListOf(x)' = ListOf(x)
       /\ ListOf(x).seg # ListOf(w).seg \/ ListOf(x).seg = 0

\* Whoever is registered stays so, in the same place.
LEMMA ScopesGrow ==
  ASSUME RegistriesOK, RegistriesOK', NEW w \in Scopes, NEW l, NEW N, GrowsAt(w, l, N)
  PROVE  \A x \in Scopes : Begins(Current(x), Current(x)')
<1>1. CurrentIsRight /\ CurrentIsRight'
  BY CurrentKnown, PTL
<1> SUFFICES ASSUME NEW x \in Scopes PROVE Begins(Current(x), Current(x)')
  OBVIOUS
<1>2. /\ Len(Current(x)) = ListOf(x).count /\ Len(Current(x)) \in Nat
      /\ \A i \in 1 .. ListOf(x).count : Current(x)[i] = segs[ListOf(x).seg][i]
  BY <1>1 DEF CurrentIsRight
<1>3. /\ Len(Current(x)') = ListOf(x)'.count /\ Len(Current(x)') \in Nat
      /\ \A i \in 1 .. ListOf(x)'.count : Current(x)'[i] = segs'[ListOf(x)'.seg][i]
  BY <1>1 DEF CurrentIsRight
<1>4. CASE x = w
  <2>1. /\ N.count = ListOf(x).count + 1 /\ ListOf(x)' = N
        /\ \A i \in 1 .. ListOf(x).count : segs'[N.seg][i] = segs[ListOf(x).seg][i]
    BY <1>4 DEF GrowsAt, IsAppended
  <2>2. QED
    BY <1>2, <1>3, <2>1 DEF Begins
<1>5. CASE x # w
  <2>1. PICK M : M = ListOf(x)
    OBVIOUS
  <2>2. PICK L : L = ListOf(w)
    OBVIOUS
  <2>3. IsList(segs, M) /\ IsList(segs, L) /\ segs \in Seq(Seq(Listeners)) /\ IsAppended(L, l, segs', N)
    BY <2>1, <2>2, ListsOfScopes DEF RegistriesOK, GrowsAt
  <2>4. ListOf(x)' = M /\ (M.seg # L.seg \/ M.seg = 0)
    BY <1>5, <2>1, <2>2 DEF GrowsAt
  <2>5. \A i \in 1 .. M.count : segs'[M.seg][i] = segs[M.seg][i]
    BY <2>3, <2>4, OthersUntouched
  <2>6. QED
    BY <1>2, <1>3, <2>1, <2>4, <2>5 DEF Begins
<1>6. QED
  BY <1>4, <1>5

\* So does a list that a loop has a pointer to: it grows with the one there is now,
\* or is left behind as it was.
LEMMA PointerGrows ==
  ASSUME RegistriesOK, RegistriesOK', NEW w \in Scopes, NEW l, NEW N, GrowsAt(w, l, N),
         NEW x \in Scopes, NEW P, IsList(segs, P), NEW Q,
         Begins(Items(P), Current(x)),
         \/ x = w /\ P = ListOf(w) /\ Q = N
         \/ Q = P /\ (x = w \/ P.seg # ListOf(w).seg \/ P.seg = 0)
  PROVE  P.count <= Q.count /\ Begins(ItemsIn(segs', Q), Current(x)')
<1>1. Begins(Current(x), Current(x)') /\ CurrentIsRight /\ CurrentIsRight'
  <2>1. Begins(Current(x), Current(x)')
    BY ScopesGrow
  <2>2. CurrentIsRight /\ CurrentIsRight'
    BY CurrentKnown, PTL
  <2>3. QED
    BY <2>1, <2>2
<1>2. segs \in Seq(Seq(Listeners)) /\ segs' \in Seq(Seq(Listeners))
  BY DEF RegistriesOK
<1>3. CASE x = w /\ P = ListOf(w) /\ Q = N
  <2>1. IsList(segs', Q) /\ Q.count = P.count + 1 /\ P.count \in Nat
    BY <1>3 DEF GrowsAt, IsAppended, IsList, ListType
  <2>2. /\ Len(ItemsIn(segs', Q)) = Q.count
        /\ \A i \in 1 .. Q.count : ItemsIn(segs', Q)[i] = segs'[Q.seg][i]
    BY <1>2, <2>1, ItemsInList
  <2>3. Q = ListOf(x)'
    BY <1>3 DEF GrowsAt
  <2>4. /\ Len(Current(x)') = Q.count
        /\ \A i \in 1 .. Q.count : Current(x)'[i] = segs'[Q.seg][i]
    BY <1>1, <2>3 DEF CurrentIsRight
  <2>5. QED
    BY <2>1, <2>2, <2>4 DEF Begins
<1>4. CASE Q = P /\ (x = w \/ P.seg # ListOf(w).seg \/ P.seg = 0)
  <2>1. PICK L : L = ListOf(w) /\ IsAppended(L, l, segs', N) /\ IsList(segs, L)
    BY ListsOfScopes DEF GrowsAt
  <2>2. /\ Items(P) \in Seq(Listeners) /\ Len(Items(P)) = P.count /\ P.count \in Nat
        /\ \A i \in 1 .. P.count : Items(P)[i] = segs[P.seg][i]
    BY <1>2, ItemsOfList
  <2>3. P.seg # L.seg \/ P.count <= L.count \/ P.seg = 0
    <3>1. ASSUME x = w PROVE P.count <= L.count
      BY <1>1, <2>1, <2>2, <3>1 DEF Begins, CurrentIsRight
    <3>2. QED
      BY <1>4, <2>1, <3>1
  <2>4. IsList(segs', P) /\ \A i \in 1 .. P.count : segs'[P.seg][i] = segs[P.seg][i]
    BY <1>2, <2>1, <2>3, OthersUntouched
  <2>5. /\ Len(ItemsIn(segs', P)) = P.count
        /\ \A i \in 1 .. P.count : ItemsIn(segs', P)[i] = segs'[P.seg][i]
    BY <1>2, <2>4, ItemsInList
  <2>6. PICK a \in Nat, b \in Nat : a = Len(Current(x)) /\ b = Len(Current(x)') /\ a <= b
    BY <1>1 DEF CurrentIsRight, Begins
  <2>7. P.count <= a /\ \A i \in 1 .. P.count : Items(P)[i] = Current(x)[i]
    BY <2>2, <2>6 DEF Begins
  <2>8. \A i \in 1 .. P.count : i \in 1 .. a /\ Current(x)'[i] = Current(x)[i]
    BY <1>1, <2>2, <2>6, <2>7 DEF Begins
  <2>9. \A i \in 1 .. P.count : ItemsIn(segs', P)[i] = Current(x)'[i]
    BY <2>2, <2>4, <2>5, <2>7, <2>8
  <2>10. P.count <= b
    BY <2>2, <2>6, <2>7
  <2>11. QED
    BY <1>4, <2>2, <2>5, <2>6, <2>9, <2>10 DEF Begins
<1>5. QED
  BY <1>3, <1>4

\* Counting a beginning counts the same in both.
LEMMA AmongBeginning ==
  ASSUME NEW s, NEW t, Len(s) \in Nat, Begins(s, t), NEW m \in 0 .. Len(s), NEW l
  PROVE  Among(l, s, m) = Among(l, t, m)
<1>1. \A i \in 1 .. m : s[i] = t[i]
  BY DEF Begins
<1>2. {i \in 1 .. m : s[i] = l} = {i \in 1 .. m : t[i] = l}
  BY <1>1
<1>3. QED
  BY <1>2 DEF Among

\* The beginning of a beginning.
LEMMA BeginsOn ==
  ASSUME NEW s, NEW t, NEW u, Len(s) \in Nat, Len(t) \in Nat, Len(u) \in Nat, Begins(s, t), Begins(t, u)
  PROVE  Begins(s, u)
<1>1. \A i \in 1 .. Len(s) : i \in 1 .. Len(t)
  BY DEF Begins
<1>2. QED
  BY <1>1 DEF Begins

\* What a registration does beside the list it is made in: rows keep their place
\* and their window, in every table there has been.
Widened(w, l, N) ==
  /\ RegistriesOK' /\ GrowsAt(w, l, N)
  /\ pass' = pass /\ heard' = heard /\ start' = start /\ astray' = astray /\ touched' = touched
  /\ moved' \in BOOLEAN /\ (moved => moved')
  /\ moved' \/ Len(tables') = Len(tables)
  /\ \A t \in DOMAIN tables :
       /\ t \in DOMAIN tables'
       /\ \A q \in DOMAIN tables[t] :
            /\ q \in DOMAIN tables'[t] /\ tables'[t][q].win = tables[t][q].win
            /\ \/ tables'[t][q].list = tables[t][q].list
               \/ /\ tables[t][q].win = w /\ w # Broadcast
                  /\ tables[t][q].list = ListOf(w) /\ tables'[t][q].list = N
  /\ Len(Rows) <= Len(Rows') /\ Len(Rows') \in Nat
  /\ \A x \in Windows : IF RowFor(x) = 0 THEN RowFor(x)' \in {0, Len(Rows) + 1}
                        ELSE RowFor(x)' = RowFor(x)

\* The list that the loop over x is at.
LEMMA ListOfLoop ==
  ASSUME RouteInv, NEW x, LoopAt(x)
  PROVE  /\ x \in Scopes /\ IsList(segs, CurrentList)
         /\ IF pass.row = 0 THEN x = Broadcast /\ CurrentList = globals
            ELSE /\ pass.table \in DOMAIN tables /\ pass.row \in DOMAIN tables[pass.table]
                 /\ x \in Windows /\ x # Broadcast
                 /\ tables[pass.table][pass.row].win = x
                 /\ CurrentList = tables[pass.table][pass.row].list
<1>1. CASE pass.row = 0
  BY <1>1 DEF RouteInv, RegistriesOK, LoopAt, CurrentList, CurrentScope, Scopes
<1>2. CASE pass.row # 0
  <2>1. AtRow
    BY <1>2 DEF RouteInv, PassOK, LoopAt, AtRow
  <2>2. pass.table \in DOMAIN tables /\ pass.row \in DOMAIN tables[pass.table]
    BY <2>1 DEF RouteInv, PassOK
  <2>3. PICK t : t = pass.table /\ t \in DOMAIN tables
    BY <2>2
  <2>4. PICK q : q = pass.row /\ q \in DOMAIN tables[t]
    BY <2>2, <2>3
  <2>5. tables[t] \in Seq(TableRows) /\ DOMAIN tables[t] = 1 .. Len(tables[t])
    BY <2>3, RowFacts DEF RouteInv
  <2>6. tables[t][q] \in TableRows
    BY <2>4, <2>5, ElementOfSeq
  <2>7. tables[t][q].win \in Windows
    BY <2>6 DEF TableRows
  <2>8. IsList(segs, tables[t][q].list)
    BY <2>3, <2>4 DEF RouteInv, RegistriesOK
  <2>9. x = tables[t][q].win /\ CurrentList = tables[t][q].list
    BY <1>2, <2>3, <2>4 DEF LoopAt, CurrentList, CurrentScope
  <2>10. QED
    BY <1>2, <2>2, <2>3, <2>4, <2>7, <2>8, <2>9, RouteAssumption DEF Scopes
<1>3. QED
  BY <1>1, <1>2

\* A registration that a listener makes while it is called leaves the delivery in
\* its place.
LEMMA WidenedPass ==
  ASSUME RouteInv, pass.pc \in {"none", "call"}, NEW w, NEW l, NEW N, Widened(w, l, N)
  PROVE  PassOK'
<1>1. pass' = pass /\ astray' = astray /\ moved' \in BOOLEAN /\ (moved => moved')
  BY DEF Widened
<1>2. AtRow' <=> AtRow
  BY <1>1 DEF AtRow
<1>3. ASSUME AtRow
      PROVE  /\ pass.table \in DOMAIN tables' /\ pass.row \in DOMAIN tables'[pass.table]
             /\ tables'[pass.table][pass.row].win = tables[pass.table][pass.row].win
             /\ moved' \/ pass.table = Len(tables')
  <2>1. /\ pass.table \in DOMAIN tables /\ pass.row \in DOMAIN tables[pass.table]
        /\ moved \/ pass.table = Len(tables)
    BY <1>3 DEF RouteInv, PassOK
  <2>2. QED
    BY <1>1, <2>1 DEF Widened
<1>4. Len(Rows) \in Nat /\ Len(Rows') \in Nat /\ Len(Rows) <= Len(Rows')
  BY RowFacts DEF RouteInv, Widened
<1>5. pass.window = Broadcast => pass.r <= Len(Rows') + 1
  BY <1>4 DEF RouteInv, PassOK
<1>6. QED
  BY <1>1, <1>2, <1>3, <1>5 DEF RouteInv, PassOK

\* A segment is of one window.
LEMMA SegmentsOwned ==
  ASSUME RegistriesOK, NEW t \in DOMAIN tables, NEW u \in DOMAIN tables,
         NEW r \in DOMAIN tables[t], NEW q \in DOMAIN tables[u]
  PROVE  tables[t][r].list.seg = tables[u][q].list.seg /\ tables[t][r].list.seg # 0
           => tables[t][r].win = tables[u][q].win
<1>1. \A a, b \in DOMAIN tables : \A i \in DOMAIN tables[a], j \in DOMAIN tables[b] :
        tables[a][i].list.seg = tables[b][j].list.seg /\ tables[a][i].list.seg # 0
          => tables[a][i].win = tables[b][j].win
  BY DEF RegistriesOK
<1>2. QED
  BY <1>1

\* Whom it has called and whom it will call stay as well.
LEMMA WidenedServes ==
  ASSUME RouteInv, pass.pc = "call", NEW w \in Scopes, NEW l, NEW N, Widened(w, l, N),
         start \in [Scopes -> Seq(Listeners)],
         NEW x \in Scopes, Served(x)
  PROVE  Served(x)'
<1>1. /\ pass' = pass /\ heard' = heard /\ start' = start /\ GrowsAt(w, l, N)
      /\ RegistriesOK /\ RegistriesOK'
  BY DEF Widened, RouteInv
<1>2. /\ Begins(Current(x), Current(x)') /\ Len(Current(x)) \in Nat /\ Len(Current(x)') \in Nat
      /\ Len(start[x]) \in Nat
  <2>1. Begins(Current(x), Current(x)')
    BY <1>1, ScopesGrow
  <2>2. CurrentIsRight /\ CurrentIsRight'
    BY <1>1, CurrentKnown, PTL
  <2>3. start[x] \in Seq(Listeners)
    OBVIOUS
  <2>4. QED
    BY <2>1, <2>2, <2>3, LenProperties DEF CurrentIsRight
<1>3. Begins(start[x], Current(x)')
  BY <1>2, BeginsOn DEF Served
<1>4. LoopAt(x)' <=> LoopAt(x)
  <2>1. CurrentScope' = CurrentScope
    <3>1. CASE pass.row = 0
      BY <1>1, <3>1 DEF CurrentScope
    <3>2. CASE pass.row # 0
      <4>1. pass.table \in DOMAIN tables /\ pass.row \in DOMAIN tables[pass.table]
        BY <3>2 DEF RouteInv, PassOK, AtRow
      <4>2. QED
        BY <1>1, <3>2, <4>1 DEF CurrentScope, Widened
    <3>3. QED
      BY <3>1, <3>2
  <2>2. QED
    BY <1>1, <2>1 DEF LoopAt
<1>5. ASSUME LoopAt(x) PROVE PointerOK(x)'
  <2>1. PICK P : P = CurrentList
    OBVIOUS
  <2>2. PICK Q : Q = CurrentList'
    OBVIOUS
  <2>3. IsList(segs, P)
    BY <1>5, <2>1, ListOfLoop
  <2>11. P.count \in Nat /\ pass.i \in Nat
    BY <2>3 DEF IsList, ListType, RouteInv, PassOK
  <2>4. /\ Len(start[x]) <= P.count /\ Begins(Items(P), Current(x))
        /\ pass.i <= P.count
    <3>1. PointerOK(x)
      BY <1>5 DEF Served
    <3>2. Len(start[x]) <= P.count /\ Begins(Items(P), Current(x)) /\ pass.i <= P.count + 0
      BY <3>1, <2>1 DEF PointerOK
    <3>3. QED
      BY <3>2, <2>11
  <2>5. \/ x = w /\ P = ListOf(w) /\ Q = N
        \/ Q = P /\ (x = w \/ P.seg # ListOf(w).seg \/ P.seg = 0)
    <3>1. CASE pass.row = 0
      <4>1. x = Broadcast /\ P = globals /\ Q = globals' /\ P = ListOf(x) /\ Q = ListOf(x)'
        BY <1>1, <1>5, <2>1, <2>2, <3>1, ListOfLoop DEF CurrentList, ListOf
      <4>2. QED
        BY <1>1, <4>1 DEF GrowsAt
    <3>2. CASE pass.row # 0
      <4>1. PICK t : t = pass.table /\ t \in DOMAIN tables
        BY <1>5, <3>2, ListOfLoop
      <4>2. PICK q : q = pass.row /\ q \in DOMAIN tables[t]
        BY <1>5, <3>2, <4>1, ListOfLoop
      <4>3. /\ x \in Windows /\ x # Broadcast /\ tables[t][q].win = x /\ P = tables[t][q].list
            /\ Q = tables'[t][q].list
        BY <1>1, <1>5, <2>1, <2>2, <3>2, <4>1, <4>2, ListOfLoop DEF CurrentList
      <4>4. CASE w = x
        BY <4>1, <4>2, <4>3, <4>4 DEF Widened
      <4>5. CASE w # x
        <5>1. Q = P
          BY <4>1, <4>2, <4>3, <4>5 DEF Widened
        <5>2. P.seg # 0 => P.seg # globals.seg
          BY <1>1, <4>1, <4>2, <4>3 DEF RegistriesOK
        <5>3. CASE w = Broadcast
          BY <5>1, <5>2, <5>3 DEF ListOf
        <5>4. CASE w # Broadcast /\ RowFor(w) = 0
          BY <5>1, <5>4 DEF ListOf, NoSeg
        <5>5. CASE w # Broadcast /\ RowFor(w) # 0
          <6>1. w \in Windows
            BY <5>5 DEF Scopes
          <6>2. PICK r : r = RowFor(w) /\ r \in DOMAIN Rows /\ Rows[r].win = w
            BY <1>1, <5>5, <6>1, RowForFinds
          <6>3. PICK k : k = Len(tables) /\ k \in DOMAIN tables /\ Rows = tables[k]
            BY <1>1, RowFacts DEF Rows
          <6>4. ListOf(w).seg = tables[k][r].list.seg /\ tables[k][r].win = w /\ r \in DOMAIN tables[k]
            BY <5>5, <6>2, <6>3 DEF ListOf
          <6>5. P.seg = ListOf(w).seg /\ P.seg # 0 => x = w
            <7>1. tables[t][q].list.seg = tables[k][r].list.seg /\ tables[t][q].list.seg # 0
                    => tables[t][q].win = tables[k][r].win
              BY <1>1, <4>1, <4>2, <6>3, <6>4, SegmentsOwned
            <7>2. QED
              BY <7>1, <4>3, <6>4
          <6>6. QED
            BY <4>5, <5>1, <6>5
        <5>6. QED
          BY <5>3, <5>4, <5>5
      <4>6. QED
        BY <4>4, <4>5
    <3>3. QED
      BY <3>1, <3>2
  <2>6. P.count <= Q.count /\ Begins(ItemsIn(segs', Q), Current(x)')
    BY <1>1, <2>3, <2>4, <2>5, PointerGrows
  <2>7. Items(CurrentList)' = ItemsIn(segs', Q)
    BY <2>2 DEF Items, ItemsIn
  <2>8. P.count \in Nat /\ Q.count \in Nat /\ pass.i \in Nat
    <3>1. P.count \in Nat
      BY <2>3 DEF IsList, ListType
    <3>2. N.count \in Nat
      BY <1>1 DEF GrowsAt, IsAppended, IsList, ListType
    <3>3. QED
      BY <2>5, <3>1, <3>2 DEF RouteInv, PassOK
  <2>9. Len(start[x]) <= Q.count /\ pass.i <= Q.count + 0
    BY <1>2, <2>4, <2>6, <2>8
  <2>10. QED
    BY <1>1, <2>2, <2>6, <2>7, <2>9 DEF PointerOK
<1>6. Behind(x)' <=> Behind(x)
  <2>1. AtRow' <=> AtRow
    BY <1>1 DEF AtRow
  <2>2. CASE x = Broadcast
    BY <1>1, <2>1, <2>2 DEF Behind
  <2>3. CASE x # Broadcast /\ pass.window = Broadcast
    <3>1. x \in Windows
      BY <2>3 DEF Scopes
    <3>2. pass.r \in Nat /\ pass.r <= Len(Rows) + 1 /\ Len(Rows) \in Nat
      BY <1>1, <2>3, RowFacts DEF RouteInv, PassOK
    <3>3. IF RowFor(x) = 0 THEN RowFor(x)' \in {0, Len(Rows) + 1} ELSE RowFor(x)' = RowFor(x)
      BY <3>1 DEF Widened
    <3>4. QED
      BY <1>1, <2>3, <3>2, <3>3 DEF Behind
  <2>4. CASE x # Broadcast /\ pass.window # Broadcast
    BY <1>1, <2>4 DEF Behind
  <2>5. QED
    BY <2>2, <2>3, <2>4
<1>7. PICK m \in 0 .. Len(Current(x)) : CalledTo(x, m)
  BY DEF Served
<1>8. \A y \in Listeners : Among(y, Current(x)', m) = Among(y, Current(x), m)
  BY <1>2, AmongBeginning
<1>9. m \in 0 .. Len(Current(x)')
  BY <1>2 DEF Begins
<1>10. CalledTo(x, m)'
  BY <1>1, <1>4, <1>6, <1>7, <1>8 DEF CalledTo
<1>11. (LoopAt(x) => PointerOK(x))'
  BY <1>4, <1>5
<1>12. (\E n \in 0 .. Len(Current(x)) : CalledTo(x, n))'
  BY <1>9, <1>10
<1>13. Begins(start[x], Current(x))'
  BY <1>1, <1>3
<1>14. QED
  BY <1>11, <1>12, <1>13 DEF Served

\* The lists of two scopes have no segment in common.
LEMMA ScopesApart ==
  ASSUME RegistriesOK, NEW w \in Scopes, NEW x \in Scopes, x # w
  PROVE  ListOf(x).seg # ListOf(w).seg \/ ListOf(x).seg = 0
<1>1. PICK k : k = Len(tables) /\ k \in DOMAIN tables /\ Rows = tables[k]
  BY RowFacts DEF Rows
<1>2. ASSUME NEW y \in Windows, RowFor(y) # 0
      PROVE  /\ RowFor(y) \in DOMAIN tables[k] /\ tables[k][RowFor(y)].win = y
             /\ ListOf(y) = tables[k][RowFor(y)].list
             /\ ListOf(y).seg # 0 => ListOf(y).seg # globals.seg
  <2>1. PICK r : r = RowFor(y) /\ r \in DOMAIN Rows /\ Rows[r].win = y
    BY <1>2, RowForFinds
  <2>2. ListOf(y) = tables[k][r].list
    BY <1>1, <1>2, <2>1, RouteAssumption DEF ListOf
  <2>3. tables[k][r].list.seg # 0 => tables[k][r].list.seg # globals.seg
    BY <1>1, <2>1 DEF RegistriesOK
  <2>4. QED
    BY <1>1, <2>1, <2>2, <2>3
<1>3. \A y \in Scopes : y # Broadcast => y \in Windows
  BY DEF Scopes
<1>4. ListOf(Broadcast) = globals
  BY DEF ListOf
<1>5. \A y \in Windows : RowFor(y) = 0 => ListOf(y).seg = 0
  BY RouteAssumption DEF ListOf, NoSeg
<1>6. CASE x = Broadcast
  <2>1. w \in Windows
    BY <1>3, <1>6
  <2>2. CASE RowFor(w) = 0
    BY <1>5, <2>1, <2>2
  <2>3. CASE RowFor(w) # 0
    BY <1>2, <1>4, <1>6, <2>1, <2>3
  <2>4. QED
    BY <2>2, <2>3
<1>7. CASE x # Broadcast /\ w = Broadcast
  BY <1>2, <1>3, <1>4, <1>5, <1>7
<1>8. CASE x # Broadcast /\ w # Broadcast
  <2>1. x \in Windows /\ w \in Windows
    BY <1>3, <1>8
  <2>2. CASE RowFor(x) = 0 \/ RowFor(w) = 0
    BY <1>5, <2>1, <2>2
  <2>3. CASE RowFor(x) # 0 /\ RowFor(w) # 0
    <3>1. PICK r : r = RowFor(x) /\ r \in DOMAIN tables[k] /\ tables[k][r].win = x
                   /\ ListOf(x) = tables[k][r].list
      BY <1>2, <2>1, <2>3
    <3>2. PICK q : q = RowFor(w) /\ q \in DOMAIN tables[k] /\ tables[k][q].win = w
                   /\ ListOf(w) = tables[k][q].list
      BY <1>2, <2>1, <2>3
    <3>3. tables[k][r].list.seg = tables[k][q].list.seg /\ tables[k][r].list.seg # 0
            => tables[k][r].win = tables[k][q].win
      BY <1>1, <3>1, <3>2, SegmentsOwned
    <3>4. QED
      BY <3>1, <3>2, <3>3
  <2>4. QED
    BY <2>2, <2>3
<1>9. QED
  BY <1>6, <1>7, <1>8

\* Key_addListener makes the global list longer.
LEMMA AddWidens ==
  ASSUME RouteInv, NEW l \in Listeners, AddListener(l)
  PROVE  Widened(Broadcast, l, globals')
<1>0. RegistriesOK /\ moved \in BOOLEAN
  BY DEF RouteInv, PassOK
<1>1. RegistriesOK' /\ IsAppended(globals, l, segs', globals')
  BY <1>0, AddKeeps
<1>2. /\ UNCHANGED <<pass, heard, start, astray, touched, moved, tables>>
  BY DEF AddListener, MayChange
<1>3. Rows' = Rows /\ \A x : RowFor(x)' = RowFor(x)
  BY <1>2 DEF Rows, RowFor
<1>4. ListOf(Broadcast) = globals /\ ListOf(Broadcast)' = globals'
  BY DEF ListOf
<1>5. Broadcast \in Scopes
  BY DEF Scopes
<1>6. \A x \in Scopes : x # Broadcast => ListOf(x)' = ListOf(x)
  BY <1>3 DEF ListOf
<1>7. GrowsAt(Broadcast, l, globals')
  BY <1>0, <1>1, <1>4, <1>5, <1>6, ScopesApart DEF GrowsAt
<1>8. moved' \in BOOLEAN /\ (moved => moved')
  BY <1>0, <1>2
<1>9. QED
  BY <1>0, <1>1, <1>2, <1>3, <1>7, <1>8, RowFacts DEF Widened

\* Key_attachWindow makes the list of a window longer, in the row it has or in a
\* new one, and the table it may leave behind stays.
LEMMA AttachWidens ==
  ASSUME RouteInv, NEW w \in Windows, NEW l \in Listeners, AttachWindow(w, l)
  PROVE  \E N : Widened(w, l, N)
<1>1. RegistriesOK /\ moved \in BOOLEAN
  BY DEF RouteInv, PassOK
<1>2. PICK at, N : Attached(w, l, at, N)
  BY <1>1, AttachDoes
<1>3. RegistriesOK'
  BY <1>1, <1>2, AttachKeeps
<1>4. RowForIsRight /\ RowForIsRight' /\ RowsAreTable /\ RowsAreTable'
  BY <1>1, <1>3, RowForKnown, RowsKnown, PTL
<1>5. UNCHANGED <<pass, heard, start, astray, touched, globals>> /\ moved' \in BOOLEAN /\ (moved => moved')
  <2>1. UNCHANGED <<pass, heard, start, astray, touched, globals>>
    BY DEF AttachWindow, MayChange
  <2>2. PICK m \in BOOLEAN : moved' = (moved \/ m)
    BY DEF AttachWindow
  <2>3. moved' \in BOOLEAN
    BY <1>1, <2>2
  <2>4. moved => moved'
    BY <2>2
  <2>5. QED
    BY <2>1, <2>3, <2>4
<1>6. RowFor(w)' = at /\ at # 0
  <2>1. at \in 1 .. Len(Rows') /\ DOMAIN Rows' = 1 .. Len(Rows') /\ Rows'[at].win = w
    BY <1>2 DEF Attached
  <2>2. RowFor(w)' = at
    BY <1>4, <2>1 DEF RowForIsRight
  <2>3. QED
    BY <1>4, <2>1, <2>2 DEF RowsAreTable
<1>7. w # Broadcast /\ w \in Scopes
  BY RouteAssumption DEF Scopes
<1>8. ListOf(w)' = N
  BY <1>2, <1>6, <1>7 DEF ListOf, Attached
<1>9. IF RowFor(w) = 0 THEN at = Len(Rows) + 1
      ELSE at = RowFor(w) /\ at \in 1 .. Len(Rows) /\ Rows[at].win = w
  BY <1>2, <1>4 DEF Attached, RowForIsRight, RowsAreTable
<1>10. ASSUME NEW x \in Windows, x # w
       PROVE  /\ RowFor(x)' = RowFor(x)
              /\ RowFor(x) # 0 => RowFor(x) \in 1 .. Len(Rows) /\ Rows'[RowFor(x)] = Rows[RowFor(x)]
  <2>1. CASE RowFor(x) # 0
    <3>1. PICK r : r = RowFor(x) /\ r \in 1 .. Len(Rows) /\ Rows[r].win = x
      BY <1>4, <2>1 DEF RowForIsRight, RowsAreTable
    <3>2. r # at
      BY <1>4, <1>9, <1>10, <3>1 DEF RowsAreTable
    <3>3. Rows'[r] = Rows[r] /\ r \in DOMAIN Rows'
      BY <1>2, <1>4, <3>1, <3>2 DEF Attached, RowsAreTable
    <3>4. RowFor(x)' = r
      BY <1>4, <3>1, <3>3 DEF RowForIsRight
    <3>5. QED
      BY <3>1, <3>3, <3>4
  <2>2. CASE RowFor(x) = 0
    <3>1. \A r \in 1 .. Len(Rows) : Rows[r].win # x
      BY <1>4, <2>2 DEF RowForIsRight, RowsAreTable
    <3>2. ASSUME NEW r \in 1 .. Len(Rows') PROVE Rows'[r].win # x
      <4>1. CASE r = at
        BY <1>2, <1>10, <4>1 DEF Attached
      <4>2. CASE r # at
        <5>1. r \in 1 .. Len(Rows)
          BY <1>2, <1>4, <1>9, <4>2 DEF Attached, RowsAreTable
        <5>2. QED
          BY <1>2, <3>1, <4>2, <5>1 DEF Attached
      <4>3. QED
        BY <4>1, <4>2
    <3>3. RowFor(x)' = 0
      BY <1>4, <3>2 DEF RowForIsRight, RowsAreTable
    <3>4. QED
      BY <2>2, <3>3
  <2>3. QED
    BY <2>1, <2>2
<1>11. \A x \in Scopes : x # w => ListOf(x)' = ListOf(x)
  BY <1>5, <1>10 DEF ListOf, Scopes
<1>12. GrowsAt(w, l, N)
  BY <1>1, <1>2, <1>7, <1>8, <1>11, ScopesApart DEF GrowsAt, Attached
<1>13. \A x \in Windows : IF RowFor(x) = 0 THEN RowFor(x)' \in {0, Len(Rows) + 1}
                          ELSE RowFor(x)' = RowFor(x)
  BY <1>6, <1>9, <1>10
<1>14. Len(Rows) <= Len(Rows') /\ Len(Rows') \in Nat
  BY <1>2, <1>4 DEF Attached, RowsAreTable
<1>15. moved' \/ Len(tables') = Len(tables)
  BY <1>2 DEF Attached
<1>16. ASSUME NEW t \in DOMAIN tables
       PROVE  /\ t \in DOMAIN tables'
              /\ \A q \in DOMAIN tables[t] :
                   /\ q \in DOMAIN tables'[t] /\ tables'[t][q].win = tables[t][q].win
                   /\ \/ tables'[t][q].list = tables[t][q].list
                      \/ /\ tables[t][q].win = w /\ w # Broadcast
                         /\ tables[t][q].list = ListOf(w) /\ tables'[t][q].list = N
  <2>1. /\ DOMAIN tables = 1 .. Len(tables) /\ Len(tables) \in Nat \ {0}
        /\ DOMAIN tables' = 1 .. Len(tables') /\ Len(tables') \in Nat
    <3>1. tables' \in Seq(Seq(TableRows))
      BY <1>2 DEF Attached
    <3>2. PICK T : T = Seq(TableRows)
      OBVIOUS
    <3>3. tables' \in Seq(T)
      BY <3>1, <3>2
    <3>4. QED
      BY <1>1, <3>3, RowFacts, LenProperties
  <2>6. Len(tables') = Len(tables) \/ Len(tables') = Len(tables) + 1
    BY <1>2 DEF Attached
  <2>7. \A u \in 1 .. Len(tables') - 1 : tables'[u] = tables[u]
    BY <1>2 DEF Attached
  <2>8. PICK n \in Nat \ {0} : n = Len(tables) /\ DOMAIN tables = 1 .. n
    BY <2>1
  <2>9. PICK k \in Nat : k = Len(tables') /\ DOMAIN tables' = 1 .. k
    BY <2>1
  <2>10. t \in 1 .. n /\ (k = n \/ k = n + 1)
    BY <2>6, <2>8, <2>9
  <2>2. t \in DOMAIN tables' /\ (t # Len(tables') => t \in 1 .. Len(tables') - 1)
    BY <2>9, <2>10
  <2>3. CASE t # Len(tables')
    <3>1. tables'[t] = tables[t]
      BY <2>2, <2>3, <2>7
    <3>2. QED
      BY <2>2, <3>1
  <2>4. CASE t = Len(tables')
    <3>1. t = Len(tables) /\ tables[t] = Rows /\ tables'[t] = Rows'
      BY <2>4, <2>8, <2>9, <2>10 DEF Rows
    <3>2. ASSUME NEW q \in 1 .. Len(Rows)
          PROVE  /\ q \in DOMAIN Rows' /\ Rows'[q].win = Rows[q].win
                 /\ \/ Rows'[q].list = Rows[q].list
                    \/ Rows[q].win = w /\ Rows[q].list = ListOf(w) /\ Rows'[q].list = N
      <4>1. q \in DOMAIN Rows'
        BY <1>2, <1>4, <1>14 DEF Attached, RowsAreTable
      <4>2. CASE q # at
        BY <1>2, <4>1, <4>2 DEF Attached
      <4>3. CASE q = at
        <5>1. RowFor(w) = q /\ RowFor(w) # 0 /\ Rows[q].win = w
          BY <1>4, <1>9, <4>3 DEF RowsAreTable
        <5>2. ListOf(w) = Rows[q].list
          BY <1>7, <5>1 DEF ListOf
        <5>3. QED
          BY <1>2, <4>1, <4>3, <5>1, <5>2 DEF Attached
      <4>4. QED
        BY <4>2, <4>3
    <3>3. QED
      BY <1>4, <1>7, <2>2, <3>1, <3>2 DEF RowsAreTable
  <2>5. QED
    BY <2>3, <2>4
<1>17. Widened(w, l, N)
  BY <1>3, <1>5, <1>12, <1>13, <1>14, <1>15, <1>16 DEF Widened
<1>18. QED
  BY <1>17

\* A registration keeps the invariant, between deliveries or while a listener is
\* called.
LEMMA WidenedKeeps ==
  ASSUME RouteInv, pass.pc \in {"none", "call"}, NEW w \in Scopes, NEW l, NEW N, Widened(w, l, N)
  PROVE  RouteInv'
<1>1. UNCHANGED <<pass, heard, start, astray, touched>> /\ (moved => moved') /\ RegistriesOK'
  BY DEF Widened
<1>2. PassOK'
  BY WidenedPass
<1>3. astray' => moved'
  BY <1>1 DEF RouteInv, HeardOK
<1>4. CASE pass.pc = "none"
  BY <1>1, <1>2, <1>3, <1>4 DEF RouteInv, HeardOK
<1>5. CASE pass.pc = "call"
  <2>1. /\ start \in [Scopes -> Seq(Listeners)]
        /\ \A n \in DOMAIN heard : InScope(heard[n][1])
        /\ touched = {} => \A x \in Scopes : Served(x)
    BY <1>5 DEF RouteInv, HeardOK
  <2>2. ASSUME touched = {} PROVE \A x \in Scopes : Served(x)'
    BY <1>5, <2>1, <2>2, WidenedServes
  <2>3. (\A n \in DOMAIN heard : InScope(heard[n][1]))'
    BY <1>1, <2>1 DEF InScope
  <2>4. HeardOK'
    BY <1>1, <1>3, <2>1, <2>2, <2>3 DEF RouteInv, HeardOK
  <2>5. QED
    BY <1>1, <1>2, <2>4 DEF RouteInv
<1>6. QED
  BY <1>1, <1>2, <1>4, <1>5 DEF RouteInv

\* How often something is in a beginning: once more if the next one is it.
LEMMA AmongNext ==
  ASSUME NEW l, NEW s, NEW m \in Nat
  PROVE  /\ Among(l, s, m) \in Nat /\ IsFiniteSet({i \in 1 .. m : s[i] = l})
         /\ Among(l, s, m + 1) = Among(l, s, m) + (IF s[m + 1] = l THEN 1 ELSE 0)
<1>1. \A n \in Nat : IsFiniteSet({i \in 1 .. n : s[i] = l})
  <2>1. \A n \in Nat : IsFiniteSet(1 .. n)
    BY FS_Interval
  <2>2. QED
    BY <2>1, FS_Subset
<1>2. PICK A : A = {i \in 1 .. m : s[i] = l}
  OBVIOUS
<1>3. IsFiniteSet(A) /\ Cardinality(A) \in Nat /\ m + 1 \notin A
  BY <1>1, <1>2, FS_CardinalityType
<1>4. CASE s[m + 1] = l
  <2>1. {i \in 1 .. m + 1 : s[i] = l} = A \union {m + 1}
    BY <1>2, <1>4
  <2>2. Cardinality(A \union {m + 1}) = Cardinality(A) + 1
    BY <1>3, FS_AddElement
  <2>3. QED
    BY <1>1, <1>2, <1>3, <1>4, <2>1, <2>2 DEF Among
<1>5. CASE s[m + 1] # l
  <2>1. {i \in 1 .. m + 1 : s[i] = l} = A
    BY <1>2, <1>5
  <2>2. QED
    BY <1>1, <1>2, <1>3, <1>5, <2>1 DEF Among
<1>6. QED
  BY <1>4, <1>5

\* A longer beginning has it no less often, and the first has nothing.
LEMMA AmongMore ==
  ASSUME NEW l, NEW s, NEW m \in Nat, NEW n \in Nat, m <= n
  PROVE  Among(l, s, m) <= Among(l, s, n) /\ Among(l, s, 0) = 0
<1>1. {i \in 1 .. m : s[i] = l} \subseteq {i \in 1 .. n : s[i] = l}
  OBVIOUS
<1>2. IsFiniteSet({i \in 1 .. n : s[i] = l})
  BY AmongNext
<1>3. {i \in 1 .. 0 : s[i] = l} = {}
  OBVIOUS
<1>4. QED
  BY <1>1, <1>2, <1>3, FS_Subset, FS_EmptySet DEF Among

\* The whole of a sequence is its longest beginning.
LEMMA TimesIsAmong ==
  ASSUME NEW T, NEW s \in Seq(T), NEW l
  PROVE  Times(l, s) = Among(l, s, Len(s)) /\ Times(l, s) \in Nat
<1>1. PICK n \in Nat : n = Len(s) /\ DOMAIN s = 1 .. n
  OBVIOUS
<1>2. Times(l, s) = Among(l, s, n)
  BY <1>1 DEF Times, Among
<1>3. Among(l, s, n) \in Nat
  BY AmongNext
<1>4. QED
  BY <1>1, <1>2, <1>3

\* One more call is counted once.
LEMMA OneMoreCall ==
  ASSUME NEW T, NEW s \in Seq(T), NEW d \in T, NEW l
  PROVE  Times(l, Append(s, d)) = Times(l, s) + (IF d = l THEN 1 ELSE 0)
<1>1. PICK t \in Seq(T) : t = Append(s, d)
  BY AppendProperties
<1>2. PICK n \in Nat : n = Len(s)
  OBVIOUS
<1>3. Len(t) = n + 1 /\ t[n + 1] = d /\ \A i \in 1 .. n : t[i] = s[i]
  BY <1>1, <1>2
<1>4. Times(l, t) = Among(l, t, n + 1) /\ Times(l, s) = Among(l, s, n)
  BY <1>1, <1>2, <1>3, TimesIsAmong
<1>5. Begins(s, t)
  BY <1>2, <1>3 DEF Begins
<1>6. Among(l, s, n) = Among(l, t, n)
  BY <1>2, <1>5, AmongBeginning
<1>7. Among(l, t, n + 1) = Among(l, t, n) + (IF t[n + 1] = l THEN 1 ELSE 0)
  BY AmongNext
<1>8. QED
  BY <1>1, <1>3, <1>4, <1>6, <1>7

\* A step of the delivery leaves the registries as they are.
Delivers == UNCHANGED <<segs, tables, rowCap, globals, start, touched, moved>>
LEMMA DeliveryLeaves ==
  ASSUME Delivers
  PROVE  /\ RegistriesOK => RegistriesOK'
         /\ Rows' = Rows /\ \A x : /\ RowFor(x)' = RowFor(x) /\ ListOf(x)' = ListOf(x)
                                   /\ Current(x)' = Current(x)
<1>1. Rows' = Rows /\ \A x : RowFor(x)' = RowFor(x)
  BY DEF Delivers, Rows, RowFor
<1>2. \A x : ListOf(x)' = ListOf(x)
  BY <1>1 DEF Delivers, ListOf
<1>3. \A x : Current(x)' = Current(x)
  BY <1>2 DEF Delivers, Current, Items
<1>4. RegistriesOK => RegistriesOK'
  BY <1>1 DEF Delivers, RegistriesOK
<1>5. QED
  BY <1>1, <1>2, <1>3, <1>4

\* The row a delivery points to is a row of the table there is now, for the same
\* window.
LEMMA RowStillThere ==
  ASSUME RouteInv, AtRow
  PROVE  /\ pass.row \in DOMAIN Rows /\ CurrentScope \in Windows /\ CurrentScope # Broadcast
         /\ Rows[pass.row].win = CurrentScope /\ RowFor(CurrentScope) = pass.row
         /\ CurrentScope = tables[pass.table][pass.row].win
         /\ CurrentList = tables[pass.table][pass.row].list
         /\ pass.row # 0 /\ InScope(CurrentScope)
         /\ pass.window = Broadcast => pass.row = pass.r
         /\ pass.window # Broadcast => CurrentScope = pass.window
<1>1. /\ pass.table \in DOMAIN tables /\ pass.row \in DOMAIN tables[pass.table]
      /\ IF pass.window = Broadcast THEN pass.row = pass.r
         ELSE tables[pass.table][pass.row].win = pass.window
  BY DEF RouteInv, PassOK
<1>2. pass.row # 0
  BY DEF AtRow
<1>3. PICK t : t = pass.table /\ t \in DOMAIN tables
  BY <1>1
<1>4. PICK r : r = pass.row /\ r \in DOMAIN tables[t]
  BY <1>1, <1>3
<1>5. r \in DOMAIN Rows /\ Rows[r].win = tables[t][r].win
  BY <1>3, <1>4 DEF RouteInv, RegistriesOK
<1>6. CurrentScope = tables[t][r].win /\ CurrentList = tables[t][r].list
  BY <1>2, <1>3, <1>4 DEF CurrentScope, CurrentList
<1>7. Rows[r] \in TableRows
  BY <1>5, RowFacts, ElementOfSeq DEF RouteInv
<1>8. Rows[r].win \in Windows
  BY <1>7 DEF TableRows
<1>9. RowFor(CurrentScope) = r
  BY <1>5, <1>6, <1>8, RowForFinds DEF RouteInv
<1>10. InScope(CurrentScope)
  BY <1>1, <1>3, <1>4, <1>6 DEF InScope
<1>11. QED
  BY <1>1, <1>2, <1>3, <1>4, <1>5, <1>6, <1>8, <1>9, <1>10, RouteAssumption

\* What a loop is at, it has not left behind.
LEMMA LoopIsNotBehind ==
  ASSUME RouteInv, NEW x, LoopAt(x)
  PROVE  ~Behind(x) /\ InScope(x) /\ x \in Scopes
<1>1. CASE AtRow
  <2>1. x = CurrentScope /\ pass.pc \notin {"next", "done"}
    BY <1>1 DEF LoopAt, AtRow
  <2>2. /\ RowFor(x) = pass.row /\ x # Broadcast /\ x \in Windows /\ InScope(x)
        /\ pass.window = Broadcast => pass.row = pass.r
    BY <1>1, <2>1, RowStillThere
  <2>3. pass.r \in Nat
    BY DEF RouteInv, PassOK
  <2>4. QED
    BY <2>1, <2>2, <2>3 DEF Behind, Scopes
<1>2. CASE ~AtRow
  <2>1. pass.row = 0 /\ x = Broadcast /\ pass.pc \notin {"next", "done"}
    BY <1>2 DEF LoopAt, AtRow, RouteInv, PassOK, CurrentScope
  <2>2. QED
    BY <1>2, <2>1 DEF Behind, InScope, Scopes
<1>3. QED
  BY <1>1, <1>2

\* A step of the delivery that calls nobody: the same were called before.
LEMMA ServedOn ==
  ASSUME Delivers, heard' = heard, NEW x \in Scopes, Begins(start[x], Current(x)),
         NEW m \in 0 .. Len(Current(x)),
         \A l \in Listeners : Times(<<x, l>>, heard) = Among(l, Current(x), m),
         LoopAt(x)' => PointerOK(x)' /\ m = IF pass'.pc = "call" THEN pass'.i ELSE pass'.i - 1,
         Behind(x)' => Len(start[x]) <= m,
         ~LoopAt(x)' /\ ~Behind(x)' => m = 0
  PROVE  Served(x)'
<1>1. Current(x)' = Current(x) /\ start' = start
  BY DeliveryLeaves DEF Delivers
<1>2. CalledTo(x, m)'
  BY <1>1 DEF CalledTo
<1>3. (\E n \in 0 .. Len(Current(x)) : CalledTo(x, n))'
  BY <1>1, <1>2
<1>4. Begins(start[x], Current(x))'
  BY <1>1
<1>5. QED
  BY <1>3, <1>4 DEF Served

\* The fields of a delivery.
LEMMA PassFields ==
  ASSUME RouteInv
  PROVE  /\ pass.i \in Nat \ {0} /\ pass.r \in Nat \ {0} /\ pass.window \in Scopes
         /\ pass.pc \in {"none", "global", "row", "call", "next", "done"}
         /\ pass = [pc |-> pass.pc, window |-> pass.window, i |-> pass.i, r |-> pass.r,
                    table |-> pass.table, row |-> pass.row]
         /\ pass.table \in Nat /\ pass.row \in Nat
         /\ pass.pc = "row" => AtRow
         /\ pass.pc = "global" => pass.row = 0 /\ ~AtRow
         /\ pass.pc = "call" => (AtRow <=> pass.row # 0)
  BY DEF RouteInv, PassOK, AtRow

\* Once a call returns, the loop is behind the listener.
LEMMA ReturnKeeps ==
  ASSUME RouteInv, ReturnFromCall
  PROVE  RouteInv'
<1>1. Delivers /\ heard' = heard /\ astray' = astray /\ pass.pc = "call"
  BY DEF ReturnFromCall, RouteUnchanged, Delivers
<1>2. PICK c : c = IF pass.row = 0 THEN "global" ELSE "row"
  OBVIOUS
<1>3. pass' = [pc |-> c, window |-> pass.window, i |-> pass.i + 1, r |-> pass.r,
               table |-> pass.table, row |-> pass.row]
  <2>1. pass = [pc |-> pass.pc, window |-> pass.window, i |-> pass.i, r |-> pass.r,
                table |-> pass.table, row |-> pass.row]
    BY PassFields
  <2>2. pass' = [pass EXCEPT !.pc = c, !.i = pass.i + 1]
    BY <1>2 DEF ReturnFromCall
  <2>3. QED
    BY <2>1, <2>2
<1>4. AtRow' <=> AtRow
  BY <1>1, <1>2, <1>3 DEF AtRow
<1>5. /\ tables' = tables /\ Rows' = Rows /\ moved' = moved /\ RegistriesOK'
  BY <1>1, DeliveryLeaves DEF Delivers, RouteInv
<1>6. PassOK'
  <2>1. pass' \in [pc : {"none", "global", "row", "call", "next", "done"}, window : Scopes,
                   i : Nat, r : Nat, table : Nat, row : Nat] /\ pass'.i # 0 /\ pass'.r # 0
    BY <1>2, <1>3, PassFields
  <2>2. AtRow' => /\ pass'.table \in DOMAIN tables' /\ pass'.row \in DOMAIN tables'[pass'.table]
                  /\ IF pass'.window = Broadcast THEN pass'.row = pass'.r
                     ELSE tables'[pass'.table][pass'.row].win = pass'.window
                  /\ moved' \/ pass'.table = Len(tables')
    BY <1>3, <1>4, <1>5 DEF RouteInv, PassOK
  <2>3. pass'.window = Broadcast => pass'.r <= Len(Rows') + 1
    BY <1>3, <1>5 DEF RouteInv, PassOK
  <2>4. QED
    BY <1>1, <1>2, <1>3, <1>5, <2>1, <2>2, <2>3 DEF RouteInv, PassOK
<1>7. CurrentScope' = CurrentScope /\ CurrentList' = CurrentList /\ Items(CurrentList)' = Items(CurrentList)
  BY <1>1, <1>3, <1>5 DEF CurrentScope, CurrentList, Items, Delivers
<1>8. ASSUME NEW x \in Scopes, Served(x) PROVE Served(x)'
  <2>1. LoopAt(x)' <=> LoopAt(x)
    BY <1>1, <1>2, <1>3, <1>7 DEF LoopAt
  <2>2. Behind(x)' <=> Behind(x)
    <3>1. RowFor(x)' = RowFor(x)
      BY <1>1, DeliveryLeaves
    <3>2. QED
      BY <1>1, <1>2, <1>3, <1>4, <3>1 DEF Behind
  <2>3. PICK m \in 0 .. Len(Current(x)) : CalledTo(x, m)
    BY <1>8 DEF Served
  <2>4. ASSUME LoopAt(x) PROVE PointerOK(x)'
    <3>1. PointerOK(x)
      BY <1>8, <2>4 DEF Served
    <3>2. CurrentList.count \in Nat
      BY <2>4, ListOfLoop DEF IsList, ListType
    <3>3. pass'.i <= CurrentList'.count + IF pass'.pc = "call" THEN 0 ELSE 1
      <4>1. PICK n \in Nat : n = CurrentList.count
        BY <3>2
      <4>2. pass.i \in Nat /\ pass.i <= n + 0
        BY <1>1, <3>1, <4>1, PassFields DEF PointerOK
      <4>3. QED
        BY <1>2, <1>3, <1>7, <4>1, <4>2
    <3>4. Current(x)' = Current(x) /\ start' = start
      BY <1>1, DeliveryLeaves DEF Delivers
    <3>5. QED
      BY <1>7, <3>1, <3>3, <3>4 DEF PointerOK
  <2>5. LoopAt(x)' => m = IF pass'.pc = "call" THEN pass'.i ELSE pass'.i - 1
    BY <1>1, <1>2, <1>3, <2>1, <2>3, PassFields DEF CalledTo
  <2>6. QED
    BY <1>1, <1>8, <2>1, <2>2, <2>3, <2>4, <2>5, ServedOn DEF CalledTo, Served
<1>9. HeardOK'
  <2>1. pass'.pc # "none" /\ touched' = touched /\ start' = start
    BY <1>1, <1>2, <1>3 DEF Delivers
  <2>2. \A w : InScope(w)' <=> InScope(w)
    BY <1>3 DEF InScope
  <2>3. QED
    BY <1>1, <1>5, <1>8, <2>1, <2>2 DEF RouteInv, HeardOK
<1>10. QED
  BY <1>5, <1>6, <1>9 DEF RouteInv

\* Who is called is registered, as long as the pointer is one into the table there
\* is now.
LEMMA CalledIsThere ==
  ASSUME RouteInv, pass.pc \in {"global", "row"}, pass.i <= CurrentList.count
  PROVE  /\ CurrentScope \in Scopes /\ LoopAt(CurrentScope) /\ IsList(segs, CurrentList)
         /\ pass.i \in 1 .. CurrentList.count
         /\ segs[CurrentList.seg][pass.i] \in Listeners
         /\ Items(CurrentList)[pass.i] = segs[CurrentList.seg][pass.i]
         /\ ~moved => CurrentList = ListOf(CurrentScope)
<1>1. LoopAt(CurrentScope)
  BY DEF LoopAt
<1>2. CurrentScope \in Scopes /\ IsList(segs, CurrentList)
  BY <1>1, ListOfLoop
<1>3. CurrentList.count \in Nat
  BY <1>2 DEF IsList, ListType
<1>4. pass.i \in 1 .. CurrentList.count
  BY <1>3, PassFields
<1>5. /\ segs[CurrentList.seg][pass.i] \in Listeners
      /\ Items(CurrentList)[pass.i] = segs[CurrentList.seg][pass.i]
  BY <1>2, <1>4, ItemsOfList DEF RouteInv, RegistriesOK
<1>6. ASSUME ~moved PROVE CurrentList = ListOf(CurrentScope)
  <2>1. CASE pass.row = 0
    BY <2>1 DEF CurrentList, CurrentScope, ListOf
  <2>2. CASE pass.row # 0
    <3>1. AtRow
      BY <2>2, PassFields
    <3>2. pass.table = Len(tables)
      BY <1>6, <3>1 DEF RouteInv, PassOK
    <3>3. CurrentList = Rows[pass.row].list
      BY <3>1, <3>2, RowStillThere DEF Rows
    <3>4. QED
      BY <3>1, <3>3, RowStillThere DEF ListOf
  <2>3. QED
    BY <2>1, <2>2
<1>7. QED
  BY <1>1, <1>2, <1>4, <1>5, <1>6

\* The next listener of the list is called, and counted.
LEMMA CallKeeps ==
  ASSUME RouteInv, CallNext
  PROVE  RouteInv'
<1>1. /\ Delivers /\ pass.pc \in {"global", "row"} /\ pass.i <= CurrentList.count
  BY DEF CallNext, RouteUnchanged, Delivers
<1>2. PICK k : k = CurrentScope /\ k \in Scopes /\ LoopAt(k)
  BY <1>1, CalledIsThere
<1>3. PICK l \in Listeners : l = segs[CurrentList.seg][pass.i] /\ l = Items(CurrentList)[pass.i]
  BY <1>1, CalledIsThere
<1>4. heard' = Append(heard, <<k, l>>) /\ astray' = (astray \/ Times(l, Registered[k]) = 0)
  BY <1>2, <1>3 DEF CallNext
<1>5. pass' = [pc |-> "call", window |-> pass.window, i |-> pass.i, r |-> pass.r,
               table |-> pass.table, row |-> pass.row]
  <2>1. pass = [pc |-> pass.pc, window |-> pass.window, i |-> pass.i, r |-> pass.r,
                table |-> pass.table, row |-> pass.row]
    BY PassFields
  <2>2. pass' = [pass EXCEPT !.pc = "call"]
    BY DEF CallNext
  <2>3. QED
    BY <2>1, <2>2
<1>6. AtRow' <=> AtRow
  BY <1>1, <1>5, PassFields DEF AtRow
<1>7. tables' = tables /\ Rows' = Rows /\ moved' = moved /\ RegistriesOK'
  BY <1>1, DeliveryLeaves DEF Delivers, RouteInv
<1>8. moved \in BOOLEAN /\ astray \in BOOLEAN
  BY DEF RouteInv, PassOK
<1>9. astray' \in BOOLEAN
  BY <1>4, <1>8
<1>10. PassOK'
  <2>1. pass' \in [pc : {"none", "global", "row", "call", "next", "done"}, window : Scopes,
                   i : Nat, r : Nat, table : Nat, row : Nat] /\ pass'.i # 0 /\ pass'.r # 0
    BY <1>5, PassFields
  <2>2. AtRow' => /\ pass'.table \in DOMAIN tables' /\ pass'.row \in DOMAIN tables'[pass'.table]
                  /\ IF pass'.window = Broadcast THEN pass'.row = pass'.r
                     ELSE tables'[pass'.table][pass'.row].win = pass'.window
                  /\ moved' \/ pass'.table = Len(tables')
    BY <1>5, <1>6, <1>7 DEF RouteInv, PassOK
  <2>3. pass'.window = Broadcast => pass'.r <= Len(Rows') + 1
    BY <1>5, <1>7 DEF RouteInv, PassOK
  <2>4. pass'.pc = "call"
    BY <1>5
  <2>5. QED
    BY <1>7, <1>8, <1>9, <2>1, <2>2, <2>3, <2>4 DEF PassOK
<1>11. CurrentScope' = CurrentScope /\ CurrentList' = CurrentList /\ Items(CurrentList)' = Items(CurrentList)
  BY <1>1, <1>5, <1>7 DEF CurrentScope, CurrentList, Items, Delivers
<1>12. /\ heard \in Seq(Scopes \X Listeners) /\ (astray => moved)
       /\ start \in [Scopes -> Seq(Listeners)]
       /\ \A n \in DOMAIN heard : InScope(heard[n][1])
       /\ touched = {} => \A w \in Scopes : Served(w)
  BY <1>1 DEF RouteInv, HeardOK
<1>13. astray' => moved'
  <2>1. ASSUME ~moved PROVE Times(l, Registered[k]) # 0
    <3>1. Registered[k] = Items(CurrentList)
      BY <1>1, <1>2, <2>1, CalledIsThere DEF Registered
    <3>2. pass.i \in 1 .. CurrentList.count /\ IsList(segs, CurrentList)
      BY <1>1, CalledIsThere
    <3>3. PICK s : s = Items(CurrentList) /\ s \in Seq(Listeners) /\ Len(s) = CurrentList.count
      BY <3>2, ItemsOfList DEF RouteInv, RegistriesOK
    <3>4. PICK n \in DOMAIN s : n = pass.i /\ s[n] = l
      BY <1>3, <3>2, <3>3
    <3>5. {i \in DOMAIN s : s[i] = l} # {}
      BY <3>4
    <3>6. IsFiniteSet({i \in 1 .. Len(s) : s[i] = l}) /\ DOMAIN s = 1 .. Len(s)
      <4>1. PICK c \in Nat : c = Len(s) /\ DOMAIN s = 1 .. c
        BY <3>3
      <4>2. IsFiniteSet({i \in 1 .. c : s[i] = l})
        BY AmongNext
      <4>3. QED
        BY <4>1, <4>2
    <3>7. Cardinality({i \in DOMAIN s : s[i] = l}) # 0
      BY <3>5, <3>6, FS_EmptySet
    <3>8. QED
      BY <3>1, <3>3, <3>7 DEF Times
  <2>2. QED
    BY <1>4, <1>7, <1>12, <2>1
<1>14. heard' \in Seq(Scopes \X Listeners) /\ <<k, l>> \in Scopes \X Listeners
  BY <1>2, <1>4, <1>12, AppendProperties
<1>15. (\A n \in DOMAIN heard : InScope(heard[n][1]))'
  <2>1. PICK t \in Seq(Scopes \X Listeners) : t = heard
    BY <1>12
  <2>2. DOMAIN heard' = 1 .. Len(t) + 1 /\ Len(t) \in Nat /\ DOMAIN t = 1 .. Len(t)
    BY <1>4, <1>14, <2>1
  <2>3. heard'[Len(t) + 1] = <<k, l>> /\ \A n \in 1 .. Len(t) : heard'[n] = t[n]
    BY <1>4, <1>14, <2>1
  <2>4. InScope(k)
    BY <1>2, LoopIsNotBehind
  <2>6. ASSUME NEW n \in DOMAIN heard' PROVE InScope(heard'[n][1])
    <3>1. CASE n = Len(t) + 1
      BY <2>3, <2>4, <3>1
    <3>2. CASE n # Len(t) + 1
      <4>1. n \in DOMAIN t /\ heard'[n] = t[n]
        BY <2>2, <2>3, <3>2
      <4>2. QED
        BY <1>12, <2>1, <4>1
    <3>3. QED
      BY <3>1, <3>2
  <2>7. pass'.window = pass.window
    BY <1>5
  <2>8. QED
    BY <2>6, <2>7 DEF InScope
<1>16. ASSUME NEW x \in Scopes, Served(x) PROVE Served(x)'
  <2>1. LoopAt(x)' <=> LoopAt(x)
    BY <1>1, <1>5, <1>11 DEF LoopAt
  <2>2. Behind(x)' <=> Behind(x)
    <3>1. RowFor(x)' = RowFor(x)
      BY <1>1, DeliveryLeaves
    <3>2. QED
      BY <1>1, <1>5, <1>6, <3>1 DEF Behind
  <2>3. PICK m \in 0 .. Len(Current(x)) : CalledTo(x, m)
    BY <1>16 DEF Served
  <2>4. Current(x)' = Current(x) /\ start' = start
    BY <1>1, DeliveryLeaves DEF Delivers
  <2>5. Begins(start[x], Current(x)) /\ (LoopAt(x) => PointerOK(x))
    BY <1>16 DEF Served
  <2>6. PICK c \in Nat : c = Len(Current(x))
    BY CurrentIs DEF RouteInv
  <2>7. CASE x = k
    <3>1. PointerOK(x) /\ LoopAt(x) /\ ~Behind(x)
      BY <1>2, <2>5, <2>7, LoopIsNotBehind
    <3>2. PICK n \in Nat : n = CurrentList.count /\ Len(Items(CurrentList)) = n
      BY <1>1, CalledIsThere, ItemsOfList DEF RouteInv, RegistriesOK
    <3>3. PICK i \in Nat \ {0} : i = pass.i
      BY PassFields
    <3>4. i <= n /\ m = i - 1
      BY <1>1, <2>3, <3>1, <3>2, <3>3 DEF CalledTo
    <3>5. n <= c /\ Current(x)[i] = l
      BY <1>3, <2>6, <3>1, <3>2, <3>3, <3>4 DEF PointerOK, Begins
    <3>6. PointerOK(x)'
      BY <1>5, <1>11, <2>4, <3>1, <3>2, <3>3, <3>4 DEF PointerOK
    <3>7. i = m + 1 /\ m \in Nat /\ i \in 0 .. c
      BY <3>4, <3>5
    <3>8. ASSUME NEW y \in Listeners
          PROVE  Times(<<x, y>>, heard)' = Among(y, Current(x), i)
      <4>1. Times(<<x, y>>, heard) = Among(y, Current(x), m)
        BY <2>3 DEF CalledTo
      <4>2. Times(<<x, y>>, Append(heard, <<k, l>>))
              = Times(<<x, y>>, heard) + (IF <<k, l>> = <<x, y>> THEN 1 ELSE 0)
        BY <1>12, <1>14, OneMoreCall
      <4>3. Among(y, Current(x), m + 1) = Among(y, Current(x), m) + (IF Current(x)[m + 1] = y THEN 1 ELSE 0)
        BY <3>7, AmongNext
      <4>4. Times(<<x, y>>, heard)' = Times(<<x, y>>, Append(heard, <<k, l>>))
        BY <1>4 DEF Times
      <4>5. (<<k, l>> = <<x, y>>) <=> (l = y)
        BY <2>7
      <4>6. QED
        BY <3>5, <3>7, <4>1, <4>2, <4>3, <4>4, <4>5
    <3>9. CalledTo(x, i)'
      BY <1>5, <2>1, <2>2, <2>4, <3>1, <3>3, <3>8 DEF CalledTo
    <3>10. (\E n_ \in 0 .. Len(Current(x)) : CalledTo(x, n_))'
      BY <2>4, <2>6, <3>7, <3>9
    <3>11. Begins(start[x], Current(x))'
      BY <2>4, <2>5
    <3>12. QED
      BY <3>6, <3>10, <3>11 DEF Served
  <2>8. CASE x # k
    <3>1. ~LoopAt(x)
      BY <1>2, <2>8 DEF LoopAt
    <3>2. ASSUME NEW y \in Listeners
          PROVE  Times(<<x, y>>, heard)' = Among(y, Current(x), m)
      <4>1. Times(<<x, y>>, heard) = Among(y, Current(x), m)
        BY <2>3 DEF CalledTo
      <4>2. Times(<<x, y>>, Append(heard, <<k, l>>))
              = Times(<<x, y>>, heard) + (IF <<k, l>> = <<x, y>> THEN 1 ELSE 0)
        BY <1>12, <1>14, OneMoreCall
      <4>3. <<k, l>> # <<x, y>>
        BY <2>8
      <4>4. Times(<<x, y>>, heard)' = Times(<<x, y>>, Append(heard, <<k, l>>))
        BY <1>4 DEF Times
      <4>5. Among(y, Current(x), m) \in Nat
        <5>1. m \in Nat
          BY <2>6
        <5>2. QED
          BY <5>1, AmongNext
      <4>6. QED
        BY <4>1, <4>2, <4>3, <4>4, <4>5
    <3>3. CalledTo(x, m)'
      BY <2>1, <2>2, <2>3, <2>4, <3>1, <3>2 DEF CalledTo
    <3>4. (\E n_ \in 0 .. Len(Current(x)) : CalledTo(x, n_))'
      BY <2>4, <3>3
    <3>5. Begins(start[x], Current(x))'
      BY <2>4, <2>5
    <3>6. QED
      BY <2>1, <3>1, <3>4, <3>5 DEF Served
  <2>9. QED
    BY <2>7, <2>8
<1>17. HeardOK'
  <2>1. touched' = touched /\ start' = start
    BY <1>1 DEF Delivers
  <2>2. touched' = {} => \A x \in Scopes : Served(x)'
    BY <1>12, <1>16, <2>1
  <2>3. start' \in [Scopes -> Seq(Listeners)]
    BY <1>12, <2>1
  <2>4. (touched = {} => \A x \in Scopes : Served(x))'
    BY <2>2
  <2>5. (\A n \in DOMAIN heard : InScope(heard[n][1]))'
    BY <1>15
  <2>6. QED
    BY <1>13, <1>14, <2>3, <2>4, <2>5 DEF HeardOK
<1>18. QED
  BY <1>7, <1>10, <1>17 DEF RouteInv

\* A step of the delivery that calls nobody keeps the invariant, if it keeps its
\* place and everybody served.
LEMMA GoesOn ==
  ASSUME RouteInv, Delivers, heard' = heard, astray' = astray, PassOK', pass.pc # "none",
         pass'.window = pass.window, \A x \in Scopes : Served(x) => Served(x)'
  PROVE  RouteInv'
<1>1. RegistriesOK' /\ moved' = moved /\ touched' = touched /\ start' = start
  BY DeliveryLeaves DEF Delivers, RouteInv
<1>2. /\ start \in [Scopes -> Seq(Listeners)] /\ heard \in Seq(Scopes \X Listeners)
      /\ (astray => moved)
      /\ \A n \in DOMAIN heard : InScope(heard[n][1])
      /\ touched = {} => \A w \in Scopes : Served(w)
  BY DEF RouteInv, HeardOK
<1>3. (\A n \in DOMAIN heard : InScope(heard[n][1]))'
  BY <1>2 DEF InScope
<1>4. (touched = {} => \A w \in Scopes : Served(w))'
  BY <1>1, <1>2
<1>5. HeardOK'
  BY <1>1, <1>2, <1>3, <1>4 DEF HeardOK
<1>6. QED
  BY <1>1, <1>5 DEF RouteInv

\* At the end of a loop everybody who was there at the beginning has been called.
LEMMA LoopEnds ==
  ASSUME RouteInv, pass.pc \in {"global", "row"}, pass.i > CurrentList.count,
         start \in [Scopes -> Seq(Listeners)],
         NEW x \in Scopes, LoopAt(x), Served(x), NEW m, CalledTo(x, m)
  PROVE  Len(start[x]) <= m
<1>1. PointerOK(x) /\ IsList(segs, CurrentList)
  BY ListOfLoop DEF Served
<1>2. PICK n \in Nat : n = CurrentList.count
  BY <1>1 DEF IsList, ListType
<1>3. PICK i \in Nat : i = pass.i
  BY PassFields
<1>4. i > n /\ i <= n + 1 /\ m = i - 1
  BY <1>1, <1>2, <1>3 DEF PointerOK, CalledTo
<1>5. Len(start[x]) <= n
  BY <1>1, <1>2 DEF PointerOK
<1>6. QED
  BY <1>4, <1>5

\* The delivery leaves a list, and is not at another yet.
Leaves(c, R) ==
  /\ Delivers /\ heard' = heard /\ astray' = astray
  /\ pass' = [pc |-> c, window |-> pass.window, i |-> pass.i, r |-> R,
              table |-> pass.table, row |-> pass.row]
  /\ c \in {"next", "done"} /\ R \in Nat \ {0}
  /\ pass.window = Broadcast => R <= Len(Rows) + 1
  /\ pass.window = Broadcast /\ c = "done" => R > Len(Rows)

\* Who it was to call on the way is behind it, and the others are not.
LEMMA LeavesKeeps ==
  ASSUME RouteInv, pass.pc # "none", NEW c, NEW R, Leaves(c, R),
         \A x \in Scopes : \A m : Served(x) /\ CalledTo(x, m)
           => (Behind(x)' => Len(start[x]) <= m) /\ (~Behind(x)' => m = 0)
  PROVE  RouteInv'
<1>1. /\ Delivers /\ heard' = heard /\ astray' = astray
      /\ Rows' = Rows /\ moved' = moved /\ tables' = tables
  BY DeliveryLeaves DEF Leaves, Delivers
<1>2. ~AtRow' /\ pass'.pc \in {"next", "done"} /\ pass'.window = pass.window
  BY DEF Leaves, AtRow
<1>3. \A x : ~LoopAt(x)'
  BY <1>2 DEF LoopAt
<1>4. PassOK'
  <2>1. pass' \in [pc : {"none", "global", "row", "call", "next", "done"}, window : Scopes,
                   i : Nat, r : Nat, table : Nat, row : Nat] /\ pass'.i # 0 /\ pass'.r # 0
    BY PassFields DEF Leaves
  <2>2. /\ pass'.window = Broadcast => pass'.r <= Len(Rows') + 1
        /\ pass'.window = Broadcast /\ pass'.pc = "done" => pass'.r > Len(Rows')
    BY <1>1 DEF Leaves
  <2>3. QED
    BY <1>1, <1>2, <2>1, <2>2 DEF RouteInv, PassOK
<1>5. ASSUME NEW x \in Scopes, Served(x) PROVE Served(x)'
  <2>1. PICK m \in 0 .. Len(Current(x)) : CalledTo(x, m)
    BY <1>5 DEF Served
  <2>2. \A l \in Listeners : Times(<<x, l>>, heard) = Among(l, Current(x), m)
    BY <2>1 DEF CalledTo
  <2>3. (Behind(x)' => Len(start[x]) <= m) /\ (~Behind(x)' => m = 0)
    BY <1>5, <2>1
  <2>4. Begins(start[x], Current(x))
    BY <1>5 DEF Served
  <2>5. QED
    BY <1>1, <1>3, <2>2, <2>3, <2>4, ServedOn
<1>6. QED
  BY <1>1, <1>2, <1>4, <1>5, GoesOn

\* deliverToWindow takes its pointer to the row of a window.
LEMMA EnterKeeps ==
  ASSUME RouteInv, Delivers, heard' = heard, astray' = astray, NEW w \in Windows, RowFor(w) # 0,
         pass.pc = "next" \/ (pass.pc = "global" /\ pass.i > CurrentList.count),
         IF pass.window = Broadcast THEN RowFor(w) = pass.r
         ELSE w = pass.window /\ pass.pc = "global",
         pass' = [pc |-> "row", window |-> pass.window, i |-> 1, r |-> pass.r,
                  table |-> Len(tables), row |-> RowFor(w)]
  PROVE  RouteInv'
<1>1. /\ Rows' = Rows /\ moved' = moved /\ tables' = tables /\ segs' = segs /\ start' = start
      /\ \A x : RowFor(x)' = RowFor(x) /\ Current(x)' = Current(x)
  BY DeliveryLeaves DEF Delivers
<1>2. PICK k \in DOMAIN tables : k = Len(tables) /\ Rows = tables[k] /\ k \in Nat
  BY RowFacts DEF RouteInv, Rows
<1>3. PICK q \in DOMAIN tables[k] : q = RowFor(w) /\ tables[k][q].win = w /\ q \in Nat
  BY <1>2, RowForFinds, RowFacts DEF RouteInv
<1>4. pass' = [pc |-> "row", window |-> pass.window, i |-> 1, r |-> pass.r, table |-> k, row |-> q]
  BY <1>2, <1>3
<1>5. AtRow' /\ pass'.pc = "row" /\ q # 0 /\ w # Broadcast
  BY <1>3, <1>4, RouteAssumption DEF AtRow
<1>6. PassOK'
  <2>1. pass' \in [pc : {"none", "global", "row", "call", "next", "done"}, window : Scopes,
                   i : Nat, r : Nat, table : Nat, row : Nat] /\ pass'.i # 0 /\ pass'.r # 0
    BY <1>3, <1>4, PassFields
  <2>2. /\ pass'.table \in DOMAIN tables' /\ pass'.row \in DOMAIN tables'[pass'.table]
        /\ IF pass'.window = Broadcast THEN pass'.row = pass'.r
           ELSE tables'[pass'.table][pass'.row].win = pass'.window
        /\ moved' \/ pass'.table = Len(tables')
    BY <1>1, <1>2, <1>3, <1>4
  <2>3. pass'.window = Broadcast => pass'.r <= Len(Rows') + 1
    BY <1>1, <1>4 DEF RouteInv, PassOK
  <2>4. QED
    BY <1>1, <1>4, <1>5, <2>1, <2>2, <2>3 DEF RouteInv, PassOK
<1>7. CurrentScope' = w /\ CurrentList' = tables[k][q].list
  BY <1>1, <1>3, <1>4, <1>5 DEF CurrentScope, CurrentList
<1>8. tables[k][q].list = ListOf(w) /\ Items(CurrentList)' = Current(w)
  <2>1. tables[k][q].list = ListOf(w)
    BY <1>2, <1>3, <1>5 DEF ListOf
  <2>2. QED
    BY <1>1, <1>7, <2>1 DEF Current, Items
<1>9. \A x : LoopAt(x)' <=> x = w
  BY <1>5, <1>7 DEF LoopAt
<1>10. \A x : LoopAt(x) => x = Broadcast /\ pass.pc = "global"
  BY PassFields DEF LoopAt, CurrentScope
<1>11. ~Behind(w) /\ ~Behind(w)'
  BY <1>1, <1>3, <1>4, <1>5, PassFields DEF Behind
<1>12. ASSUME NEW x \in Scopes, Served(x) PROVE Served(x)'
  <2>1. PICK m \in 0 .. Len(Current(x)) : CalledTo(x, m)
    BY <1>12 DEF Served
  <2>2. \A l \in Listeners : Times(<<x, l>>, heard) = Among(l, Current(x), m)
    BY <2>1 DEF CalledTo
  <2>3. Begins(start[x], Current(x))
    BY <1>12 DEF Served
  <2>4. CASE x = w
    <3>1. m = 0
      BY <1>5, <1>10, <1>11, <2>1, <2>4 DEF CalledTo
    <3>2. Len(Current(x)) = ListOf(x).count /\ ListOf(x).count \in Nat
      BY CurrentIs DEF RouteInv
    <3>3. Len(start[x]) <= CurrentList'.count
      BY <1>7, <1>8, <2>3, <2>4, <3>2 DEF Begins
    <3>4. pass'.i <= CurrentList'.count + 1
      BY <1>4, <1>7, <1>8, <2>4, <3>2
    <3>5. Begins(Current(x), Current(x))
      BY <3>2 DEF Begins
    <3>6. PointerOK(x)'
      BY <1>1, <1>5, <1>8, <2>4, <3>3, <3>4, <3>5 DEF PointerOK
    <3>7. m = IF pass'.pc = "call" THEN pass'.i ELSE pass'.i - 1
      BY <1>4, <3>1
    <3>8. QED
      BY <1>11, <2>2, <2>3, <2>4, <3>1, <3>6, <3>7, ServedOn
  <2>5. CASE x = Broadcast
    <3>1. Len(start[x]) <= m
      <4>1. CASE pass.pc = "next"
        BY <2>1, <2>5, <4>1 DEF Behind, CalledTo
      <4>2. CASE pass.pc = "global"
        <5>1. LoopAt(x)
          BY <2>5, <4>2, PassFields DEF LoopAt, CurrentScope
        <5>2. start \in [Scopes -> Seq(Listeners)]
          BY <4>2 DEF RouteInv, HeardOK
        <5>3. QED
          BY <1>12, <2>1, <4>2, <5>1, <5>2, LoopEnds
      <4>3. QED
        BY <4>1, <4>2
    <3>2. ~LoopAt(x)' /\ Behind(x)'
      BY <1>5, <1>9, <2>5 DEF Behind
    <3>3. QED
      BY <2>2, <2>3, <3>1, <3>2, ServedOn
  <2>6. CASE x # w /\ x # Broadcast
    <3>1. ~LoopAt(x) /\ ~LoopAt(x)'
      BY <1>9, <1>10, <2>6
    <3>2. Behind(x)' <=> Behind(x)
      BY <1>1, <1>4, <2>6 DEF Behind
    <3>3. (Behind(x) => Len(start[x]) <= m) /\ (~Behind(x) => m = 0)
      BY <2>1, <3>1 DEF CalledTo
    <3>4. QED
      BY <2>2, <2>3, <3>1, <3>2, <3>3, ServedOn
  <2>7. QED
    BY <2>4, <2>5, <2>6
<1>13. pass.pc # "none" /\ pass'.window = pass.window
  BY <1>4
<1>14. QED
  BY <1>6, <1>12, <1>13, GoesOn

\* A loop ends: the delivery goes on with the rows, with the row of its window, or
\* is done with its window.
LEMMA ListDoneKeeps ==
  ASSUME RouteInv, ListDone
  PROVE  RouteInv'
<1>1. /\ Delivers /\ heard' = heard /\ astray' = astray
      /\ pass.pc \in {"global", "row"} /\ pass.i > CurrentList.count
  BY DEF ListDone, RouteUnchanged, Delivers
<1>2. pass = [pc |-> pass.pc, window |-> pass.window, i |-> pass.i, r |-> pass.r,
              table |-> pass.table, row |-> pass.row]
  BY PassFields
<1>3. /\ \A x : RowFor(x)' = RowFor(x) /\ Rows' = Rows
      /\ start \in [Scopes -> Seq(Listeners)]
  BY <1>1, DeliveryLeaves DEF RouteInv, HeardOK
<1>4. \A x \in Scopes : \A m : LoopAt(x) /\ Served(x) /\ CalledTo(x, m) => Len(start[x]) <= m
  BY <1>1, <1>3, LoopEnds
<1>5. pass.r \in Nat \ {0} /\ pass.window \in Scopes /\ Len(Rows) \in Nat /\ DOMAIN Rows = 1 .. Len(Rows)
  BY PassFields, RowFacts DEF RouteInv
<1>6. CASE pass.pc = "row"
  <2>1. AtRow
    BY <1>6, PassFields
  <2>2. /\ pass.row \in DOMAIN Rows /\ CurrentScope \in Windows /\ CurrentScope # Broadcast
        /\ RowFor(CurrentScope) = pass.row /\ pass.row # 0
        /\ Rows[pass.row].win = CurrentScope
        /\ pass.window = Broadcast => pass.row = pass.r
        /\ pass.window # Broadcast => CurrentScope = pass.window
    BY <2>1, RowStillThere
  <2>3. pass' = [pc |-> "next", window |-> pass.window, i |-> pass.i, r |-> pass.r + 1,
                 table |-> pass.table, row |-> pass.row]
    <3>1. pass' = [pass EXCEPT !.pc = "next", !.r = pass.r + 1]
      BY <1>6 DEF ListDone
    <3>2. QED
      BY <1>2, <3>1
  <2>4. Leaves("next", pass.r + 1)
    <3>1. pass.window = Broadcast => pass.r + 1 <= Len(Rows) + 1
      BY <1>5, <2>2
    <3>2. pass.r + 1 \in Nat \ {0}
      BY <1>5
    <3>3. QED
      BY <1>1, <2>3, <3>1, <3>2 DEF Leaves
  <2>5. \A x : LoopAt(x) <=> x = CurrentScope
    BY <1>6 DEF LoopAt
  <2>6. ASSUME NEW x \in Scopes, NEW m, Served(x), CalledTo(x, m)
        PROVE  (Behind(x)' => Len(start[x]) <= m) /\ (~Behind(x)' => m = 0)
    <3>1. /\ Behind(x) => Len(start[x]) <= m
          /\ ~LoopAt(x) /\ ~Behind(x) => m = 0
          /\ LoopAt(x) => Len(start[x]) <= m
      BY <1>4, <2>6 DEF CalledTo
    <3>2. CASE x = Broadcast
      <4>1. Behind(x) /\ Behind(x)'
        BY <2>1, <2>3, <3>2 DEF Behind
      <4>2. QED
        BY <3>1, <4>1
    <3>3. CASE x # Broadcast /\ pass.window = Broadcast
      <4>1. Behind(x) <=> RowFor(x) # 0 /\ RowFor(x) < pass.r
        BY <3>3 DEF Behind
      <4>2. Behind(x)' <=> RowFor(x) # 0 /\ RowFor(x) < pass.r + 1
        BY <1>3, <2>3, <3>3 DEF Behind
      <4>3. x \in Windows
        BY <3>3 DEF Scopes
      <4>4. PICK n \in Nat : n = RowFor(x)
        BY <4>3, RowForFinds, RowFacts DEF RouteInv
      <4>5. n = pass.r /\ n # 0 <=> LoopAt(x)
        <5>1. LoopAt(x) => n = pass.r /\ n # 0
          BY <2>2, <2>5, <3>3, <4>4
        <5>2. n = pass.r /\ n # 0 => x = CurrentScope
          BY <2>2, <3>3, <4>3, <4>4, RowForFinds DEF RouteInv
        <5>3. QED
          BY <2>5, <5>1, <5>2
      <4>6. Behind(x)' <=> Behind(x) \/ LoopAt(x)
        BY <1>5, <4>1, <4>2, <4>4, <4>5
      <4>7. QED
        BY <3>1, <4>6
    <3>4. CASE x # Broadcast /\ pass.window # Broadcast
      <4>1. ~Behind(x) /\ (Behind(x)' <=> x = pass.window)
        BY <1>6, <2>3, <3>4 DEF Behind
      <4>2. LoopAt(x) <=> x = pass.window
        BY <2>2, <2>5, <3>4
      <4>3. QED
        BY <3>1, <4>1, <4>2
    <3>5. QED
      BY <3>2, <3>3, <3>4
  <2>7. QED
    BY <1>6, <2>4, <2>6, LeavesKeeps
<1>7. ASSUME pass.pc = "global"
      PROVE  /\ pass.row = 0 /\ ~AtRow
             /\ \A x : LoopAt(x) <=> x = Broadcast
  BY <1>7, PassFields DEF LoopAt, CurrentScope
<1>8. CASE pass.pc = "global" /\ (pass.window = Broadcast \/ RowFor(pass.window) = 0)
  <2>1. pass' = [pc |-> "next", window |-> pass.window, i |-> pass.i, r |-> pass.r,
                 table |-> pass.table, row |-> pass.row]
    <3>1. pass' = [pass EXCEPT !.pc = "next"]
      BY <1>8 DEF ListDone, Enter
    <3>2. QED
      BY <1>2, <3>1
  <2>2. Leaves("next", pass.r)
    <3>1. pass.window = Broadcast => pass.r <= Len(Rows) + 1
      BY DEF RouteInv, PassOK
    <3>2. QED
      BY <1>1, <1>5, <2>1, <3>1 DEF Leaves
  <2>3. ASSUME NEW x \in Scopes, NEW m, Served(x), CalledTo(x, m)
        PROVE  (Behind(x)' => Len(start[x]) <= m) /\ (~Behind(x)' => m = 0)
    <3>1. /\ Behind(x) => Len(start[x]) <= m
          /\ ~LoopAt(x) /\ ~Behind(x) => m = 0
          /\ LoopAt(x) => Len(start[x]) <= m
      BY <1>4, <2>3 DEF CalledTo
    <3>2. CASE x = Broadcast
      <4>1. LoopAt(x) /\ Behind(x)'
        BY <1>7, <1>8, <2>1, <3>2 DEF Behind
      <4>2. QED
        BY <3>1, <4>1
    <3>3. CASE x # Broadcast /\ pass.window = Broadcast
      <4>1. ~LoopAt(x) /\ (Behind(x)' <=> Behind(x))
        BY <1>3, <1>7, <1>8, <2>1, <3>3 DEF Behind
      <4>2. QED
        BY <3>1, <4>1
    <3>4. CASE x # Broadcast /\ pass.window # Broadcast
      <4>1. ~LoopAt(x) /\ ~Behind(x) /\ m = 0 /\ (Behind(x)' <=> x = pass.window)
        BY <1>7, <1>8, <2>1, <3>1, <3>4 DEF Behind
      <4>2. ASSUME x = pass.window PROVE Len(start[x]) <= 0
        <5>1. ListOf(x).count = 0
          BY <1>8, <3>4, <4>2 DEF ListOf, NoSeg
        <5>2. Len(Current(x)) = 0
          BY <5>1, CurrentIs DEF RouteInv
        <5>3. Begins(start[x], Current(x))
          BY <2>3 DEF Served
        <5>4. QED
          BY <5>2, <5>3 DEF Begins
      <4>3. QED
        BY <4>1, <4>2
    <3>5. QED
      BY <3>2, <3>3, <3>4
  <2>4. QED
    BY <1>8, <2>2, <2>3, LeavesKeeps
<1>9. CASE pass.pc = "global" /\ pass.window # Broadcast /\ RowFor(pass.window) # 0
  <2>1. pass' = [pass EXCEPT !.pc = "row", !.table = Len(tables), !.row = RowFor(pass.window), !.i = 1]
    BY <1>9 DEF ListDone, Enter
  <2>2. pass' = [pc |-> "row", window |-> pass.window, i |-> 1, r |-> pass.r,
                 table |-> Len(tables), row |-> RowFor(pass.window)]
    BY <1>2, <2>1
  <2>3. pass.window \in Windows
    BY <1>5, <1>9 DEF Scopes
  <2>4. QED
    BY <1>1, <1>9, <2>2, <2>3, EnterKeeps
<1>10. QED
  BY <1>1, <1>6, <1>8, <1>9

\* A broadcast goes on with the next row, and ends behind the last one.
LEMMA NextRowKeeps ==
  ASSUME RouteInv, NextRow
  PROVE  RouteInv'
<1>1. Delivers /\ heard' = heard /\ astray' = astray /\ pass.pc = "next"
  BY DEF NextRow, RouteUnchanged, Delivers
<1>2. pass = [pc |-> pass.pc, window |-> pass.window, i |-> pass.i, r |-> pass.r,
              table |-> pass.table, row |-> pass.row]
  BY PassFields
<1>3. pass.r \in Nat \ {0} /\ Len(Rows) \in Nat /\ DOMAIN Rows = 1 .. Len(Rows)
  BY PassFields, RowFacts DEF RouteInv
<1>4. CASE pass.window = Broadcast /\ pass.r <= Len(Rows)
  <2>1. PICK r \in DOMAIN Rows : r = pass.r /\ r # 0
    BY <1>3, <1>4
  <2>2. PICK w \in Windows : w = Rows[r].win
    <3>1. Rows[r] \in TableRows
      BY <2>1, RowFacts, ElementOfSeq DEF RouteInv
    <3>2. QED
      BY <3>1 DEF TableRows
  <2>3. RowFor(w) = r
    BY <2>1, <2>2, RowForFinds DEF RouteInv
  <2>4. pass' = [pass EXCEPT !.pc = "row", !.table = Len(tables), !.row = RowFor(w), !.i = 1]
    BY <1>4, <2>1, <2>2, <2>3 DEF NextRow, Enter
  <2>5. pass' = [pc |-> "row", window |-> pass.window, i |-> 1, r |-> pass.r,
                 table |-> Len(tables), row |-> RowFor(w)]
    BY <1>2, <2>4
  <2>6. RowFor(w) # 0 /\ RowFor(w) = pass.r /\ pass.window = Broadcast
    BY <1>4, <2>1, <2>3
  <2>7. /\ pass.pc = "next" \/ (pass.pc = "global" /\ pass.i > CurrentList.count)
        /\ IF pass.window = Broadcast THEN RowFor(w) = pass.r
           ELSE w = pass.window /\ pass.pc = "global"
    BY <1>1, <2>6
  <2>8. QED
    BY <1>1, <2>5, <2>6, <2>7, EnterKeeps
<1>5. CASE ~(pass.window = Broadcast /\ pass.r <= Len(Rows))
  <2>1. pass' = [pc |-> "done", window |-> pass.window, i |-> pass.i, r |-> pass.r,
                 table |-> pass.table, row |-> pass.row]
    <3>1. pass' = [pass EXCEPT !.pc = "done"]
      BY <1>5 DEF NextRow
    <3>2. QED
      BY <1>2, <3>1
  <2>2. Leaves("done", pass.r)
    <3>1. pass.window = Broadcast => pass.r <= Len(Rows) + 1
      BY DEF RouteInv, PassOK
    <3>2. pass.window = Broadcast => pass.r > Len(Rows)
      BY <1>3, <1>5
    <3>3. QED
      BY <1>1, <1>3, <2>1, <3>1, <3>2 DEF Leaves
  <2>3. ASSUME NEW x \in Scopes, NEW m, Served(x), CalledTo(x, m)
        PROVE  (Behind(x)' => Len(start[x]) <= m) /\ (~Behind(x)' => m = 0)
    <3>1. ~LoopAt(x) /\ RowFor(x)' = RowFor(x)
      BY <1>1, DeliveryLeaves DEF LoopAt
    <3>2. Behind(x)' <=> Behind(x)
      BY <1>1, <2>1, <3>1 DEF Behind
    <3>3. QED
      BY <2>3, <3>1, <3>2 DEF CalledTo
  <2>4. QED
    BY <1>1, <2>2, <2>3, LeavesKeeps
<1>6. QED
  BY <1>4, <1>5

\* A delivery begins: everybody who is registered is to be called, and nobody has
\* been.
LEMMA BeginKeeps ==
  ASSUME RouteInv, NEW w \in Scopes, BeginPass(w)
  PROVE  RouteInv'
<1>1. /\ UNCHANGED <<segs, tables, rowCap, globals>>
      /\ heard' = <<>> /\ start' = Registered /\ touched' = {} /\ moved' = FALSE /\ astray' = FALSE
      /\ pass.pc = "none"
  BY DEF BeginPass
<1>2. pass' = [pc |-> "global", window |-> w, i |-> 1, r |-> 1, table |-> 0, row |-> 0]
  BY DEF BeginPass, NoPass
<1>3. Rows' = Rows /\ \A x : RowFor(x)' = RowFor(x)
  BY <1>1 DEF Rows, RowFor
<1>4. \A x : ListOf(x)' = ListOf(x)
  BY <1>1, <1>3 DEF ListOf
<1>5. \A x : Current(x)' = Current(x)
  BY <1>1, <1>4 DEF Current, Items
<1>6. RegistriesOK'
  BY <1>1, <1>3 DEF RouteInv, RegistriesOK
<1>7. Len(Rows) \in Nat
  BY RowFacts DEF RouteInv
<1>8. PassOK'
  <2>1. ~AtRow'
    BY <1>2 DEF AtRow
  <2>2. moved' \in BOOLEAN /\ astray' \in BOOLEAN
    BY <1>1
  <2>3. pass' \in [pc : {"none", "global", "row", "call", "next", "done"}, window : Scopes,
                   i : Nat, r : Nat, table : Nat, row : Nat] /\ pass'.i # 0 /\ pass'.r # 0
    BY <1>2
  <2>4. pass'.pc = "global" /\ pass'.row = 0 /\ pass'.r <= Len(Rows') + 1
    BY <1>2, <1>3, <1>7
  <2>5. QED
    BY <2>1, <2>2, <2>3, <2>4 DEF PassOK
<1>9. \A x \in Scopes : /\ start'[x] = Current(x) /\ start'[x] \in Seq(Listeners)
                        /\ Len(Current(x)) \in Nat /\ Len(Current(x)) = ListOf(x).count
  BY <1>1, CurrentIs DEF Registered, Current, RouteInv
<1>10. start' \in [Scopes -> Seq(Listeners)]
  BY <1>1, <1>9 DEF Registered
<1>11. ASSUME NEW x \in Scopes PROVE Served(x)'
  <2>1. Begins(start[x], Current(x))'
    BY <1>5, <1>9 DEF Begins
  <2>2. CurrentScope' = Broadcast /\ CurrentList' = globals
    BY <1>1, <1>2 DEF CurrentScope, CurrentList
  <2>3. LoopAt(x)' <=> x = Broadcast
    BY <1>2, <2>2 DEF LoopAt
  <2>4. ASSUME x = Broadcast PROVE PointerOK(x)'
    <3>1. ListOf(x) = globals /\ Items(CurrentList)' = Current(x)
      BY <1>1, <2>2, <2>4 DEF ListOf, Current, Items
    <3>2. Len(start'[x]) <= CurrentList'.count /\ pass'.i <= CurrentList'.count + 1
      BY <1>2, <1>9, <2>2, <3>1
    <3>3. Begins(Current(x), Current(x))
      BY <1>9 DEF Begins
    <3>4. QED
      BY <1>2, <1>5, <3>1, <3>2, <3>3 DEF PointerOK
  <2>5. ~Behind(x)'
    <3>1. x \in Windows => RowFor(x) \in Nat
      BY <1>7, RowForFinds DEF RouteInv
    <3>2. CASE x = Broadcast
      BY <1>2, <3>2 DEF Behind, AtRow
    <3>3. CASE x # Broadcast
      BY <1>2, <1>3, <3>1, <3>3 DEF Behind, Scopes
    <3>4. QED
      BY <3>2, <3>3
  <2>6. \A l \in Listeners : Times(<<x, l>>, heard') = 0 /\ Among(l, Current(x), 0) = 0
    <3>1. \A e : {i \in DOMAIN <<>> : <<>>[i] = e} = {}
      OBVIOUS
    <3>2. \A e : Times(e, heard') = 0
      BY <1>1, <3>1, FS_EmptySet DEF Times
    <3>3. QED
      BY <3>2, AmongMore
  <2>7. CalledTo(x, 0)'
    <3>1. \A l \in Listeners : Times(<<x, l>>, heard') = Among(l, Current(x)', 0)
      BY <1>5, <2>6
    <3>2. LoopAt(x)' => 0 = IF pass'.pc = "call" THEN pass'.i ELSE pass'.i - 1
      BY <1>2
    <3>3. QED
      BY <2>5, <3>1, <3>2 DEF CalledTo
  <2>8. (\E n \in 0 .. Len(Current(x)) : CalledTo(x, n))'
    BY <1>5, <1>9, <2>7
  <2>9. QED
    BY <2>1, <2>3, <2>4, <2>8 DEF Served
<1>12. HeardOK'
  <2>1. (\A n \in DOMAIN heard : InScope(heard[n][1]))'
    BY <1>1
  <2>2. heard' \in Seq(Scopes \X Listeners)
    BY <1>1
  <2>3. QED
    BY <1>1, <1>10, <1>11, <2>1, <2>2 DEF HeardOK
<1>13. QED
  BY <1>6, <1>8, <1>12 DEF RouteInv

\* A delivery is over.
LEMMA EndKeeps ==
  ASSUME RouteInv, EndPass
  PROVE  RouteInv'
<1>1. /\ UNCHANGED <<segs, tables, rowCap, globals>>
      /\ heard' = <<>> /\ moved' = FALSE /\ astray' = FALSE
      /\ pass' = [pc |-> "none", window |-> Broadcast, i |-> 1, r |-> 1, table |-> 0, row |-> 0]
  BY DEF EndPass, NoPass
<1>2. Rows' = Rows
  BY <1>1 DEF Rows
<1>3. RegistriesOK'
  BY <1>1, <1>2 DEF RouteInv, RegistriesOK
<1>4. Len(Rows) \in Nat /\ Broadcast \in Scopes
  BY RowFacts DEF RouteInv, Scopes
<1>5. ~AtRow'
  BY <1>1 DEF AtRow
<1>6. PassOK'
  <2>1. moved' \in BOOLEAN /\ astray' \in BOOLEAN
    BY <1>1
  <2>2. pass' \in [pc : {"none", "global", "row", "call", "next", "done"}, window : Scopes,
                   i : Nat, r : Nat, table : Nat, row : Nat] /\ pass'.i # 0 /\ pass'.r # 0
    BY <1>1, <1>4
  <2>3. pass'.pc = "none" /\ pass'.r <= Len(Rows') + 1
    BY <1>1, <1>2, <1>4
  <2>4. QED
    BY <1>5, <2>1, <2>2, <2>3 DEF PassOK
<1>7. HeardOK'
  BY <1>1 DEF HeardOK
<1>8. QED
  BY <1>3, <1>6, <1>7 DEF RouteInv

\* Nothing is registered at the start.
LEMMA RouteBegins == RouteInit => RouteInv
<1>1. SUFFICES ASSUME RouteInit PROVE RouteInv
  OBVIOUS
<1>2. /\ segs = <<>> /\ tables = <<<<>>>> /\ rowCap = 0 /\ heard = <<>> /\ moved = FALSE /\ astray = FALSE
      /\ globals = [seg |-> 0, count |-> 0, cap |-> 0]
      /\ pass = [pc |-> "none", window |-> Broadcast, i |-> 1, r |-> 1, table |-> 0, row |-> 0]
  BY <1>1 DEF RouteInit, NoSeg, NoPass
<1>3. Rows = <<>> /\ DOMAIN tables = {1} /\ tables[1] = <<>>
  BY <1>2 DEF Rows
<1>4. RegistriesOK
  <2>1. segs \in Seq(Seq(Listeners)) /\ tables \in Seq(Seq(TableRows)) /\ tables # <<>>
    BY <1>2
  <2>2. IsList(segs, globals)
    BY <1>2 DEF IsList, ListType
  <2>3. QED
    BY <1>2, <1>3, <2>1, <2>2 DEF RegistriesOK
<1>5. PassOK
  <2>1. moved \in BOOLEAN /\ astray \in BOOLEAN
    BY <1>2
  <2>2. pass \in [pc : {"none", "global", "row", "call", "next", "done"}, window : Scopes,
                  i : Nat, r : Nat, table : Nat, row : Nat] /\ pass.i # 0 /\ pass.r # 0
    BY <1>2 DEF Scopes
  <2>3. pass.pc = "none" /\ pass.r <= Len(Rows) + 1
    BY <1>2, <1>3
  <2>4. QED
    BY <2>1, <2>2, <2>3 DEF PassOK, AtRow
<1>6. HeardOK
  BY <1>2 DEF HeardOK
<1>7. QED
  BY <1>4, <1>5, <1>6 DEF RouteInv

\* What the invariant says of a delivery that is done.
LEMMA DoneMeansServed == RouteInv => RegistrationsAreCalled
<1>1. SUFFICES ASSUME RouteInv PROVE RegistrationsAreCalled
  OBVIOUS
<1>2. astray => moved
  BY <1>1 DEF RouteInv, HeardOK
<1>3. ASSUME pass.pc = "done", NEW w \in Scopes, NEW l \in Listeners
      PROVE  IF InScope(w)
             THEN touched = {} => /\ Times(l, start[w]) <= Times(<<w, l>>, heard)
                                  /\ Times(<<w, l>>, heard) <= Times(l, Registered[w])
             ELSE Times(<<w, l>>, heard) = 0
  <2>1. /\ heard \in Seq(Scopes \X Listeners) /\ start \in [Scopes -> Seq(Listeners)]
        /\ \A n \in DOMAIN heard : InScope(heard[n][1])
        /\ touched = {} => Served(w)
    BY <1>1, <1>3 DEF RouteInv, HeardOK
  <2>2. ASSUME InScope(w), touched = {}
        PROVE  /\ Times(l, start[w]) <= Times(<<w, l>>, heard)
               /\ Times(<<w, l>>, heard) <= Times(l, Registered[w])
    <3>1. Served(w)
      BY <2>1, <2>2
    <3>2. PICK m \in 0 .. Len(Current(w)) : CalledTo(w, m)
      BY <3>1 DEF Served
    <3>3. PICK s \in Seq(Listeners) : s = start[w]
      BY <2>1
    <3>4. PICK c \in Seq(Listeners) : c = Current(w) /\ c = Registered[w] /\ Len(c) = ListOf(w).count
      BY <1>1, CurrentIs DEF RouteInv, Current, Registered
    <3>5. PICK a \in Nat : a = Len(s)
      BY <3>3
    <3>6. PICK b \in Nat : b = Len(c)
      BY <3>4
    <3>7. m \in Nat /\ m <= b
      BY <3>2, <3>4, <3>6
    <3>8. Begins(s, c)
      BY <3>1, <3>3, <3>4 DEF Served
    <3>9. a <= m
      <4>1. ~LoopAt(w)
        BY <1>3 DEF LoopAt
      <4>2. CASE Behind(w)
        BY <3>2, <3>3, <3>5, <4>2 DEF CalledTo
      <4>3. CASE ~Behind(w)
        <5>1. w # Broadcast /\ pass.window = Broadcast
          BY <1>3, <2>2, <4>3 DEF Behind, InScope
        <5>2. w \in Windows
          BY <5>1 DEF Scopes
        <5>3. /\ RowFor(w) \in 0 .. Len(Rows) /\ Len(Rows) \in Nat
              /\ pass.r \in Nat /\ pass.r > Len(Rows)
          BY <1>1, <1>3, <5>1, <5>2, RowForFinds, RowFacts, PassFields DEF RouteInv, PassOK
        <5>4. RowFor(w) = 0
          BY <4>3, <5>1, <5>3 DEF Behind
        <5>5. ListOf(w).count = 0
          BY <5>1, <5>4 DEF ListOf, NoSeg
        <5>6. b = 0
          BY <3>4, <3>6, <5>5
        <5>7. a <= b
          BY <3>5, <3>6, <3>8 DEF Begins
        <5>8. QED
          BY <3>5, <3>7, <5>6, <5>7
      <4>4. QED
        BY <4>2, <4>3
    <3>10. Times(l, s) = Among(l, s, a) /\ Times(l, c) = Among(l, c, b)
      BY <3>5, <3>6, TimesIsAmong
    <3>11. Among(l, s, a) = Among(l, c, a)
      BY <3>5, <3>8, AmongBeginning
    <3>12. Among(l, c, a) <= Among(l, c, m)
      BY <3>7, <3>9, AmongMore
    <3>13. Among(l, c, m) <= Among(l, c, b)
      BY <3>7, AmongMore
    <3>14. Times(<<w, l>>, heard) = Among(l, c, m)
      BY <3>2, <3>4 DEF CalledTo
    <3>15. QED
      BY <3>3, <3>4, <3>10, <3>11, <3>12, <3>13, <3>14
  <2>3. ASSUME ~InScope(w) PROVE Times(<<w, l>>, heard) = 0
    <3>1. \A n \in DOMAIN heard : heard[n] # <<w, l>>
      BY <2>1, <2>3
    <3>2. {n \in DOMAIN heard : heard[n] = <<w, l>>} = {}
      BY <3>1
    <3>3. QED
      BY <3>2, FS_EmptySet DEF Times
  <2>4. QED
    BY <2>2, <2>3
<1>4. QED
  BY <1>2, <1>3 DEF RegistrationsAreCalled, EveryRegistrationIsCalled

\* A delivery of input/key.c, input/mouse.c or input/touch.c calls whoever is
\* registered for its scope and stays so, once for each registration, whatever
\* the listeners register meanwhile and however often segments and the table grow;
\* nobody of another window; and nobody who is not registered, unless the table
\* has moved under it.
THEOREM RegistrationsReachTheirListeners == RouteSpec => []RegistrationsAreCalled
<1>1. RouteInv /\ [RouteNext]_routeVars => RouteInv'
  <2>1. SUFFICES ASSUME RouteInv, [RouteNext]_routeVars PROVE RouteInv'
    OBVIOUS
  <2>2. ASSUME NEW l \in Listeners, AddListener(l) PROVE RouteInv'
    <3>1. pass.pc \in {"none", "call"} /\ Broadcast \in Scopes
      BY <2>2 DEF AddListener, MayChange, Scopes
    <3>2. QED
      BY <2>1, <2>2, <3>1, AddWidens, WidenedKeeps
  <2>3. ASSUME NEW l \in Listeners, RemoveListener(l) PROVE RouteInv'
    BY <2>1, <2>3, RemovalKeeps
  <2>4. ASSUME NEW l \in Listeners, NEW w \in Windows, AttachWindow(w, l) PROVE RouteInv'
    <3>1. pass.pc \in {"none", "call"} /\ w \in Scopes
      BY <2>4 DEF AttachWindow, MayChange, Scopes
    <3>2. QED
      BY <2>1, <2>4, <3>1, AttachWidens, WidenedKeeps
  <2>5. ASSUME NEW l \in Listeners, NEW w \in Windows, DetachWindow(w, l) PROVE RouteInv'
    BY <2>1, <2>5, RemovalKeeps
  <2>6. ASSUME NEW w \in Windows, DetachWindowAll(w) PROVE RouteInv'
    BY <2>1, <2>6, RouteAssumption, RemovalKeeps
  <2>7. ASSUME NEW w \in Scopes, BeginPass(w) PROVE RouteInv'
    BY <2>1, <2>7, BeginKeeps
  <2>8. CASE CallNext
    BY <2>1, <2>8, CallKeeps
  <2>9. CASE ReturnFromCall
    BY <2>1, <2>9, ReturnKeeps
  <2>10. CASE ListDone
    BY <2>1, <2>10, ListDoneKeeps
  <2>11. CASE NextRow
    BY <2>1, <2>11, NextRowKeeps
  <2>12. CASE EndPass
    BY <2>1, <2>12, EndKeeps
  <2>13. CASE UNCHANGED routeVars
    <3>1. UNCHANGED <<segs, tables, rowCap, globals, pass, heard, start, touched, moved, astray>>
      BY <2>13 DEF routeVars
    <3>2. Delivers
      BY <3>1 DEF Delivers
    <3>3. /\ RegistriesOK' /\ Rows' = Rows
          /\ \A x : /\ RowFor(x)' = RowFor(x) /\ ListOf(x)' = ListOf(x) /\ Current(x)' = Current(x)
      BY <2>1, <3>2, DeliveryLeaves DEF RouteInv
    <3>4. PassOK'
      BY <2>1, <3>1, <3>3 DEF RouteInv, PassOK, AtRow
    <3>5. CurrentScope' = CurrentScope /\ CurrentList' = CurrentList /\ Items(CurrentList)' = Items(CurrentList)
      BY <3>1 DEF CurrentScope, CurrentList, Items
    <3>6. \A x : (LoopAt(x)' <=> LoopAt(x)) /\ (Behind(x)' <=> Behind(x)) /\ (PointerOK(x)' <=> PointerOK(x))
      BY <3>1, <3>3, <3>5 DEF LoopAt, Behind, PointerOK, AtRow
    <3>7. \A x : \A m : CalledTo(x, m)' <=> CalledTo(x, m)
      BY <3>1, <3>3, <3>6 DEF CalledTo
    <3>8. \A x : Served(x)' <=> Served(x)
      BY <3>1, <3>3, <3>6, <3>7 DEF Served
    <3>9. HeardOK'
      BY <2>1, <3>1, <3>8 DEF RouteInv, HeardOK, InScope
    <3>10. QED
      BY <3>3, <3>4, <3>9 DEF RouteInv
  <2>14. QED
    BY <2>1, <2>2, <2>3, <2>4, <2>5, <2>6, <2>7, <2>8, <2>9, <2>10, <2>11, <2>12, <2>13 DEF RouteNext
<1>2. QED
  BY <1>1, RouteBegins, DoneMeansServed, PTL DEF RouteSpec

-----------------------------------------------------------------------------
(* Keys: the slots, the pump and the resolver *)

Slots == [pressTime : Nat, lastRelease : Nat, pendingUntil : Nat, taps : Nat,
          lastTapMods : Nat, longPressFired : BOOLEAN]
Actions == {"down", "repeat", "up"}
KeyEvents == [key : KeyCodes, action : Actions]
Pushes == [todo : SUBSET DOMAIN FreshSlot, key : KeyCodes, to : Slots,
           event : {<<>>} \cup {<<e>> : e \in KeyEvents}]
Resolves == [pc : {"idle", "scan", "expire", "decline", "take"}, i : Nat \ {0},
             best : {0} \cup DOMAIN Bindings, mods : Nat, hold : Nat]

\* A push under way is of the key of its event, and its slot is what the event
\* says; a decline is at a binding.
KeyTypes ==
  /\ racing \in BOOLEAN /\ multiTap \in BOOLEAN /\ clock \in Nat \ {0}
  /\ slot \in [KeyCodes -> Slots]
  /\ pump \in Pushes
  /\ queue \in Seq(KeyEvents)
  /\ view \in [KeyCodes -> BOOLEAN] /\ dropped \in [KeyCodes -> BOOLEAN]
  /\ resolver \in Resolves
  /\ resolver.pc = "decline" => resolver.i \in DOMAIN Bindings
  /\ resolver.pc = "take" => resolver.best # 0
  /\ pushes \in Nat
  /\ presses \in [KeyCodes -> Nat] /\ fires \in [KeyCodes -> Nat]
  /\ longs \in [KeyCodes -> Seq(Nat)] /\ lastTap \in [KeyCodes -> Nat]

PumpOK ==
  /\ pump.event = <<>> => pump.todo = {}
  /\ pump.event # <<>> =>
       /\ pump.event[1].key = pump.key
       /\ pump.event[1].action = "repeat" => pump.todo = {}
       /\ pump.event[1].action = "down" => pump.to.pressTime # 0
       /\ pump.event[1].action = "up" => pump.to.pressTime = 0
       /\ pump.event[1].action # "repeat" =>
            "pressTime" \in pump.todo \/ slot[pump.key].pressTime = pump.to.pressTime

\* What a listener will think of k once it has heard q and was told b before.
NotSaid(k, q, i) == \A j \in DOMAIN q : j > i /\ q[j].key = k => q[j].action = "repeat"
Says(k, q, b) ==
  \E i \in DOMAIN q : q[i] = Event(k, IF b THEN "down" ELSE "up") /\ NotSaid(k, q, i)
WillKnow(k, b) == Says(k, queue, b) \/ (NotSaid(k, queue, 0) /\ view[k] = b)

\* A press or release of k has yet to be offered.
InPump(k) == pump.event # <<>> /\ pump.key = k /\ pump.event[1].action # "repeat"
ListenersWillKnow == \A k \in KeyCodes : dropped[k] \/ InPump(k) \/ WillKnow(k, IsDown(k))

HearInv == KeyTypes /\ PumpOK /\ ListenersWillKnow

\* The modes of the bindings and what a binding is.
LEMMA BindingType ==
  ASSUME NEW i \in DOMAIN Bindings
  PROVE  /\ Bindings[i].key \in KeyCodes /\ Bindings[i].mods \in Nat /\ Bindings[i].mode \in 0 .. 3
         /\ i \in Nat \ {0} /\ i <= Len(Bindings)
<1> DEFINE S == [key : KeyCodes, mods : Nat, mode : 0 .. 3]
<1>1. Bindings \in Seq(S) /\ i \in DOMAIN Bindings
  BY KeyAssumption
<1>2. Bindings[i] \in S /\ i \in 1 .. Len(Bindings) /\ Len(Bindings) \in Nat
  <2> HIDE DEF S
  <2>1. QED
    BY <1>1
<1>3. QED
  BY <1>2

\* No event adds to what was said, nor takes from it, if it is a repeat or of
\* another key.
LEMMA SaidAppended ==
  ASSUME NEW q \in Seq(KeyEvents), NEW e \in KeyEvents, NEW k \in KeyCodes, NEW b \in BOOLEAN
  PROVE  /\ e.key # k \/ e.action = "repeat" =>
              /\ Says(k, q, b) => Says(k, Append(q, e), b)
              /\ NotSaid(k, q, 0) => NotSaid(k, Append(q, e), 0)
         /\ e = Event(k, IF b THEN "down" ELSE "up") => Says(k, Append(q, e), b)
<1> DEFINE r == Append(q, e)
<1>1. /\ Len(q) \in Nat /\ DOMAIN q = 1 .. Len(q) /\ DOMAIN r = 1 .. Len(q) + 1
      /\ \A j \in DOMAIN q : r[j] = q[j]
      /\ r[Len(q) + 1] = e
  OBVIOUS
<1> HIDE DEF r
<1>2. ASSUME e.key # k \/ e.action = "repeat", NEW i \in Nat, NotSaid(k, q, i) PROVE NotSaid(k, r, i)
  BY <1>1, <1>2 DEF NotSaid
<1>3. ASSUME e.key # k \/ e.action = "repeat", Says(k, q, b) PROVE Says(k, r, b)
  <2>1. PICK i \in DOMAIN q : q[i] = Event(k, IF b THEN "down" ELSE "up") /\ NotSaid(k, q, i)
    BY <1>3 DEF Says
  <2>2. i \in DOMAIN r /\ i \in Nat /\ r[i] = q[i]
    BY <1>1
  <2>3. QED
    BY <1>2, <1>3, <2>1, <2>2 DEF Says
<1>4. ASSUME e = Event(k, IF b THEN "down" ELSE "up") PROVE Says(k, r, b)
  <2>1. Len(q) + 1 \in DOMAIN r /\ NotSaid(k, r, Len(q) + 1)
    BY <1>1 DEF NotSaid
  <2>2. QED
    BY <1>1, <1>4, <2>1 DEF Says
<1>5. QED
  BY <1>2, <1>3, <1>4 DEF r

\* The oldest event is heard: what will be known stays.
LEMMA SaidHeard ==
  ASSUME NEW q \in Seq(KeyEvents), q # <<>>, NEW k \in KeyCodes, NEW b \in BOOLEAN
  PROVE  /\ Says(k, q, b) => \/ Says(k, Tail(q), b)
                             \/ /\ q[1] = Event(k, IF b THEN "down" ELSE "up")
                                /\ NotSaid(k, Tail(q), 0)
         /\ NotSaid(k, q, 0) => NotSaid(k, Tail(q), 0) /\ (q[1].key = k => q[1].action = "repeat")
<1> DEFINE r == Tail(q)
<1>1. /\ Len(q) \in Nat \ {0} /\ DOMAIN q = 1 .. Len(q) /\ DOMAIN r = 1 .. Len(q) - 1
      /\ \A j \in DOMAIN r : r[j] = q[j + 1]
  OBVIOUS
<1> HIDE DEF r
<1>2. \A i \in Nat \ {0} : NotSaid(k, q, i) => NotSaid(k, r, i - 1)
  BY <1>1 DEF NotSaid
<1>3. NotSaid(k, q, 0) => NotSaid(k, r, 0) /\ (q[1].key = k => q[1].action = "repeat")
  BY <1>1 DEF NotSaid
<1>4. ASSUME Says(k, q, b)
      PROVE  \/ Says(k, r, b)
             \/ q[1] = Event(k, IF b THEN "down" ELSE "up") /\ NotSaid(k, r, 0)
  <2>1. PICK i \in DOMAIN q : q[i] = Event(k, IF b THEN "down" ELSE "up") /\ NotSaid(k, q, i)
    BY <1>4 DEF Says
  <2>2. CASE i = 1
    BY <1>2, <2>1, <2>2
  <2>3. CASE i # 1
    <3>1. i - 1 \in DOMAIN r /\ r[i - 1] = q[i] /\ i \in Nat \ {0}
      BY <1>1, <2>3
    <3>2. QED
      BY <1>2, <2>1, <3>1 DEF Says
  <2>4. QED
    BY <2>2, <2>3
<1>5. QED
  BY <1>3, <1>4 DEF r

-----------------------------------------------------------------------------
(* Types *)

\* What KeyInit begins with.
LEMMA FreshTypes ==
  /\ FreshSlot \in Slots /\ NoPush \in Pushes /\ NoResolve \in Resolves
  /\ NoPush.todo = {} /\ NoPush.event = <<>> /\ NoResolve.pc = "idle" /\ NoResolve.best = 0
  /\ DOMAIN FreshSlot = {"pressTime", "lastRelease", "pendingUntil", "taps", "lastTapMods", "longPressFired"}
<1>1. FreshSlot \in Slots
  BY DEF FreshSlot, Slots
<1>2. DOMAIN FreshSlot = {"pressTime", "lastRelease", "pendingUntil", "taps", "lastTapMods", "longPressFired"}
  BY DEF FreshSlot
<1>3. Shift \in KeyCodes
  BY KeyAssumption
<1>4. NoPush \in Pushes /\ NoPush.todo = {} /\ NoPush.event = <<>>
  BY <1>1, <1>3 DEF NoPush, Pushes
<1>5. NoResolve \in Resolves /\ NoResolve.pc = "idle" /\ NoResolve.best = 0
  BY DEF NoResolve, Resolves
<1>6. QED
  BY <1>1, <1>2, <1>4, <1>5

\* A slot after some of the stores of a push, and what it may be.
After(s, to, fs) == [f \in DOMAIN FreshSlot |-> IF f \in fs THEN to[f] ELSE s[f]]

\* It is a slot still, each field as it was or as it will be.
LEMMA StoredType ==
  ASSUME NEW s \in Slots, NEW to \in Slots, NEW fs \in SUBSET DOMAIN FreshSlot
  PROVE  /\ After(s, to, fs) \in Slots
         /\ After(s, to, fs).pressTime = IF "pressTime" \in fs THEN to.pressTime ELSE s.pressTime
         /\ After(s, to, fs).taps = IF "taps" \in fs THEN to.taps ELSE s.taps
         /\ After(s, to, fs).longPressFired =
              IF "longPressFired" \in fs THEN to.longPressFired ELSE s.longPressFired
<1> DEFINE new == After(s, to, fs)
           At(f) == IF f \in fs THEN to[f] ELSE s[f]
           rec == [pressTime |-> At("pressTime"), lastRelease |-> At("lastRelease"),
                   pendingUntil |-> At("pendingUntil"), taps |-> At("taps"),
                   lastTapMods |-> At("lastTapMods"), longPressFired |-> At("longPressFired")]
<1>1. \A f \in DOMAIN FreshSlot : new[f] = At(f)
  BY DEF After
<1>2. new = rec
  BY <1>1, FreshTypes DEF After
<1>3. rec \in Slots
  <2>1. /\ At("pressTime") \in Nat /\ At("lastRelease") \in Nat /\ At("pendingUntil") \in Nat
        /\ At("taps") \in Nat /\ At("lastTapMods") \in Nat /\ At("longPressFired") \in BOOLEAN
    BY DEF Slots
  <2> HIDE DEF At
  <2>2. QED
    BY <2>1 DEF Slots
<1>4. new \in Slots
  BY <1>2, <1>3
<1>5. QED
  BY <1>1, <1>4, FreshTypes

\* A press or release that begins: its push, written out.
LEMMA PressBegins ==
  ASSUME KeyTypes, NEW k \in KeyCodes, PressKey(k)
  PROVE  /\ pump'.key = k /\ pump'.event = <<Event(k, "down")>>
         /\ pump'.todo = {"taps", "lastTapMods", "pendingUntil", "pressTime"}
         /\ pump'.to \in Slots /\ pump' \in Pushes
         /\ pump'.to.pressTime = clock /\ pump'.to.longPressFired = slot[k].longPressFired
         /\ pump'.to.taps \in {1, slot[k].taps + 1}
<1>1. /\ slot[k] \in Slots /\ clock \in Nat \ {0} /\ Window \in Nat /\ Shift \in KeyCodes
      /\ slot[k].taps \in Nat
  BY KeyAssumption DEF KeyTypes, Slots
<1>2. ModifierMask \in Nat
  BY DEF ModifierMask
<1>3. TapsOfPress(slot[k]) \in {1, slot[k].taps + 1} /\ TapsOfPress(slot[k]) \in Nat
  BY <1>1 DEF TapsOfPress
<1> DEFINE to == [slot[k] EXCEPT !.taps = TapsOfPress(slot[k]), !.lastTapMods = ModifierMask,
                                 !.pendingUntil = clock + Window, !.pressTime = clock]
<1>4. /\ to \in Slots /\ to.pressTime = clock /\ to.longPressFired = slot[k].longPressFired
      /\ to.taps = TapsOfPress(slot[k])
  <2> DEFINE n == TapsOfPress(slot[k])
             m == ModifierMask
             old == slot[k]
  <2> HIDE DEF n, m, old
  <2>1. old \in Slots /\ n \in Nat /\ m \in Nat /\ clock \in Nat /\ clock + Window \in Nat
    BY <1>1, <1>2, <1>3 DEF n, m, old
  <2>2. to = [old EXCEPT !.taps = n, !.lastTapMods = m, !.pendingUntil = clock + Window,
                         !.pressTime = clock]
    BY DEF n, m, old
  <2>3. to \in Slots /\ to.pressTime = clock /\ to.taps = n
    BY <2>1, <2>2 DEF Slots
  <2>4. to.longPressFired = old.longPressFired
    BY <2>1, <2>2 DEF Slots
  <2>5. QED
    BY <2>3, <2>4 DEF n, old
<1> HIDE DEF to
<1>5. pump' = [todo |-> {"taps", "lastTapMods", "pendingUntil", "pressTime"}, key |-> k,
               to |-> to, event |-> <<Event(k, "down")>>]
  BY DEF PressKey, to
<1>6. Event(k, "down") \in KeyEvents
  BY DEF Event, KeyEvents, Actions
<1>7. {"taps", "lastTapMods", "pendingUntil", "pressTime"} \in SUBSET DOMAIN FreshSlot
  BY FreshTypes
<1>8. pump' \in Pushes
  BY <1>4, <1>5, <1>6, <1>7 DEF Pushes
<1>9. QED
  BY <1>3, <1>4, <1>5, <1>8

\* The same of a release.
LEMMA ReleaseBegins ==
  ASSUME KeyTypes, NEW k \in KeyCodes, ReleaseKey(k)
  PROVE  /\ pump'.key = k /\ pump'.event = <<Event(k, "up")>>
         /\ pump'.todo = {"lastRelease", "pressTime", "longPressFired"}
         /\ pump'.to \in Slots /\ pump' \in Pushes
         /\ pump'.to.pressTime = 0
<1>1. /\ slot[k] \in Slots /\ clock \in Nat \ {0}
  BY DEF KeyTypes
<1> DEFINE to == [slot[k] EXCEPT !.lastRelease = clock, !.pressTime = 0, !.longPressFired = FALSE]
<1>4. to \in Slots /\ to.pressTime = 0
  BY <1>1 DEF Slots
<1> HIDE DEF to
<1>5. pump' = [todo |-> {"lastRelease", "pressTime", "longPressFired"}, key |-> k,
               to |-> to, event |-> <<Event(k, "up")>>]
  BY DEF ReleaseKey, to
<1>6. Event(k, "up") \in KeyEvents
  BY DEF Event, KeyEvents, Actions
<1>7. {"lastRelease", "pressTime", "longPressFired"} \in SUBSET DOMAIN FreshSlot
  BY FreshTypes
<1>8. pump' \in Pushes
  BY <1>4, <1>5, <1>6, <1>7 DEF Pushes
<1>9. QED
  BY <1>4, <1>5, <1>8

\* And of a repeat.
LEMMA RepeatBegins ==
  ASSUME KeyTypes, NEW k \in KeyCodes, RepeatKey(k)
  PROVE  /\ pump'.key = k /\ pump'.event = <<Event(k, "repeat")>> /\ pump'.todo = {}
         /\ pump' \in Pushes
<1>1. pump' = [todo |-> {}, key |-> k, to |-> FreshSlot, event |-> <<Event(k, "repeat")>>]
  BY DEF RepeatKey, NoPush
<1>2. Event(k, "repeat") \in KeyEvents
  BY DEF Event, KeyEvents, Actions
<1>3. pump' \in Pushes
  BY <1>1, <1>2, FreshTypes DEF Pushes
<1>4. QED
  BY <1>1, <1>3

\* consumeGesture of one key: the press time stays.
LEMMA ConsumedType ==
  ASSUME KeyTypes, NEW b \in [key : KeyCodes, mods : Nat, mode : 0 .. 3]
  PROVE  /\ Consumed(b) \in [KeyCodes -> Slots]
         /\ \A k \in KeyCodes :
              /\ k # b.key => Consumed(b)[k] = slot[k]
              /\ Consumed(b)[k].pressTime = slot[k].pressTime
         /\ Consumed(b)[b.key].taps = 0
         /\ Consumed(b)[b.key].longPressFired = (slot[b.key].longPressFired \/ b.mode = Modes.long)
<1> DEFINE s == slot[b.key]
           new == [s EXCEPT !.taps = 0, !.longPressFired = @ \/ b.mode = Modes.long]
<1>1. slot \in [KeyCodes -> Slots] /\ s \in Slots /\ b.key \in KeyCodes
  BY DEF KeyTypes
<1>2. s.longPressFired \in BOOLEAN
  BY <1>1 DEF Slots
<1>3. /\ new \in Slots /\ new.pressTime = s.pressTime /\ new.taps = 0
      /\ new.longPressFired = (s.longPressFired \/ b.mode = Modes.long)
  <2>1. (s.longPressFired \/ b.mode = Modes.long) \in BOOLEAN
    BY <1>2
  <2>2. QED
    BY <1>1, <2>1 DEF Slots
<1>4. Consumed(b) = [slot EXCEPT ![b.key] = new]
  BY <1>1 DEF Consumed, Slots
<1> HIDE DEF new
<1>5. /\ Consumed(b) \in [KeyCodes -> Slots]
      /\ \A k \in KeyCodes : Consumed(b)[k] = IF k = b.key THEN new ELSE slot[k]
  BY <1>1, <1>3, <1>4
<1>6. QED
  BY <1>1, <1>3, <1>5

\* A binding by its place.
LEMMA BoundAt ==
  ASSUME NEW i \in DOMAIN Bindings
  PROVE  Bindings[i] \in [key : KeyCodes, mods : Nat, mode : 0 .. 3]
<1> DEFINE S == [key : KeyCodes, mods : Nat, mode : 0 .. 3]
<1>1. Bindings \in Seq(S)
  BY KeyAssumption
<1> HIDE DEF S
<1>2. Bindings[i] \in S
  BY <1>1
<1>3. QED
  BY <1>2 DEF S

\* Store, by the fields it stores: all there are, on one thread.
LEMMA StoreStores ==
  ASSUME KeyTypes, Store
  PROVE  \E fs \in SUBSET DOMAIN FreshSlot :
           /\ fs # {} /\ fs \subseteq pump.todo /\ (~racing => fs = pump.todo)
           /\ slot' = [slot EXCEPT ![pump.key] = After(slot[pump.key], pump.to, fs)]
           /\ pump' = [pump EXCEPT !.todo = @ \ fs]
<1>1. pump.todo \in SUBSET DOMAIN FreshSlot /\ racing \in BOOLEAN /\ pump.key \in KeyCodes
      /\ slot \in [KeyCodes -> Slots]
  BY DEF KeyTypes, Pushes
<1>2. PICK fs \in IF racing THEN {{f} : f \in pump.todo} ELSE {pump.todo} \ {{}} :
        /\ slot' = [slot EXCEPT ![pump.key] =
                      [f \in DOMAIN FreshSlot |-> IF f \in fs THEN pump.to[f] ELSE @[f]]]
        /\ pump' = [pump EXCEPT !.todo = @ \ fs]
  BY DEF Store
<1>3. fs \in SUBSET DOMAIN FreshSlot /\ fs # {} /\ fs \subseteq pump.todo /\ (~racing => fs = pump.todo)
  BY <1>1, <1>2
<1>4. slot' = [slot EXCEPT ![pump.key] = After(slot[pump.key], pump.to, fs)]
  BY <1>1, <1>2 DEF After
<1>5. QED
  BY <1>2, <1>3, <1>4

\* A step keeps the types.
LEMMA TypesKept ==
  ASSUME KeyTypes, [KeyNext]_keyVars
  PROVE  KeyTypes'
<1>1. ASSUME NEW two \in BOOLEAN, NEW taps \in BOOLEAN, Configure(two, taps) PROVE KeyTypes'
  BY <1>1 DEF KeyTypes, Configure
<1>2. CASE Tick
  BY <1>2 DEF KeyTypes, Tick
<1>3. ASSUME NEW k \in KeyCodes, PressKey(k) PROVE KeyTypes'
  <2>1. pump' \in Pushes
    BY <1>3, PressBegins
  <2>2. presses' \in [KeyCodes -> Nat] /\ pushes' \in Nat
    BY <1>3 DEF KeyTypes, PressKey, MayPush
  <2>3. QED
    BY <1>3, <2>1, <2>2 DEF KeyTypes, PressKey
<1>4. ASSUME NEW k \in KeyCodes, RepeatKey(k) PROVE KeyTypes'
  <2>1. pump' \in Pushes
    BY <1>4, RepeatBegins
  <2>2. QED
    BY <1>4, <2>1 DEF KeyTypes, RepeatKey, MayPush
<1>5. ASSUME NEW k \in KeyCodes, ReleaseKey(k) PROVE KeyTypes'
  <2>1. pump' \in Pushes
    BY <1>5, ReleaseBegins
  <2>2. QED
    BY <1>5, <2>1 DEF KeyTypes, ReleaseKey, MayPush
<1>6. CASE Store
  <2>1. PICK fs \in SUBSET DOMAIN FreshSlot :
          /\ slot' = [slot EXCEPT ![pump.key] = After(slot[pump.key], pump.to, fs)]
          /\ pump' = [pump EXCEPT !.todo = @ \ fs]
    BY <1>6, StoreStores
  <2>2. pump.key \in KeyCodes /\ slot[pump.key] \in Slots /\ pump.to \in Slots
    BY DEF KeyTypes, Pushes
  <2>3. After(slot[pump.key], pump.to, fs) \in Slots
    BY <2>2, StoredType
  <2>4. slot' \in [KeyCodes -> Slots]
    BY <2>1, <2>2, <2>3 DEF KeyTypes
  <2>5. pump' \in Pushes
    BY <2>1 DEF KeyTypes, Pushes
  <2>6. QED
    BY <1>6, <2>4, <2>5 DEF KeyTypes, Store
<1>7. CASE Offer
  <2>1. pump.event[1] \in KeyEvents
    BY <1>7 DEF Offer, KeyTypes, Pushes
  <2>2. queue' \in Seq(KeyEvents)
    BY <1>7, <2>1 DEF Offer, Offered, KeyTypes
  <2>3. dropped' \in [KeyCodes -> BOOLEAN]
    BY <1>7, <2>1 DEF Offer, KeyTypes, KeyEvents
  <2>4. QED
    BY <1>7, <2>2, <2>3, FreshTypes DEF KeyTypes, Offer
<1>8. CASE DispatchEvent
  <2>1. queue[1] \in KeyEvents /\ queue' \in Seq(KeyEvents)
    BY <1>8 DEF DispatchEvent, KeyTypes
  <2>2. view' \in [KeyCodes -> BOOLEAN]
    BY <1>8, <2>1 DEF DispatchEvent, KeyTypes, KeyEvents
  <2>3. QED
    BY <1>8, <2>1, <2>2 DEF KeyTypes, DispatchEvent
<1>9. CASE Resolve
  <2>1. ModifierMask \in Nat
    BY DEF ModifierMask
  <2>2. resolver' = [pc |-> "scan", i |-> 1, best |-> 0, mods |-> ModifierMask, hold |-> 0]
    BY <1>9 DEF Resolve, NoResolve
  <2>3. resolver' \in Resolves /\ resolver'.pc = "scan"
    BY <2>1, <2>2 DEF Resolves
  <2>4. QED
    BY <1>9, <2>3 DEF KeyTypes, Resolve, ResolveUnchanged
<1>10. CASE Scan
  <2>1. CASE resolver.i > Len(Bindings)
    <3>1. resolver' = [resolver EXCEPT !.pc = "expire", !.i = 1]
      BY <1>10, <2>1 DEF Scan
    <3>2. resolver' \in Resolves /\ resolver'.pc = "expire"
      <4>1. resolver \in Resolves
        BY DEF KeyTypes
      <4>2. resolver' = [pc |-> "expire", i |-> 1, best |-> resolver.best,
                         mods |-> resolver.mods, hold |-> resolver.hold]
        BY <3>1, <4>1 DEF Resolves
      <4>3. QED
        BY <4>1, <4>2 DEF Resolves
    <3>3. QED
      BY <1>10, <3>2 DEF KeyTypes, Scan, ResolveUnchanged
  <2>2. CASE ~(resolver.i > Len(Bindings))
    <3>1. PICK hit \in BOOLEAN :
            resolver' = [resolver EXCEPT !.i = @ + 1, !.best = IF hit THEN resolver.i ELSE @,
                                         !.hold = IF hit THEN presses[Bindings[resolver.i].key] ELSE @]
      <4> DEFINE b == Bindings[resolver.i]
                 h == /\ resolver.best = 0 \/ b.mode > Bindings[resolver.best].mode
                      /\ b.mods = resolver.mods /\ GestureMatches(b)
      <4>1. h \in BOOLEAN
        OBVIOUS
      <4>2. QED
        BY <1>10, <2>2, <4>1 DEF Scan
    <3>2. resolver.i \in DOMAIN Bindings /\ resolver \in Resolves
      BY <2>2, KeyAssumption DEF KeyTypes, Resolves
    <3>3. presses[Bindings[resolver.i].key] \in Nat
      BY <3>2, BindingType DEF KeyTypes
    <3>4. resolver' \in Resolves /\ resolver'.pc = "scan"
      <4>1. resolver.pc = "scan"
        BY <1>10 DEF Scan
      <4> DEFINE n == presses[Bindings[resolver.i].key]
      <4> HIDE DEF n
      <4>2. resolver' = [resolver EXCEPT !.i = @ + 1, !.best = IF hit THEN resolver.i ELSE @,
                                         !.hold = IF hit THEN n ELSE @]
        BY <3>1 DEF n
      <4>3. n \in Nat
        BY <3>3 DEF n
      <4>4. resolver' = [pc |-> "scan", i |-> resolver.i + 1,
                         best |-> IF hit THEN resolver.i ELSE resolver.best, mods |-> resolver.mods,
                         hold |-> IF hit THEN n ELSE resolver.hold]
        BY <3>2, <4>1, <4>2 DEF Resolves
      <4>5. /\ resolver.i + 1 \in Nat \ {0} /\ resolver.mods \in Nat /\ resolver.hold \in Nat
            /\ resolver.best \in {0} \cup DOMAIN Bindings
        BY <3>2 DEF Resolves
      <4>6. QED
        BY <3>2, <4>3, <4>4, <4>5 DEF Resolves
    <3>5. QED
      BY <1>10, <3>4 DEF KeyTypes, Scan, ResolveUnchanged
  <2>3. QED
    BY <2>1, <2>2
<1>11. CASE ExpireTest
  <2>1. /\ resolver' \in Resolves
        /\ resolver'.pc = "decline" => resolver'.i \in DOMAIN Bindings
        /\ resolver'.pc = "take" => resolver'.best # 0
    <3>1. resolver \in Resolves /\ resolver.pc = "expire"
      BY <1>11 DEF KeyTypes, ExpireTest
    <3>2. CASE resolver.i > Len(Bindings)
      <4>1. resolver' = [resolver EXCEPT !.pc = IF resolver.best = 0 THEN "idle" ELSE "take"]
        BY <1>11, <3>2 DEF ExpireTest
      <4>2. QED
        BY <3>1, <4>1 DEF Resolves
    <3>3. CASE ~(resolver.i > Len(Bindings))
      <4>1. resolver' = [resolver EXCEPT !.pc = "decline"] \/ resolver' = [resolver EXCEPT !.i = @ + 1]
        BY <1>11, <3>3 DEF ExpireTest
      <4>2. resolver.i \in DOMAIN Bindings
        BY <3>1, <3>3, KeyAssumption DEF Resolves
      <4>3. QED
        BY <3>1, <4>1, <4>2 DEF Resolves
    <3>4. QED
      BY <3>2, <3>3
  <2>2. QED
    BY <1>11, <2>1 DEF KeyTypes, ExpireTest, ResolveUnchanged
<1>12. CASE Decline
  <2>1. Bindings[resolver.i] \in [key : KeyCodes, mods : Nat, mode : 0 .. 3]
    BY <1>12, BoundAt DEF KeyTypes, Decline
  <2>2. slot' \in [KeyCodes -> Slots]
    BY <1>12, <2>1, ConsumedType DEF Decline
  <2>3. resolver' \in Resolves /\ resolver'.pc = "expire"
    <3>1. resolver \in Resolves
      BY DEF KeyTypes
    <3>2. resolver' = [resolver EXCEPT !.pc = "expire", !.i = @ + 1]
      BY <1>12 DEF Decline
    <3>3. resolver' = [pc |-> "expire", i |-> resolver.i + 1, best |-> resolver.best,
                       mods |-> resolver.mods, hold |-> resolver.hold]
      BY <3>1, <3>2 DEF Resolves
    <3>4. QED
      BY <3>1, <3>3 DEF Resolves
  <2>4. QED
    BY <1>12, <2>2, <2>3 DEF KeyTypes, Decline, ResolveUnchanged
<1>13. CASE Fire
  <2> DEFINE b == Bindings[resolver.best]
  <2>1. b \in [key : KeyCodes, mods : Nat, mode : 0 .. 3] /\ resolver.hold \in Nat
    <3>1. resolver.best \in DOMAIN Bindings /\ resolver.hold \in Nat
      BY <1>13 DEF KeyTypes, Fire, Resolves
    <3>2. QED
      BY <3>1, BoundAt
  <2>2. slot' \in [KeyCodes -> Slots]
    BY <1>13, <2>1, ConsumedType DEF Fire
  <2> HIDE DEF b
  <2>3. fires' \in [KeyCodes -> Nat]
    <3>1. fires' = [fires EXCEPT ![b.key] = @ + 1] /\ fires \in [KeyCodes -> Nat]
      BY <1>13 DEF KeyTypes, Fire, b
    <3>2. QED
      BY <2>1, <3>1
  <2>4. longs' \in [KeyCodes -> Seq(Nat)]
    <3>1. longs' = longs \/ longs' = [longs EXCEPT ![b.key] = Append(@, resolver.hold)]
      BY <1>13 DEF Fire, b
    <3>2. QED
      <4>1. longs \in [KeyCodes -> Seq(Nat)] /\ b.key \in KeyCodes
        BY <2>1 DEF KeyTypes
      <4>2. Append(longs[b.key], resolver.hold) \in Seq(Nat)
        BY <2>1, <4>1
      <4>3. QED
        BY <3>1, <4>1, <4>2
  <2>5. lastTap' \in [KeyCodes -> Nat]
    <3>1. lastTap' = lastTap \/ lastTap' = [lastTap EXCEPT ![b.key] = resolver.hold]
      BY <1>13 DEF Fire, b
    <3>2. QED
      BY <2>1, <3>1 DEF KeyTypes
  <2>6. QED
    BY <1>13, <2>2, <2>3, <2>4, <2>5, FreshTypes DEF KeyTypes, Fire, ResolveUnchanged
<1>14. CASE UNCHANGED keyVars
  BY <1>14 DEF KeyTypes, keyVars
<1>15. QED
  BY <1>1, <1>2, <1>3, <1>4, <1>5, <1>6, <1>7, <1>8, <1>9, <1>10, <1>11, <1>12, <1>13, <1>14 DEF KeyNext

-----------------------------------------------------------------------------
(* What the listeners know *)

\* The resolver, a repeat and the clock leave what a listener will know.
LEMMA WillKnowKept ==
  ASSUME HearInv, KeyTypes', UNCHANGED <<queue, view, dropped, pump>>,
         \A k \in KeyCodes : slot'[k].pressTime = slot[k].pressTime
  PROVE  HearInv'
<1>1. \A k \in KeyCodes : /\ IsDown(k)' = IsDown(k) /\ (InPump(k)' <=> InPump(k))
                          /\ \A b : WillKnow(k, b)' <=> WillKnow(k, b)
  BY DEF IsDown, InPump, WillKnow, Says, NotSaid
<1>2. ListenersWillKnow'
  BY <1>1 DEF HearInv, ListenersWillKnow
<1>3. pump.key \in KeyCodes
  BY DEF HearInv, KeyTypes, Pushes
<1>4. PumpOK'
  BY <1>3 DEF HearInv, PumpOK
<1>5. QED
  BY <1>2, <1>4 DEF HearInv

\* A push that begins is of a key that the pump will tell of, or a repeat.
LEMMA WillKnowBegun ==
  ASSUME HearInv, KeyTypes', UNCHANGED <<queue, view, dropped, slot>>, PumpIdle,
         NEW k \in KeyCodes, NEW action \in Actions,
         pump'.key = k, pump'.event = <<Event(k, action)>>,
         action = "repeat" => pump'.todo = {},
         action = "down" => pump'.to.pressTime # 0,
         action = "up" => pump'.to.pressTime = 0,
         action # "repeat" => "pressTime" \in pump'.todo
  PROVE  HearInv'
<1>1. \A x \in KeyCodes : /\ IsDown(x)' = IsDown(x) /\ ~InPump(x)
                          /\ \A b : WillKnow(x, b)' <=> WillKnow(x, b)
  BY DEF IsDown, InPump, WillKnow, Says, NotSaid, PumpIdle
<1>2. ListenersWillKnow'
  BY <1>1 DEF HearInv, ListenersWillKnow
<1>3. pump'.event # <<>> /\ pump'.event[1] = Event(k, action) /\ Event(k, action).key = k
      /\ Event(k, action).action = action
  BY DEF Event
<1>4. PumpOK'
  BY <1>3 DEF PumpOK
<1>5. QED
  BY <1>2, <1>4 DEF HearInv

\* The stores of a push: its key is one the pump has yet to tell of.
LEMMA WillKnowStored ==
  ASSUME HearInv, KeyTypes', Store
  PROVE  HearInv'
<1>1. PICK fs \in SUBSET DOMAIN FreshSlot :
        /\ fs # {} /\ fs \subseteq pump.todo
        /\ slot' = [slot EXCEPT ![pump.key] = After(slot[pump.key], pump.to, fs)]
        /\ pump' = [pump EXCEPT !.todo = @ \ fs]
  BY StoreStores DEF HearInv
<1>2. /\ pump.key \in KeyCodes /\ slot \in [KeyCodes -> Slots] /\ pump \in Pushes
      /\ slot[pump.key] \in Slots /\ pump.to \in Slots
  BY DEF HearInv, KeyTypes, Pushes
<1>3. /\ pump'.key = pump.key /\ pump'.event = pump.event /\ pump'.to = pump.to
      /\ pump'.todo = pump.todo \ fs
  BY <1>1, <1>2 DEF Pushes
<1>4. pump.event # <<>> /\ pump.event[1].action # "repeat" /\ pump.event[1].key = pump.key
  BY <1>1 DEF HearInv, PumpOK
<1>5. After(slot[pump.key], pump.to, fs).pressTime =
        IF "pressTime" \in fs THEN pump.to.pressTime ELSE slot[pump.key].pressTime
  <2> DEFINE s == slot[pump.key]
             to == pump.to
  <2>1. s \in Slots /\ to \in Slots
    BY <1>2
  <2> HIDE DEF s, to
  <2>2. After(s, to, fs).pressTime = IF "pressTime" \in fs THEN to.pressTime ELSE s.pressTime
    BY <2>1, StoredType
  <2>3. QED
    BY <2>2 DEF s, to
<1>6. /\ \A k \in KeyCodes : k # pump.key => slot'[k] = slot[k]
      /\ slot'[pump.key] = After(slot[pump.key], pump.to, fs)
  BY <1>1, <1>2
<1>7. UNCHANGED <<queue, view, dropped>>
  BY DEF Store
<1>8. ListenersWillKnow'
  <2>1. ASSUME NEW k \in KeyCodes PROVE dropped'[k] \/ InPump(k)' \/ WillKnow(k, IsDown(k))'
    <3>1. CASE k = pump.key
      BY <1>3, <1>4, <3>1 DEF InPump
    <3>2. CASE k # pump.key
      <4>1. IsDown(k)' = IsDown(k) /\ ~InPump(k) /\ \A b : WillKnow(k, b)' <=> WillKnow(k, b)
        BY <1>6, <1>7, <3>2 DEF IsDown, InPump, WillKnow, Says, NotSaid
      <4>2. QED
        BY <1>7, <4>1 DEF HearInv, ListenersWillKnow
    <3>3. QED
      BY <3>1, <3>2
  <2>2. QED
    BY <2>1 DEF ListenersWillKnow
<1>9. PumpOK'
  BY <1>3, <1>4, <1>5, <1>6 DEF HearInv, PumpOK
<1>10. QED
  BY <1>8, <1>9 DEF HearInv

\* The event is offered: the ring takes it, or refuses it and the key is dropped.
LEMMA WillKnowOffered ==
  ASSUME HearInv, KeyTypes', Offer
  PROVE  HearInv'
<1> DEFINE e == pump.event[1]
<1>1. /\ pump.todo = {} /\ pump.event # <<>> /\ pump' = NoPush /\ slot' = slot /\ view' = view
      /\ queue' = Offered(queue, e)
      /\ dropped' = [dropped EXCEPT ![e.key] = IF Len(queue) = QueueCapacity THEN TRUE
                                               ELSE @ /\ e.action = "repeat"]
  BY DEF Offer
<1>2. /\ e \in KeyEvents /\ e.key \in KeyCodes /\ e.action \in Actions /\ e = Event(e.key, e.action)
      /\ queue \in Seq(KeyEvents) /\ dropped \in [KeyCodes -> BOOLEAN] /\ slot \in [KeyCodes -> Slots]
  <2>1. e \in KeyEvents
    BY <1>1 DEF HearInv, KeyTypes, Pushes
  <2>2. e.key \in KeyCodes /\ e.action \in Actions /\ e = Event(e.key, e.action)
    <3> HIDE DEF e
    <3>1. QED
      BY <2>1 DEF KeyEvents, Event
  <2>3. QED
    BY <2>1, <2>2 DEF HearInv, KeyTypes
<1>3. /\ e.key = pump.key
      /\ e.action = "down" => IsDown(e.key)
      /\ e.action = "up" => ~IsDown(e.key)
  BY <1>1 DEF HearInv, PumpOK, IsDown
<1>4. /\ \A k \in KeyCodes : (InPump(k) <=> k = e.key /\ e.action # "repeat")
      /\ \A k \in KeyCodes : IsDown(k)' = IsDown(k) /\ IsDown(k) \in BOOLEAN
  BY <1>1, <1>3 DEF InPump, IsDown
<1> HIDE DEF e
<1>5. ASSUME NEW k \in KeyCodes, ~dropped'[k] PROVE WillKnow(k, IsDown(k))'
  <2>1. CASE Len(queue) = QueueCapacity
    <3>1. k # e.key /\ queue' = queue /\ ~dropped[k]
      BY <1>1, <1>2, <1>5, <2>1 DEF Offered
    <3>2. WillKnow(k, IsDown(k))
      BY <1>4, <3>1 DEF HearInv, ListenersWillKnow
    <3>3. QED
      BY <1>1, <1>4, <3>1, <3>2 DEF WillKnow, Says, NotSaid
  <2>2. CASE Len(queue) # QueueCapacity
    <3>1. queue' = Append(queue, e)
      BY <1>1, <2>2 DEF Offered
    <3>2. CASE e.key # k \/ e.action = "repeat"
      <4>1. ~dropped[k] /\ ~InPump(k)
        BY <1>1, <1>2, <1>4, <1>5, <2>2, <3>2
      <4>2. WillKnow(k, IsDown(k))
        BY <4>1 DEF HearInv, ListenersWillKnow
      <4>3. /\ Says(k, queue, IsDown(k)) => Says(k, queue', IsDown(k))
            /\ NotSaid(k, queue, 0) => NotSaid(k, queue', 0)
        BY <1>2, <1>4, <3>1, <3>2, SaidAppended
      <4>4. QED
        BY <1>1, <1>4, <4>2, <4>3 DEF WillKnow
    <3>3. CASE e.key = k /\ e.action # "repeat"
      <4>1. e = Event(k, IF IsDown(k) THEN "down" ELSE "up")
        BY <1>2, <1>3, <3>3 DEF Actions
      <4>2. Says(k, queue', IsDown(k))
        BY <1>2, <1>4, <3>1, <4>1, SaidAppended
      <4>3. QED
        BY <1>4, <4>2 DEF WillKnow
    <3>4. QED
      BY <3>2, <3>3
  <2>3. QED
    BY <2>1, <2>2
<1>6. ListenersWillKnow'
  BY <1>5 DEF ListenersWillKnow
<1>7. PumpOK'
  BY <1>1, FreshTypes DEF PumpOK
<1>8. QED
  BY <1>6, <1>7 DEF HearInv

\* A listener hears the oldest event.
LEMMA WillKnowHeard ==
  ASSUME HearInv, KeyTypes', DispatchEvent
  PROVE  HearInv'
<1>1. /\ queue # <<>> /\ queue' = Tail(queue)
      /\ view' = [view EXCEPT ![queue[1].key] = CASE queue[1].action = "down" -> TRUE
                                                  [] queue[1].action = "up" -> FALSE
                                                  [] OTHER -> @]
      /\ UNCHANGED <<slot, pump, dropped>>
  BY DEF DispatchEvent
<1>2. queue \in Seq(KeyEvents) /\ queue[1] \in KeyEvents /\ view \in [KeyCodes -> BOOLEAN]
  BY <1>1 DEF HearInv, KeyTypes
<1>3. ASSUME NEW k \in KeyCodes, NEW b \in BOOLEAN, WillKnow(k, b)
      PROVE  Says(k, queue', b) \/ (NotSaid(k, queue', 0) /\ view'[k] = b)
  <2>1. CASE Says(k, queue', b)
    BY <2>1
  <2>2. CASE Says(k, queue, b) /\ ~Says(k, queue', b)
    <3>1. queue[1] = Event(k, IF b THEN "down" ELSE "up") /\ NotSaid(k, queue', 0)
      BY <1>1, <1>2, <2>2, SaidHeard
    <3>2. queue[1].key = k /\ queue[1].action = IF b THEN "down" ELSE "up"
      BY <3>1 DEF Event
    <3>3. view'[k] = b
      BY <1>1, <1>2, <3>2
    <3>4. QED
      BY <3>1, <3>3
  <2>3. CASE NotSaid(k, queue, 0) /\ view[k] = b
    <3>1. NotSaid(k, queue', 0) /\ (queue[1].key = k => queue[1].action = "repeat")
      BY <1>1, <1>2, <2>3, SaidHeard
    <3>2. view'[k] = b
      BY <1>1, <1>2, <2>3, <3>1
    <3>3. QED
      BY <3>1, <3>2
  <2>4. QED
    BY <1>3, <2>1, <2>2, <2>3 DEF WillKnow
<1>4. \A k \in KeyCodes : IsDown(k)' = IsDown(k) /\ (InPump(k)' <=> InPump(k)) /\ IsDown(k) \in BOOLEAN
  BY <1>1 DEF IsDown, InPump
<1>5. ListenersWillKnow'
  BY <1>1, <1>3, <1>4 DEF HearInv, ListenersWillKnow, WillKnow
<1>6. PumpOK'
  BY <1>1 DEF HearInv, PumpOK
<1>7. QED
  BY <1>5, <1>6 DEF HearInv

\* What the listeners will know is inductive.
LEMMA HearKept ==
  HearInv /\ [KeyNext]_keyVars => HearInv'
<1> SUFFICES ASSUME HearInv, [KeyNext]_keyVars PROVE HearInv'
  OBVIOUS
<1>1. KeyTypes /\ KeyTypes'
  BY TypesKept DEF HearInv
<1>2. ASSUME NEW two \in BOOLEAN, NEW taps \in BOOLEAN, Configure(two, taps) PROVE HearInv'
  BY <1>1, <1>2, WillKnowKept DEF Configure
<1>3. CASE Tick
  BY <1>1, <1>3, WillKnowKept DEF Tick
<1>4. ASSUME NEW k \in KeyCodes, PressKey(k) PROVE HearInv'
  <2>1. UNCHANGED <<queue, view, dropped, slot>> /\ PumpIdle
    BY <1>4 DEF PressKey, MayPush
  <2>2. /\ pump'.key = k /\ pump'.event = <<Event(k, "down")>> /\ "pressTime" \in pump'.todo
        /\ pump'.to.pressTime # 0 /\ "down" \in Actions
    BY <1>1, <1>4, PressBegins DEF KeyTypes, Actions
  <2>3. QED
    BY <1>1, <2>1, <2>2, WillKnowBegun
<1>5. ASSUME NEW k \in KeyCodes, RepeatKey(k) PROVE HearInv'
  <2>1. UNCHANGED <<queue, view, dropped, slot>> /\ PumpIdle
    BY <1>5 DEF RepeatKey, MayPush
  <2>2. pump'.key = k /\ pump'.event = <<Event(k, "repeat")>> /\ pump'.todo = {} /\ "repeat" \in Actions
    BY <1>1, <1>5, RepeatBegins DEF Actions
  <2>3. QED
    BY <1>1, <2>1, <2>2, WillKnowBegun
<1>6. ASSUME NEW k \in KeyCodes, ReleaseKey(k) PROVE HearInv'
  <2>1. UNCHANGED <<queue, view, dropped, slot>> /\ PumpIdle
    BY <1>6 DEF ReleaseKey, MayPush
  <2>2. /\ pump'.key = k /\ pump'.event = <<Event(k, "up")>> /\ "pressTime" \in pump'.todo
        /\ pump'.to.pressTime = 0 /\ "up" \in Actions
    BY <1>1, <1>6, ReleaseBegins DEF Actions
  <2>3. QED
    BY <1>1, <2>1, <2>2, WillKnowBegun
<1>7. CASE Store
  BY <1>1, <1>7, WillKnowStored
<1>8. CASE Offer
  BY <1>1, <1>8, WillKnowOffered
<1>9. CASE DispatchEvent
  BY <1>1, <1>9, WillKnowHeard
<1>10. CASE Resolve \/ Scan \/ ExpireTest
  BY <1>1, <1>10, WillKnowKept DEF Resolve, Scan, ExpireTest, ResolveUnchanged
<1>11. CASE Decline
  <2>1. \A k \in KeyCodes : slot'[k].pressTime = slot[k].pressTime
    BY <1>1, <1>11, BoundAt, ConsumedType DEF Decline, KeyTypes
  <2>2. QED
    BY <1>1, <1>11, <2>1, WillKnowKept DEF Decline, ResolveUnchanged
<1>12. CASE Fire
  <2>1. resolver.best \in DOMAIN Bindings
    BY <1>1, <1>12 DEF Fire, KeyTypes, Resolves
  <2>2. \A k \in KeyCodes : slot'[k].pressTime = slot[k].pressTime
    BY <1>1, <1>12, <2>1, BoundAt, ConsumedType DEF Fire
  <2>3. QED
    BY <1>1, <1>12, <2>2, WillKnowKept DEF Fire, ResolveUnchanged
<1>13. CASE UNCHANGED keyVars
  BY <1>1, <1>13, WillKnowKept DEF keyVars
<1>14. QED
  BY <1>2, <1>3, <1>4, <1>5, <1>6, <1>7, <1>8, <1>9, <1>10, <1>11, <1>12, <1>13 DEF KeyNext

\* It holds in the beginning, and means what is claimed.
LEMMA HearBegins ==
  KeyInit => HearInv
<1> SUFFICES ASSUME KeyInit PROVE HearInv
  OBVIOUS
<1>1. KeyTypes
  <2>1. /\ slot \in [KeyCodes -> Slots] /\ pump \in Pushes /\ resolver \in Resolves
        /\ resolver.pc = "idle" /\ resolver.best = 0
    BY FreshTypes DEF KeyInit
  <2>2. /\ queue \in Seq(KeyEvents) /\ view \in [KeyCodes -> BOOLEAN] /\ dropped \in [KeyCodes -> BOOLEAN]
        /\ longs \in [KeyCodes -> Seq(Nat)]
    BY DEF KeyInit
  <2>3. racing \in BOOLEAN /\ multiTap \in BOOLEAN
    BY DEF KeyInit
  <2>4. clock \in Nat \ {0} /\ pushes \in Nat
    BY DEF KeyInit
  <2>5. /\ presses \in [KeyCodes -> Nat] /\ fires \in [KeyCodes -> Nat] /\ lastTap \in [KeyCodes -> Nat]
    BY DEF KeyInit
  <2>6. QED
    BY <2>1, <2>2, <2>3, <2>4, <2>5 DEF KeyTypes
<1>2. PumpOK
  BY FreshTypes DEF KeyInit, PumpOK
<1>3. ListenersWillKnow
  <2>1. ASSUME NEW k \in KeyCodes PROVE WillKnow(k, IsDown(k))
    <3>1. slot[k].pressTime = 0 /\ view[k] = FALSE /\ queue = <<>>
      BY DEF KeyInit, FreshSlot
    <3>2. IsDown(k) = FALSE
      BY <3>1 DEF IsDown
    <3>3. NotSaid(k, queue, 0)
      BY <3>1 DEF NotSaid
    <3>4. QED
      BY <3>1, <3>2, <3>3 DEF WillKnow
  <2>2. QED
    BY <2>1 DEF ListenersWillKnow
<1>4. QED
  BY <1>1, <1>2, <1>3 DEF HearInv

\* With the pump at rest and the ring empty there is only the view.
LEMMA HeardMeansKnown ==
  HearInv => ListenersKnowTheState
<1> SUFFICES ASSUME HearInv, PumpIdle, queue = <<>>, NEW k \in KeyCodes
             PROVE  view[k] = IsDown(k) \/ dropped[k]
  BY DEF ListenersKnowTheState
<1>1. ~InPump(k)
  BY DEF InPump, PumpIdle
<1>2. ~Says(k, queue, IsDown(k))
  BY DEF Says
<1>3. QED
  BY <1>1, <1>2 DEF HearInv, ListenersWillKnow, WillKnow

-----------------------------------------------------------------------------
(* Gestures on one thread *)

\* A hold that has not fired, and the gestures a slot may still become: its taps
\* are one, and a hold another unless it is the only tap.
HeldIn(s) == s.pressTime # 0 /\ ~s.longPressFired
HeldOnce(s) == IF HeldIn(s) THEN 1 ELSE 0
Credit(s) == IF s.taps = 0 THEN HeldOnce(s)
             ELSE IF s.taps = 1 THEN 1 ELSE 1 + HeldOnce(s)

\* A press that is counted and not yet stored.
Begun(k) == pump.todo # {} /\ pump.key = k /\ pump.event[1].action = "down"
BegunOnce(k) == IF Begun(k) THEN 1 ELSE 0

\* The last press of k has not fired as a hold.
LongsBefore(k) == \A i \in DOMAIN longs[k] : longs[k][i] < presses[k]

\* What has fired and may still fire are presses; what may still fire as a hold or
\* as a tap has not fired as the other.
Accounted(k) ==
  /\ fires[k] + Credit(slot[k]) + BegunOnce(k) <= presses[k]
  /\ lastTap[k] <= presses[k]
  /\ \A i \in DOMAIN longs[k] : longs[k][i] <= presses[k] /\ (lastTap[k] # 0 => longs[k][i] # lastTap[k])
  /\ \A i, j \in DOMAIN longs[k] : i # j => longs[k][i] # longs[k][j]
  /\ Begun(k) \/ HeldIn(slot[k]) => LongsBefore(k) /\ lastTap[k] < presses[k]
  /\ slot[k].taps # 0 => LongsBefore(k)

\* The gesture that a resolve has found is paid for, whatever it declines after.
Reserved ==
  resolver.best # 0 =>
    LET b == Bindings[resolver.best] IN
    /\ fires[b.key] + 1 + (IF b.mode = Modes.long THEN 0 ELSE HeldOnce(slot[b.key])) <= presses[b.key]
    /\ resolver.hold = presses[b.key]
    /\ b.mode \in {Modes.tap, Modes.long} => LongsBefore(b.key)
    /\ b.mode = Modes.long => lastTap[b.key] < presses[b.key]
    /\ b.mode = Modes.tap => ~HeldIn(slot[b.key])

\* A push is whole: its stores are all to come, or none.
PushWhole ==
  pump.todo # {} =>
    /\ "pressTime" \in pump.todo
    /\ pump.event[1].action = "up" => "taps" \notin pump.todo
    /\ pump.event[1].action = "down" =>
         /\ "taps" \in pump.todo /\ slot[pump.key].pressTime = 0
         /\ pump.to.taps \in {1, slot[pump.key].taps + 1}

Gestures ==
  /\ PushWhole
  /\ resolver.pc # "idle" => PumpIdle
  /\ resolver.pc = "idle" => resolver.best = 0
  /\ Reserved
  /\ \A k \in KeyCodes : Accounted(k)

\* Before the first event everything is as it was.
Untouched ==
  /\ PumpIdle /\ resolver.pc = "idle" /\ resolver.best = 0
  /\ \A k \in KeyCodes : /\ slot[k] = FreshSlot /\ presses[k] = 0 /\ fires[k] = 0
                         /\ longs[k] = <<>> /\ lastTap[k] = 0

KeyInv == HearInv /\ (pushes = 0 => Untouched) /\ (~racing => Gestures)

\* The counts are numbers.
LEMMA CountTypes ==
  ASSUME KeyTypes, NEW k \in KeyCodes
  PROVE  /\ slot[k] \in Slots /\ slot[k].taps \in Nat /\ slot[k].pressTime \in Nat
         /\ presses[k] \in Nat /\ fires[k] \in Nat /\ lastTap[k] \in Nat /\ longs[k] \in Seq(Nat)
         /\ Credit(slot[k]) \in 0 .. 2 /\ HeldOnce(slot[k]) \in 0 .. 1 /\ BegunOnce(k) \in 0 .. 1
  BY DEF KeyTypes, Slots, Credit, HeldOnce, BegunOnce

\* What a gesture that is there costs.
LEMMA MatchIsPaid ==
  ASSUME KeyTypes, NEW b \in [key : KeyCodes, mods : Nat, mode : 0 .. 3], GestureMatches(b)
  PROVE  LET s == slot[b.key] IN
         /\ b.mode = Modes.long => HeldIn(s) /\ Credit(s) >= 1
         /\ b.mode # Modes.long => s.taps # 0 /\ Credit(s) >= 1 + HeldOnce(s)
         /\ b.mode = Modes.tap => ~HeldIn(s)
<1> DEFINE s == slot[b.key]
<1>1. /\ s \in Slots /\ s.taps \in Nat /\ s.pressTime \in Nat /\ s.longPressFired \in BOOLEAN
      /\ clock \in Nat /\ s.pendingUntil \in Nat /\ multiTap \in BOOLEAN /\ b.mode \in 0 .. 3
  BY DEF KeyTypes, Slots
<1>2. CASE b.mode = Modes.long
  <2>1. HeldIn(s)
    BY <1>2 DEF GestureMatches, HeldIn
  <2>2. QED
    BY <1>1, <1>2, <2>1 DEF Credit, HeldOnce, Modes
<1>3. CASE b.mode # Modes.long /\ ~multiTap
  <2>1. s.taps > 0 /\ s.pressTime = 0
    BY <1>3 DEF GestureMatches
  <2>2. ~HeldIn(s)
    BY <2>1 DEF HeldIn
  <2>3. QED
    BY <1>1, <1>3, <2>1, <2>2 DEF Credit, HeldOnce
<1>4. CASE b.mode # Modes.long /\ multiTap
  <2>1. TapPhase(s) = b.mode + 1 /\ (b.mode = Modes.tap => s.pressTime = 0)
    BY <1>4 DEF GestureMatches
  <2>2. s.taps # 0 /\ (s.taps = 1 => b.mode = 0)
    BY <1>1, <2>1 DEF TapPhase
  <2>3. (s.taps = 1 => ~HeldIn(s)) /\ (b.mode = Modes.tap => ~HeldIn(s))
    BY <2>1, <2>2 DEF HeldIn, Modes
  <2>4. QED
    BY <1>1, <1>4, <2>2, <2>3 DEF Credit, HeldOnce
<1>5. QED
  BY <1>1, <1>2, <1>3, <1>4

\* A fresh slot has no gesture.
LEMMA FreshMatchesNothing ==
  ASSUME KeyTypes, NEW b \in [key : KeyCodes, mods : Nat, mode : 0 .. 3], slot[b.key] = FreshSlot
  PROVE  ~GestureMatches(b)
<1>1. SUFFICES ASSUME GestureMatches(b) PROVE FALSE
  OBVIOUS
<1>2. FreshSlot.taps = 0 /\ ~HeldIn(FreshSlot)
  BY DEF FreshSlot, HeldIn
<1>3. QED
  BY <1>1, <1>2, MatchIsPaid

\* What is untouched is accounted for.
LEMMA UntouchedIsAccounted ==
  ASSUME KeyTypes, Untouched
  PROVE  Gestures
<1>1. FreshSlot.taps = 0 /\ ~HeldIn(FreshSlot) /\ Credit(FreshSlot) = 0
  BY DEF FreshSlot, HeldIn, Credit, HeldOnce
<1>2. ASSUME NEW k \in KeyCodes PROVE Accounted(k)
  <2>1. ~Begun(k) /\ BegunOnce(k) = 0
    BY DEF Untouched, PumpIdle, Begun, BegunOnce
  <2>2. /\ slot[k] = FreshSlot /\ presses[k] = 0 /\ fires[k] = 0 /\ longs[k] = <<>> /\ lastTap[k] = 0
        /\ DOMAIN longs[k] = {}
    BY DEF Untouched
  <2>3. QED
    BY <1>1, <2>1, <2>2 DEF Accounted
<1>3. QED
  BY <1>2 DEF Untouched, Gestures, Reserved, PushWhole, PumpIdle

\* Steps that touch neither a slot nor the counts, nor begin a press.
LEMMA AccountedKept ==
  ASSUME KeyTypes, Gestures, UNCHANGED <<slot, presses, fires, longs, lastTap>>,
         \A k \in KeyCodes : Begun(k)' => Begun(k)
  PROVE  \A k \in KeyCodes : Accounted(k)'
<1>1. ASSUME NEW k \in KeyCodes PROVE Accounted(k)'
  <2>1. LongsBefore(k)' <=> LongsBefore(k)
    BY DEF LongsBefore
  <2>2. BegunOnce(k) = BegunOnce(k)' \/ (BegunOnce(k) = 1 /\ BegunOnce(k)' = 0)
    BY DEF BegunOnce
  <2>3. Accounted(k) /\ KeyTypes
    BY DEF Gestures
  <2>4. fires[k] + Credit(slot[k]) + BegunOnce(k)' <= presses[k]
    BY <2>2, <2>3, CountTypes DEF Accounted
  <2>5. QED
    BY <2>1, <2>3, <2>4 DEF Accounted
<1>2. QED
  BY <1>1

\* A press that begins is one gesture more to come.
LEMMA GesturesPressed ==
  ASSUME KeyTypes, Gestures, ~racing, NEW k \in KeyCodes, PressKey(k)
  PROVE  Gestures'
<1>1. /\ PumpIdle /\ slot[k].pressTime = 0
      /\ presses' = [presses EXCEPT ![k] = @ + 1]
      /\ UNCHANGED <<slot, resolver, fires, longs, lastTap>>
  BY DEF PressKey, MayPush, IsDown
<1>2. /\ pump'.key = k /\ pump'.event = <<Event(k, "down")>>
      /\ pump'.todo = {"taps", "lastTapMods", "pendingUntil", "pressTime"}
      /\ pump'.to.taps \in {1, slot[k].taps + 1}
  BY PressBegins
<1>3. pump'.event[1].action = "down"
  BY <1>2 DEF Event
<1>4. PushWhole'
  BY <1>1, <1>2, <1>3 DEF PushWhole
<1>5. \A x \in KeyCodes : ~Begun(x) /\ BegunOnce(x) = 0
  BY <1>1 DEF PumpIdle, Begun, BegunOnce
<1>6. Begun(k)' /\ BegunOnce(k)' = 1 /\ \A x \in KeyCodes \ {k} : ~Begun(x)' /\ BegunOnce(x)' = 0
  BY <1>2, <1>3 DEF Begun, BegunOnce
<1>7. presses'[k] = presses[k] + 1 /\ \A x \in KeyCodes \ {k} : presses'[x] = presses[x]
  BY <1>1 DEF KeyTypes
<1>8. ASSUME NEW x \in KeyCodes PROVE Accounted(x)'
  <2>1. Accounted(x)
    BY DEF Gestures
  <2>2. CASE x # k
    <3>1. LongsBefore(x)' <=> LongsBefore(x)
      BY <1>1, <1>7, <2>2 DEF LongsBefore
    <3>2. QED
      BY <1>1, <1>5, <1>6, <1>7, <2>1, <2>2, <3>1 DEF Accounted
  <2>3. CASE x = k
    <3>1. presses[k] \in Nat /\ lastTap[k] \in Nat /\ fires[k] \in Nat /\ Credit(slot[k]) \in 0 .. 2
          /\ longs[k] \in Seq(Nat)
      BY CountTypes
    <3>2. \A i \in DOMAIN longs[k] : longs[k][i] \in Nat
      BY <3>1
    <3>3. LongsBefore(k)'
      BY <1>1, <1>7, <2>1, <2>3, <3>1, <3>2 DEF LongsBefore, Accounted
    <3>4. fires[k] + Credit(slot[k]) + 1 <= presses[k] + 1
      BY <1>5, <2>1, <2>3, <3>1 DEF Accounted
    <3>5. lastTap[k] < presses[k] + 1 /\ \A i \in DOMAIN longs[k] : longs[k][i] <= presses[k] + 1
      BY <2>1, <2>3, <3>1, <3>2 DEF Accounted
    <3>6. QED
      BY <1>1, <1>6, <1>7, <2>1, <2>3, <3>1, <3>3, <3>4, <3>5 DEF Accounted
  <2>4. QED
    BY <2>2, <2>3
<1>9. resolver.pc = "idle" /\ resolver.best = 0
  <2>1. resolver.pc = "idle" \/ racing
    BY DEF PressKey, MayPush
  <2>2. QED
    BY <2>1 DEF Gestures
<1>10. QED
  BY <1>1, <1>4, <1>8, <1>9 DEF Gestures, Reserved

\* A repeat or a release that begins.
LEMMA GesturesPushed ==
  ASSUME KeyTypes, Gestures, ~racing, NEW k \in KeyCodes, RepeatKey(k) \/ ReleaseKey(k)
  PROVE  Gestures'
<1>1. PumpIdle /\ resolver.pc = "idle" /\ UNCHANGED <<slot, resolver, presses, fires, longs, lastTap>>
  BY DEF RepeatKey, ReleaseKey, MayPush
<1>2. /\ pump'.event[1].action # "down"
      /\ pump'.todo # {} => /\ pump'.todo = {"lastRelease", "pressTime", "longPressFired"}
                            /\ pump'.event[1].action = "up"
  <2>1. CASE RepeatKey(k)
    <3>1. pump'.event = <<Event(k, "repeat")>> /\ pump'.todo = {}
      BY <2>1, RepeatBegins
    <3>2. QED
      BY <3>1 DEF Event
  <2>2. CASE ReleaseKey(k)
    <3>1. pump'.event = <<Event(k, "up")>> /\ pump'.todo = {"lastRelease", "pressTime", "longPressFired"}
      BY <2>2, ReleaseBegins
    <3>2. QED
      BY <3>1 DEF Event
  <2>3. QED
    BY <2>1, <2>2
<1>3. PushWhole'
  BY <1>2 DEF PushWhole
<1>4. \A x \in KeyCodes : Begun(x)' => Begun(x)
  BY <1>2 DEF Begun
<1>5. \A x \in KeyCodes : Accounted(x)'
  BY <1>1, <1>4, AccountedKept
<1>6. QED
  BY <1>1, <1>3, <1>5 DEF Gestures, Reserved

\* The stores of a push on one thread: all of them.  A press comes to the slot with
\* the gesture that was counted for it, a release can only take a hold away.
LEMMA GesturesStored ==
  ASSUME HearInv, Gestures, ~racing, Store
  PROVE  Gestures'
<1>1. KeyTypes /\ PumpOK
  BY DEF HearInv
<1>0. PICK k \in KeyCodes : k = pump.key
  BY <1>1 DEF KeyTypes, Pushes
<1> DEFINE old == slot[k]
           new == slot'[k]
<1>2. /\ k \in KeyCodes /\ slot \in [KeyCodes -> Slots] /\ pump \in Pushes
      /\ old \in Slots /\ pump.to \in Slots /\ pump.todo \in SUBSET DOMAIN FreshSlot
  BY <1>0, <1>1 DEF KeyTypes, Pushes
<1>3. /\ pump.todo # {}
      /\ slot' = [slot EXCEPT ![k] = After(old, pump.to, pump.todo)]
      /\ pump' = [pump EXCEPT !.todo = @ \ pump.todo]
  BY <1>0, <1>1, StoreStores
<1>4. /\ new = After(old, pump.to, pump.todo) /\ \A x \in KeyCodes \ {k} : slot'[x] = slot[x]
      /\ pump'.todo = {}
  BY <1>2, <1>3 DEF Pushes
<1>5. /\ new.pressTime = pump.to.pressTime
      /\ new.taps = IF "taps" \in pump.todo THEN pump.to.taps ELSE old.taps
      /\ new \in Slots
  <2> DEFINE to == pump.to
             fs == pump.todo
  <2>1. old \in Slots /\ to \in Slots /\ fs \in SUBSET DOMAIN FreshSlot /\ "pressTime" \in fs
    BY <1>2, <1>3 DEF Gestures, PushWhole
  <2>2. new = After(old, to, fs)
    BY <1>4
  <2> HIDE DEF old, to, fs, new
  <2>3. /\ new.pressTime = to.pressTime /\ new.taps = (IF "taps" \in fs THEN to.taps ELSE old.taps)
        /\ new \in Slots
    BY <2>1, <2>2, StoredType
  <2>4. QED
    BY <2>3 DEF to, fs
<1>6. /\ pump.event # <<>> /\ pump.event[1].action \in {"down", "up"}
      /\ UNCHANGED <<resolver, presses, fires, longs, lastTap>>
      /\ resolver.pc = "idle" /\ resolver.best = 0
  <2>1. pump.event # <<>> /\ pump.event[1].action # "repeat"
    BY <1>1, <1>3 DEF PumpOK
  <2>2. pump.event[1] \in KeyEvents
    BY <1>2, <2>1 DEF Pushes
  <2>3. resolver.pc = "idle" /\ resolver.best = 0
    BY <1>3 DEF Gestures, PumpIdle
  <2>4. UNCHANGED <<resolver, presses, fires, longs, lastTap>>
    BY DEF Store
  <2>5. QED
    BY <2>1, <2>2, <2>3, <2>4 DEF KeyEvents, Actions
<1>7. \A x \in KeyCodes : ~Begun(x)' /\ BegunOnce(x)' = 0 /\ (LongsBefore(x)' <=> LongsBefore(x))
  BY <1>4, <1>6 DEF Begun, BegunOnce, LongsBefore
<1>8. Accounted(k) /\ \A x \in KeyCodes : Accounted(x)
  BY <1>2 DEF Gestures
<1>9. /\ presses[k] \in Nat /\ fires[k] \in Nat /\ lastTap[k] \in Nat
      /\ old.taps \in Nat /\ old.pressTime \in Nat
  BY <1>1, <1>2, CountTypes
<1>10. ASSUME pump.event[1].action = "down" PROVE Accounted(k)'
  <2>1. Begun(k) /\ BegunOnce(k) = 1
    BY <1>0, <1>3, <1>10 DEF Begun, BegunOnce
  <2>2. old.pressTime = 0 /\ new.taps \in {1, old.taps + 1}
    BY <1>0, <1>3, <1>5, <1>10 DEF Gestures, PushWhole
  <2> HIDE DEF old, new
  <2>3. Credit(old) = IF old.taps = 0 THEN 0 ELSE 1
    BY <1>9, <2>2 DEF Credit, HeldOnce, HeldIn
  <2>4. Credit(new) \in Nat /\ Credit(new) <= Credit(old) + 1
    BY <1>9, <2>2, <2>3 DEF Credit, HeldOnce
  <2>5. LongsBefore(k) /\ lastTap[k] < presses[k]
    BY <1>8, <2>1 DEF Accounted
  <2>6. fires[k] + Credit(new) <= presses[k]
    <3>1. fires[k] + Credit(old) + 1 <= presses[k] /\ Credit(old) \in Nat
      BY <1>8, <2>1, <2>3 DEF Accounted, old
    <3>2. QED
      BY <1>9, <2>4, <3>1
  <2>7. Accounted(k)'
    BY <1>6, <1>7, <1>8, <1>9, <2>4, <2>5, <2>6 DEF Accounted, new
  <2>8. QED
    BY <2>7
<1>11. ASSUME pump.event[1].action = "up" PROVE Accounted(k)'
  <2>1. new.pressTime = 0 /\ new.taps = old.taps /\ ~Begun(k) /\ BegunOnce(k) = 0
    BY <1>1, <1>3, <1>5, <1>6, <1>11 DEF Gestures, PushWhole, PumpOK, Begun, BegunOnce
  <2> HIDE DEF old, new
  <2>2. /\ ~HeldIn(new) /\ Credit(new) \in Nat /\ Credit(old) \in Nat /\ Credit(new) <= Credit(old)
    BY <1>9, <2>1 DEF Credit, HeldOnce, HeldIn
  <2>3. fires[k] + Credit(new) <= presses[k]
    <3>1. fires[k] + Credit(old) <= presses[k]
      BY <1>8, <1>9, <2>1, <2>2 DEF Accounted, old
    <3>2. QED
      BY <1>9, <2>2, <3>1
  <2>4. old.taps # 0 => LongsBefore(k)
    BY <1>8 DEF Accounted, old
  <2>5. Accounted(k)'
    BY <1>6, <1>7, <1>8, <1>9, <2>1, <2>2, <2>3, <2>4 DEF Accounted, new
  <2>6. QED
    BY <2>5
<1>12. ASSUME NEW x \in KeyCodes, x # k PROVE Accounted(x)'
  <2>1. ~Begun(x) /\ BegunOnce(x) = 0
    BY <1>0, <1>12 DEF Begun, BegunOnce
  <2>2. slot'[x] = slot[x]
    BY <1>4, <1>12
  <2>3. QED
    BY <1>6, <1>7, <1>8, <2>1, <2>2 DEF Accounted
<1>13. \A x \in KeyCodes : Accounted(x)'
  BY <1>6, <1>10, <1>11, <1>12
<1>14. PushWhole'
  BY <1>4 DEF PushWhole
<1>15. QED
  BY <1>6, <1>13, <1>14 DEF Gestures, Reserved

\* The offer of an event, the hearing of one and the clock.
LEMMA GesturesAside ==
  ASSUME KeyTypes, Gestures, ~racing, Offer \/ DispatchEvent \/ Tick \/ UNCHANGED keyVars
  PROVE  Gestures'
<1>1. UNCHANGED <<slot, resolver, presses, fires, longs, lastTap>>
  BY DEF Offer, DispatchEvent, Tick, keyVars
<1>2. \/ pump' = pump
      \/ pump' = NoPush /\ pump.todo = {}
  BY DEF Offer, DispatchEvent, Tick, keyVars
<1>3. \A x \in KeyCodes : Begun(x)' => Begun(x)
  BY <1>2, FreshTypes DEF Begun
<1>4. PushWhole' /\ (PumpIdle => PumpIdle')
  <2>1. CASE pump' = pump
    <3>1. slot' = slot
      BY <1>1
    <3>2. QED
      BY <2>1, <3>1 DEF Gestures, PushWhole, PumpIdle
  <2>2. CASE pump' = NoPush
    BY <2>2, FreshTypes DEF PushWhole, PumpIdle
  <2>3. QED
    BY <1>2, <2>1, <2>2
<1>5. \A x \in KeyCodes : Accounted(x)'
  BY <1>1, <1>3, AccountedKept
<1>6. Reserved'
  <2>1. \A x : LongsBefore(x)' <=> LongsBefore(x)
    BY <1>1 DEF LongsBefore
  <2>2. QED
    BY <1>1, <2>1 DEF Gestures, Reserved
<1>7. QED
  BY <1>1, <1>4, <1>5, <1>6 DEF Gestures

\* What a resolve may find in Accounted, it may fire.
LEMMA GesturesFound ==
  ASSUME KeyTypes, Gestures, NEW i \in DOMAIN Bindings, GestureMatches(Bindings[i]),
         UNCHANGED <<slot, presses, fires, longs, lastTap>>,
         resolver'.best = i, resolver'.hold = presses[Bindings[i].key]
  PROVE  Reserved'
<1> DEFINE b == Bindings[i]
           k == b.key
           s == slot[k]
<1>1. b \in [key : KeyCodes, mods : Nat, mode : 0 .. 3] /\ k \in KeyCodes
  BY BoundAt
<1>2. /\ b.mode = Modes.long => HeldIn(s) /\ Credit(s) >= 1
      /\ b.mode # Modes.long => s.taps # 0 /\ Credit(s) >= 1 + HeldOnce(s)
      /\ b.mode = Modes.tap => ~HeldIn(s)
  BY <1>1, MatchIsPaid
<1>3. /\ fires[k] \in Nat /\ presses[k] \in Nat /\ Credit(s) \in Nat /\ HeldOnce(s) \in Nat
      /\ BegunOnce(k) \in Nat
  BY <1>1, CountTypes
<1>4. Accounted(k)
  BY <1>1 DEF Gestures
<1>5. resolver'.best # 0 /\ Bindings[resolver'.best] = b
  BY KeyAssumption
<1>6. LongsBefore(k)' <=> LongsBefore(k)
  BY DEF LongsBefore
<1>7. b.mode \in {Modes.tap, Modes.long} => LongsBefore(k)
  BY <1>2, <1>4 DEF Accounted
<1>8. b.mode = Modes.long => lastTap[k] < presses[k]
  BY <1>2, <1>4 DEF Accounted
<1>9. fires[k] + 1 + (IF b.mode = Modes.long THEN 0 ELSE HeldOnce(s)) <= presses[k]
  <2>1. fires[k] + Credit(s) + BegunOnce(k) <= presses[k]
    BY <1>4 DEF Accounted
  <2> HIDE DEF b, k, s
  <2>2. QED
    BY <1>2, <1>3, <2>1
<1>10. QED
  BY <1>2, <1>5, <1>6, <1>7, <1>8, <1>9 DEF Reserved

\* The resolver's steps that read: a binding found is paid for.
LEMMA GesturesScanned ==
  ASSUME KeyTypes, Gestures, ~racing, Resolve \/ Scan \/ ExpireTest
  PROVE  Gestures'
<1>1. UNCHANGED <<slot, pump, presses, fires, longs, lastTap>>
  BY DEF Resolve, Scan, ExpireTest, ResolveUnchanged
<1>2. PumpIdle /\ PumpIdle' /\ PushWhole'
  BY <1>1 DEF Resolve, Scan, ExpireTest, Gestures, PumpIdle, PushWhole
<1>3. \A x \in KeyCodes : Accounted(x)'
  <2>1. \A x \in KeyCodes : Begun(x)' => Begun(x)
    BY <1>1 DEF Begun
  <2>2. QED
    BY <1>1, <2>1, AccountedKept
<1>4. resolver \in Resolves /\ \A x : LongsBefore(x)' <=> LongsBefore(x)
  BY <1>1 DEF KeyTypes, LongsBefore
<1>5. CASE Resolve
  <2>1. resolver'.pc = "scan" /\ resolver'.best = 0
    BY <1>5 DEF Resolve, NoResolve
  <2>2. QED
    BY <1>2, <1>3, <2>1 DEF Gestures, Reserved
<1>6. ASSUME resolver'.best = resolver.best, resolver'.hold = resolver.hold PROVE Reserved'
  BY <1>1, <1>4, <1>6 DEF Gestures, Reserved
<1>7. CASE Scan
  <2>1. CASE resolver.i > Len(Bindings)
    <3>1. resolver' = [resolver EXCEPT !.pc = "expire", !.i = 1]
      BY <1>7, <2>1 DEF Scan
    <3>2. resolver'.best = resolver.best /\ resolver'.hold = resolver.hold /\ resolver'.pc = "expire"
      BY <1>4, <3>1 DEF Resolves
    <3>3. QED
      BY <1>2, <1>3, <1>6, <3>2 DEF Gestures
  <2>2. CASE ~(resolver.i > Len(Bindings))
    <3>1. PICK hit \in BOOLEAN :
            /\ hit => GestureMatches(Bindings[resolver.i])
            /\ resolver' = [resolver EXCEPT !.i = @ + 1, !.best = IF hit THEN resolver.i ELSE @,
                                         !.hold = IF hit THEN presses[Bindings[resolver.i].key] ELSE @]
      <4> DEFINE b == Bindings[resolver.i]
                 h == /\ resolver.best = 0 \/ b.mode > Bindings[resolver.best].mode
                      /\ b.mods = resolver.mods /\ GestureMatches(b)
      <4>1. h \in BOOLEAN /\ (h => GestureMatches(b))
        OBVIOUS
      <4>2. QED
        BY <1>7, <2>2, <4>1 DEF Scan
    <3>2. resolver.i \in DOMAIN Bindings /\ resolver.pc = "scan"
      BY <1>4, <1>7, <2>2, KeyAssumption DEF Resolves, Scan
    <3>3. /\ resolver'.pc = "scan"
          /\ resolver'.best = (IF hit THEN resolver.i ELSE resolver.best)
          /\ resolver'.hold = (IF hit THEN presses[Bindings[resolver.i].key] ELSE resolver.hold)
      BY <1>4, <3>1, <3>2 DEF Resolves
    <3>4. Reserved'
      <4>1. CASE hit
        <5>1. GestureMatches(Bindings[resolver.i])
          BY <3>1, <4>1
        <5>2. PICK i \in DOMAIN Bindings : i = resolver.i
          BY <3>2
        <5>3. QED
          BY <1>1, <3>3, <4>1, <5>1, <5>2, GesturesFound
      <4>2. CASE ~hit
        BY <1>6, <3>3, <4>2
      <4>3. QED
        BY <4>1, <4>2
    <3>5. QED
      BY <1>2, <1>3, <3>3, <3>4 DEF Gestures
  <2>3. QED
    BY <2>1, <2>2
<1>8. CASE ExpireTest
  <2>1. /\ resolver'.best = resolver.best /\ resolver'.hold = resolver.hold
        /\ resolver'.pc = "idle" => resolver'.best = 0
    <3>1. \/ resolver.best = 0 /\ resolver' = [resolver EXCEPT !.pc = "idle"]
          \/ resolver.best # 0 /\ resolver' = [resolver EXCEPT !.pc = "take"]
          \/ resolver' = [resolver EXCEPT !.pc = "decline"]
          \/ resolver' = [resolver EXCEPT !.i = @ + 1] /\ resolver.pc = "expire"
      BY <1>8 DEF ExpireTest
    <3>2. QED
      BY <1>4, <3>1 DEF Resolves
  <2>2. QED
    BY <1>2, <1>3, <1>6, <2>1 DEF Gestures
<1>9. QED
  BY <1>5, <1>7, <1>8

\* What is used up can no longer fire.
LEMMA UsedUp ==
  ASSUME KeyTypes, NEW b \in [key : KeyCodes, mods : Nat, mode : 0 .. 3], slot' = Consumed(b)
  PROVE  LET old == slot[b.key]
             new == slot'[b.key] IN
         /\ new.taps = 0
         /\ HeldIn(new) => HeldIn(old) /\ b.mode # Modes.long
         /\ Credit(new) = HeldOnce(new)
         /\ HeldOnce(new) \in 0 .. 1 /\ HeldOnce(new) <= HeldOnce(old) /\ HeldOnce(new) <= Credit(old)
         /\ b.mode = Modes.long => HeldOnce(new) = 0
<1> DEFINE old == slot[b.key]
           new == slot'[b.key]
<1>1. /\ new.taps = 0 /\ new.pressTime = old.pressTime
      /\ new.longPressFired = (old.longPressFired \/ b.mode = Modes.long)
  BY ConsumedType
<1>2. b.key \in KeyCodes /\ old.taps \in Nat
  BY CountTypes
<1> HIDE DEF old, new
<1>3. HeldIn(new) => HeldIn(old) /\ b.mode # Modes.long
  BY <1>1 DEF HeldIn
<1>4. QED
  BY <1>1, <1>2, <1>3 DEF Credit, HeldOnce, old, new

\* A declined gesture is used up, and what was found before stays paid for.
LEMMA GesturesDeclined ==
  ASSUME KeyTypes, Gestures, Decline
  PROVE  Gestures'
<1>1. /\ resolver.pc = "decline" /\ UNCHANGED <<pump, presses, fires, longs, lastTap>>
      /\ resolver.i \in DOMAIN Bindings /\ slot' = Consumed(Bindings[resolver.i])
  BY DEF Decline, ResolveUnchanged, KeyTypes
<1>2. PICK b \in [key : KeyCodes, mods : Nat, mode : 0 .. 3] : slot' = Consumed(b)
  BY <1>1, BoundAt
<1> DEFINE k == b.key
           old == slot[k]
           new == slot'[k]
<1>3. /\ new.taps = 0 /\ (HeldIn(new) => HeldIn(old)) /\ Credit(new) = HeldOnce(new)
      /\ HeldOnce(new) \in 0 .. 1 /\ HeldOnce(new) <= HeldOnce(old) /\ HeldOnce(new) <= Credit(old)
  BY <1>2, UsedUp
<1>4. k \in KeyCodes /\ \A x \in KeyCodes \ {k} : slot'[x] = slot[x]
  BY <1>2, ConsumedType
<1>5. resolver'.best = resolver.best /\ resolver'.hold = resolver.hold /\ resolver'.pc = "expire"
  <2>1. resolver \in Resolves /\ resolver' = [resolver EXCEPT !.pc = "expire", !.i = @ + 1]
    BY DEF Decline, KeyTypes
  <2>2. QED
    BY <2>1 DEF Resolves
<1>6. PumpIdle /\ PumpIdle' /\ PushWhole'
  BY <1>1 DEF Gestures, PumpIdle, PushWhole
<1>7. \A x \in KeyCodes : /\ ~Begun(x) /\ ~Begun(x)' /\ BegunOnce(x) = 0 /\ BegunOnce(x)' = 0
                          /\ (LongsBefore(x)' <=> LongsBefore(x)) /\ Accounted(x)
  BY <1>1, <1>6 DEF Begun, BegunOnce, PumpIdle, LongsBefore, Gestures
<1>8. ASSUME NEW x \in KeyCodes PROVE Accounted(x)'
  <2>1. CASE x # k
    BY <1>1, <1>4, <1>7, <2>1 DEF Accounted
  <2>2. CASE x = k
    <3>1. fires[k] \in Nat /\ presses[k] \in Nat /\ Credit(old) \in Nat
      BY <1>4, CountTypes
    <3>2. fires[k] + Credit(old) + 0 <= presses[k]
      BY <1>4, <1>7 DEF Accounted
    <3>3. fires[k] + Credit(new) + 0 <= presses[k]
      <4> HIDE DEF k, old, new
      <4>1. QED
        BY <1>3, <3>1, <3>2
    <3>4. HeldIn(new) => LongsBefore(k) /\ lastTap[k] < presses[k]
      BY <1>3, <1>4, <1>7 DEF Accounted
    <3>5. QED
      BY <1>1, <1>3, <1>4, <1>7, <2>2, <3>3, <3>4 DEF Accounted
  <2>3. QED
    BY <2>1, <2>2
<1>9. Reserved'
  <2>1. SUFFICES ASSUME resolver.best # 0 PROVE Reserved'
    BY <1>5 DEF Reserved
  <2>2. PICK j \in DOMAIN Bindings : j = resolver.best
    BY <2>1 DEF KeyTypes, Resolves
  <2> DEFINE c == Bindings[j]
             n == IF c.mode = Modes.long THEN 0 ELSE HeldOnce(slot[c.key])
             m == IF c.mode = Modes.long THEN 0 ELSE HeldOnce(slot'[c.key])
  <2>3. c.key \in KeyCodes
    BY BoundAt
  <2>4. HeldOnce(slot'[c.key]) \in 0 .. 1 /\ HeldOnce(slot[c.key]) \in 0 .. 1
        /\ HeldOnce(slot'[c.key]) <= HeldOnce(slot[c.key])
    <3>1. CASE c.key = k
      BY <1>3, <1>4, <3>1, CountTypes
    <3>2. CASE c.key # k
      BY <1>4, <2>3, <3>2, CountTypes
    <3>3. QED
      BY <3>1, <3>2
  <2>5. fires[c.key] + 1 + n <= presses[c.key] /\ n \in Nat /\ m \in Nat /\ m <= n
        /\ fires[c.key] \in Nat /\ presses[c.key] \in Nat
    BY <2>1, <2>2, <2>3, <2>4, CountTypes DEF Gestures, Reserved
  <2>6. fires[c.key] + 1 + m <= presses[c.key]
    <3> HIDE DEF c, n, m
    <3>1. QED
      BY <2>5
  <2>7. /\ resolver.hold = presses[c.key]
        /\ c.mode \in {Modes.tap, Modes.long} => LongsBefore(c.key)
        /\ c.mode = Modes.long => lastTap[c.key] < presses[c.key]
        /\ c.mode = Modes.tap => ~HeldIn(slot[c.key])
    BY <2>1, <2>2 DEF Gestures, Reserved
  <2>8. c.mode = Modes.tap => ~HeldIn(slot'[c.key])
    BY <1>3, <1>4, <2>3, <2>7
  <2>9. QED
    BY <1>1, <1>5, <1>7, <2>2, <2>3, <2>6, <2>7, <2>8 DEF Reserved
<1>10. QED
  BY <1>5, <1>6, <1>8, <1>9 DEF Gestures

\* The winner fires: what was put aside for it is spent.
LEMMA GesturesFired ==
  ASSUME KeyTypes, Gestures, Fire
  PROVE  Gestures'
<1>1. resolver.pc = "take" /\ resolver.best # 0 /\ UNCHANGED <<pump, presses>>
  BY DEF Fire, ResolveUnchanged, KeyTypes
<1>2. PICK b \in [key : KeyCodes, mods : Nat, mode : 0 .. 3] : b = Bindings[resolver.best]
  <2>1. resolver.best \in DOMAIN Bindings
    BY <1>1 DEF KeyTypes, Resolves
  <2>2. QED
    BY <2>1, BoundAt
<1> DEFINE k == b.key
           old == slot[k]
           new == slot'[k]
<1>3. /\ slot' = Consumed(b)
      /\ fires' = [fires EXCEPT ![k] = @ + 1]
      /\ longs' = IF b.mode = Modes.long THEN [longs EXCEPT ![k] = Append(@, resolver.hold)] ELSE longs
      /\ lastTap' = IF b.mode = Modes.tap THEN [lastTap EXCEPT ![k] = resolver.hold] ELSE lastTap
      /\ resolver' = NoResolve
  BY <1>2 DEF Fire
<1>4. /\ new.taps = 0 /\ (HeldIn(new) => HeldIn(old) /\ b.mode # Modes.long)
      /\ Credit(new) = HeldOnce(new)
      /\ HeldOnce(new) \in 0 .. 1 /\ HeldOnce(new) <= HeldOnce(old)
      /\ b.mode = Modes.long => HeldOnce(new) = 0
  BY <1>3, UsedUp
<1>5. /\ k \in KeyCodes /\ \A x \in KeyCodes \ {k} : slot'[x] = slot[x]
      /\ \A x \in KeyCodes \ {k} : longs'[x] = longs[x] /\ lastTap'[x] = lastTap[x] /\ fires'[x] = fires[x]
      /\ fires'[k] = fires[k] + 1
  BY <1>3, ConsumedType DEF KeyTypes
<1>6. PumpIdle /\ PumpIdle' /\ PushWhole'
  BY <1>1 DEF Gestures, PumpIdle, PushWhole
<1>7. \A x \in KeyCodes : ~Begun(x) /\ ~Begun(x)' /\ BegunOnce(x) = 0 /\ BegunOnce(x)' = 0 /\ Accounted(x)
  BY <1>1, <1>6 DEF Begun, BegunOnce, PumpIdle, Gestures
<1>8. /\ fires[k] + 1 + (IF b.mode = Modes.long THEN 0 ELSE HeldOnce(old)) <= presses[k]
      /\ resolver.hold = presses[k]
      /\ b.mode \in {Modes.tap, Modes.long} => LongsBefore(k)
      /\ b.mode = Modes.long => lastTap[k] < presses[k]
      /\ b.mode = Modes.tap => ~HeldIn(old)
  BY <1>1, <1>2 DEF Gestures, Reserved
<1>9. /\ fires[k] \in Nat /\ presses[k] \in Nat /\ HeldOnce(old) \in Nat /\ lastTap[k] \in Nat
      /\ longs[k] \in Seq(Nat)
  BY <1>5, CountTypes
<1>10. ASSUME NEW x \in KeyCodes, x # k PROVE Accounted(x)'
  <2>1. LongsBefore(x)' <=> LongsBefore(x)
    BY <1>1, <1>5, <1>10 DEF LongsBefore
  <2>2. QED
    BY <1>1, <1>5, <1>7, <1>10, <2>1 DEF Accounted
<1>11. fires'[k] + Credit(new) + 0 <= presses[k]
  <2> HIDE DEF k, old, new
  <2>1. QED
    BY <1>4, <1>5, <1>8, <1>9
<1>12. Accounted(k)'
  <2>1. Accounted(k)
    BY <1>5, <1>7
  <2>2. \A i \in DOMAIN longs[k] : longs[k][i] \in Nat
    BY <1>9
  <2>3. CASE b.mode = Modes.long
    <3>1. longs'[k] = Append(longs[k], presses[k]) /\ lastTap'[k] = lastTap[k] /\ ~HeldIn(new)
      BY <1>3, <1>4, <1>5, <1>8, <2>3 DEF KeyTypes, Modes
    <3>2. /\ DOMAIN longs'[k] = 1 .. Len(longs[k]) + 1 /\ DOMAIN longs[k] = 1 .. Len(longs[k])
          /\ Len(longs[k]) \in Nat
          /\ \A i \in DOMAIN longs[k] : longs'[k][i] = longs[k][i]
          /\ longs'[k][Len(longs[k]) + 1] = presses[k]
      BY <1>9, <3>1
    <3>3. \A i \in DOMAIN longs[k] : longs[k][i] < presses[k]
      BY <1>8, <2>3 DEF LongsBefore
    <3>4. /\ \A i \in DOMAIN longs'[k] : /\ longs'[k][i] <= presses[k]
                                         /\ lastTap[k] # 0 => longs'[k][i] # lastTap[k]
          /\ \A i, j \in DOMAIN longs'[k] : i # j => longs'[k][i] # longs'[k][j]
      <4> DEFINE s == longs[k]
                 t == longs'[k]
                 p == presses[k]
                 n == Len(longs[k]) + 1
      <4>1. /\ \A i \in DOMAIN s : s[i] <= p /\ s[i] < p /\ (lastTap[k] # 0 => s[i] # lastTap[k])
            /\ \A i, j \in DOMAIN s : i # j => s[i] # s[j]
            /\ lastTap[k] < p
        BY <1>8, <2>1, <2>3, <3>3 DEF Accounted
      <4>2. \A i \in DOMAIN t : (i \in DOMAIN s /\ t[i] = s[i]) \/ (i = n /\ t[i] = p)
        BY <3>2
      <4>3. \A i \in DOMAIN s : s[i] \in Nat
        BY <2>2
      <4> HIDE DEF s, t, p, n
      <4>4. p \in Nat /\ lastTap[k] \in Nat
        BY <1>9 DEF p
      <4>5. \A i \in DOMAIN t : t[i] <= p /\ (lastTap[k] # 0 => t[i] # lastTap[k])
        BY <4>1, <4>2, <4>3, <4>4
      <4>6. \A i, j \in DOMAIN t : i # j => t[i] # t[j]
        BY <4>1, <4>2, <4>3, <4>4
      <4>7. QED
        BY <4>5, <4>6 DEF t, p
    <3>5. QED
      BY <1>1, <1>4, <1>5, <1>7, <1>11, <2>1, <3>1, <3>4 DEF Accounted
  <2>4. CASE b.mode = Modes.tap
    <3>1. longs'[k] = longs[k] /\ lastTap'[k] = presses[k]
      BY <1>3, <1>5, <1>8, <2>4 DEF KeyTypes, Modes
    <3>2. LongsBefore(k) /\ LongsBefore(k)'
      BY <1>1, <1>8, <2>4, <3>1 DEF LongsBefore
    <3>3. \A i \in DOMAIN longs[k] : longs[k][i] <= presses[k] /\ longs[k][i] # presses[k]
      BY <1>9, <2>2, <3>2 DEF LongsBefore
    <3>4. ~HeldIn(new)
      BY <1>4, <1>8, <2>4
    <3>5. QED
      BY <1>1, <1>4, <1>5, <1>7, <1>9, <1>11, <2>1, <3>1, <3>2, <3>3, <3>4 DEF Accounted
  <2>5. CASE b.mode # Modes.long /\ b.mode # Modes.tap
    <3>1. longs'[k] = longs[k] /\ lastTap'[k] = lastTap[k]
      BY <1>3, <2>5
    <3>2. LongsBefore(k)' <=> LongsBefore(k)
      BY <1>1, <3>1 DEF LongsBefore
    <3>3. QED
      BY <1>1, <1>4, <1>5, <1>7, <1>11, <2>1, <3>1, <3>2 DEF Accounted
  <2>6. QED
    BY <2>3, <2>4, <2>5
<1>13. \A x \in KeyCodes : Accounted(x)'
  BY <1>10, <1>12
<1>14. resolver'.best = 0 /\ resolver'.pc = "idle"
  BY <1>3, FreshTypes
<1>15. QED
  BY <1>6, <1>13, <1>14 DEF Gestures, Reserved

\* The same after a step.
LEMMA UntouchedIsAccountedNext ==
  KeyTypes' /\ Untouched' => Gestures'
<1>1. KeyTypes /\ Untouched => Gestures
  BY UntouchedIsAccounted
<1>2. QED
  BY <1>1, PTL

\* Until the OS sends an event there is nothing to resolve or to tell.
LEMMA UntouchedKept ==
  ASSUME KeyTypes, Untouched, [KeyNext]_keyVars, pushes' = pushes
  PROVE  Untouched'
<1>1. ASSUME NEW k \in KeyCodes PROVE ~PressKey(k) /\ ~RepeatKey(k) /\ ~ReleaseKey(k)
  BY DEF PressKey, RepeatKey, ReleaseKey, MayPush, KeyTypes
<1>2. ~Store /\ ~Offer
  BY DEF Untouched, PumpIdle, Store, Offer
<1>3. ~Resolve
  BY BoundAt, FreshMatchesNothing DEF Resolve, Untouched
<1>4. ~Scan /\ ~ExpireTest /\ ~Decline /\ ~Fire
  BY DEF Untouched, Scan, ExpireTest, Decline, Fire
<1>5. UNCHANGED <<slot, pump, resolver, presses, fires, longs, lastTap>>
  BY <1>1, <1>2, <1>3, <1>4 DEF KeyNext, Configure, Tick, DispatchEvent, keyVars
<1>6. QED
  BY <1>5 DEF Untouched, PumpIdle

\* The gestures are inductive.
LEMMA KeyKept ==
  KeyInv /\ [KeyNext]_keyVars => KeyInv'
<1> SUFFICES ASSUME KeyInv, [KeyNext]_keyVars PROVE KeyInv'
  OBVIOUS
<1>1. HearInv /\ HearInv' /\ KeyTypes /\ KeyTypes'
  BY HearKept DEF KeyInv, HearInv
<1>2. ASSUME pushes' = 0 PROVE Untouched'
  <2>1. pushes' = pushes
    <3>1. ASSUME NEW k \in KeyCodes, PressKey(k) \/ RepeatKey(k) \/ ReleaseKey(k) PROVE FALSE
      <4>1. pushes' = pushes + 1 /\ pushes \in Nat
        BY <1>1, <3>1 DEF KeyTypes, PressKey, RepeatKey, ReleaseKey, MayPush
      <4>2. QED
        BY <1>2, <4>1
    <3>2. ASSUME NEW two \in BOOLEAN, NEW taps \in BOOLEAN, Configure(two, taps) PROVE pushes' = pushes
      BY <3>2 DEF Configure
    <3>3. CASE Tick \/ Store \/ Offer \/ DispatchEvent
      BY <3>3 DEF Tick, Store, Offer, DispatchEvent
    <3>4. CASE Resolve \/ Scan \/ ExpireTest \/ Decline \/ Fire
      BY <3>4 DEF Resolve, Scan, ExpireTest, Decline, Fire, ResolveUnchanged
    <3>5. CASE UNCHANGED keyVars
      BY <3>5 DEF keyVars
    <3>6. QED
      BY <3>1, <3>2, <3>3, <3>4, <3>5 DEF KeyNext
  <2>2. QED
    BY <1>1, <1>2, <2>1, UntouchedKept DEF KeyInv
<1>3. ASSUME ~racing', ~racing PROVE Gestures'
  <2>1. Gestures
    BY <1>3 DEF KeyInv
  <2>2. ASSUME NEW two \in BOOLEAN, NEW taps \in BOOLEAN, Configure(two, taps) PROVE Gestures'
    <3>1. pushes' = 0
      BY <2>2 DEF Configure
    <3>2. QED
      BY <1>1, <1>2, <3>1, UntouchedIsAccountedNext
  <2>3. ASSUME NEW k \in KeyCodes, PressKey(k) PROVE Gestures'
    BY <1>1, <1>3, <2>1, <2>3, GesturesPressed
  <2>4. ASSUME NEW k \in KeyCodes, RepeatKey(k) \/ ReleaseKey(k) PROVE Gestures'
    BY <1>1, <1>3, <2>1, <2>4, GesturesPushed
  <2>5. CASE Store
    BY <1>1, <1>3, <2>1, <2>5, GesturesStored
  <2>6. CASE Offer \/ DispatchEvent \/ Tick \/ UNCHANGED keyVars
    BY <1>1, <1>3, <2>1, <2>6, GesturesAside
  <2>7. CASE Resolve \/ Scan \/ ExpireTest
    BY <1>1, <1>3, <2>1, <2>7, GesturesScanned
  <2>8. CASE Decline
    BY <1>1, <2>1, <2>8, GesturesDeclined
  <2>9. CASE Fire
    BY <1>1, <2>1, <2>9, GesturesFired
  <2>10. QED
    BY <2>2, <2>3, <2>4, <2>5, <2>6, <2>7, <2>8, <2>9 DEF KeyNext
<1>4. ASSUME ~racing', racing PROVE Gestures'
  <2>1. pushes' = 0
    BY <1>4 DEF KeyNext, keyVars, Configure, Tick, PressKey, RepeatKey, ReleaseKey, MayPush,
                Store, Offer, DispatchEvent, Resolve, Scan, ExpireTest, Decline, Fire, ResolveUnchanged
  <2>2. QED
    BY <1>1, <1>2, <2>1, UntouchedIsAccountedNext
<1>5. QED
  BY <1>1, <1>2, <1>3, <1>4 DEF KeyInv

\* It holds in the beginning.
LEMMA KeyBegins ==
  KeyInit => KeyInv
<1> SUFFICES ASSUME KeyInit PROVE KeyInv
  OBVIOUS
<1>1. HearInv /\ KeyTypes
  BY HearBegins DEF HearInv
<1>2. Untouched
  BY FreshTypes DEF KeyInit, Untouched, PumpIdle
<1>3. QED
  BY <1>1, <1>2, UntouchedIsAccounted DEF KeyInv

\* What is accounted for fires once.
LEMMA AccountedFireOnce ==
  KeyInv => GesturesFireOnce
<1> SUFFICES ASSUME KeyInv, ~racing, NEW k \in KeyCodes
             PROVE  /\ fires[k] <= presses[k]
                    /\ \A i, j \in DOMAIN longs[k] : i # j => longs[k][i] # longs[k][j]
                    /\ lastTap[k] # 0 => \A i \in DOMAIN longs[k] : longs[k][i] # lastTap[k]
  BY DEF GesturesFireOnce
<1>1. KeyTypes /\ Accounted(k)
  BY DEF KeyInv, HearInv, Gestures
<1>2. fires[k] + Credit(slot[k]) + BegunOnce(k) <= presses[k]
  BY <1>1 DEF Accounted
<1>3. fires[k] <= presses[k]
  BY <1>1, <1>2, CountTypes
<1>4. QED
  BY <1>1, <1>3 DEF Accounted

\* What KeyInv says at every state.
LEMMA KeysAlways ==
  KeySpec => [](ListenersKnowTheState /\ GesturesFireOnce)
<1>1. KeyInv => ListenersKnowTheState /\ GesturesFireOnce
  BY HeardMeansKnown, AccountedFireOnce DEF KeyInv
<1>2. QED
  BY <1>1, KeyBegins, KeyKept, PTL DEF KeySpec

-----------------------------------------------------------------------------
(* Buttons, motions and touches: the words and what they say *)

Coords == Int \X Int
Words == [low : Nat, mid : Nat, high : Nat]
ButtonEvents == [kind : {"button"}, id : Buttons, action : 0 .. 2, mods : Masks, at : 1 .. PointerTime]
MotionEvents == [kind : {"move", "delta", "scroll"}, to : Coords]
DragEvents == [kind : {"drag"}, id : Buttons, to : Coords]
ZoomEvents == [kind : {"zoom"}, to : Nat \X Nat]
TouchEvents == [kind : {"touch"}, id : Contacts, action : 0 .. 3, at : 1 .. PointerTime, to : Coords]
MouseEvents == ButtonEvents \cup MotionEvents \cup DragEvents \cup ZoomEvents

\* A coordinate survives its 16 bits as far as they go.
LEMMA Wrapped ==
  ASSUME NEW n \in Int
  PROVE  /\ U16(n) \in Nat /\ I16(U16(n)) = I16(n)
         /\ Clamped(n) \in Int /\ I16(Clamped(n)) = Clamped(n)
<1>1. U16(n) \in Nat /\ U16(n) < 65536
  BY DEF U16
<1>2. U16(U16(n)) = U16(n)
  <2> DEFINE m == U16(n)
  <2>1. m \in Nat /\ m < 65536 /\ m = 0 * 65536 + m
    BY <1>1
  <2> HIDE DEF m
  <2>2. m % 65536 = m
    BY <2>1, Quotient
  <2>3. QED
    BY <2>2 DEF U16, m
<1>3. I16(U16(n)) = I16(n)
  BY <1>2 DEF I16
<1> DEFINE c == Clamped(n)
<1>4. c \in Int /\ c >= -32768 /\ c <= 32767
  BY DEF Clamped
<1> HIDE DEF c
<1>5. I16(c) = c
  BY <1>4 DEF I16, U16
<1>6. QED
  BY <1>1, <1>3, <1>4, <1>5 DEF c

\* The word of a button is no marker, and its fields are apart.
LEMMA ButtonWord ==
  ASSUME NEW b \in Buttons, NEW action \in 0 .. 2, NEW mods \in Masks, time \in 1 .. PointerTime
  PROVE  LET w == PackButton(b, action, mods) IN
         /\ w \in Words /\ Class(w) = "button"
         /\ (w.low % 16384) \div 4 = b /\ w.low % 4 = action
         /\ (w.mid % 4) * 4 + w.low \div 16384 = mods /\ w.mid \div 4 = time
<1> DEFINE hi == mods \div 4
           lo == mods % 4
           low == lo * 16384 + b * 4 + action
           mid == hi + 4 * (time % 16384)
           w == PackButton(b, action, mods)
<1>1. b \in 0 .. 15 /\ mods \in 0 .. 15 /\ time \in Nat /\ time < 16384
  <2>1. Buttons \subseteq 0 .. 15 /\ Masks \subseteq 0 .. 15 /\ PointerTime \in Nat /\ PointerTime < 16384
    BY PointerAssumption
  <2>2. QED
    BY <2>1
<1>2. hi \in 0 .. 3 /\ lo \in 0 .. 3 /\ hi * 4 + lo = mods
  BY <1>1
<1>3. time % 16384 = time
  BY <1>1
<1> HIDE DEF hi, lo
<1>4. w = [low |-> low, mid |-> mid, high |-> 0] /\ w.low = low /\ w.mid = mid
  BY DEF PackButton, Word, hi, lo
<1>5. /\ low \in Nat /\ low = lo * 16384 + (b * 4 + action) /\ b * 4 + action \in Nat /\ b * 4 + action < 63
      /\ mid \in Nat /\ mid = time * 4 + hi
  BY <1>1, <1>2, <1>3
<1>6. low \div 16384 = lo /\ low % 16384 = b * 4 + action
  <2> DEFINE r == b * 4 + action
  <2>1. low \in Nat /\ lo \in Nat /\ r \in Nat /\ r < 16384 /\ low = lo * 16384 + r
    BY <1>2, <1>5
  <2> HIDE DEF low, r
  <2>2. low \div 16384 = lo /\ low % 16384 = r
    BY <2>1, Quotient
  <2>3. QED
    BY <2>2 DEF r
<1>7. (b * 4 + action) \div 4 = b
  BY <1>1, <1>5, Quotient
<1>8. low % 4 = action
  <2>1. low = (lo * 4096 + b) * 4 + action /\ lo * 4096 + b \in Nat
    BY <1>1, <1>2, <1>5
  <2>2. QED
    BY <1>5, <2>1, Quotient
<1>9. mid \div 4 = time /\ mid % 4 = hi
  BY <1>1, <1>2, <1>5, Quotient
<1>10. low \div 256 = lo * 64 /\ low % 256 = b * 4 + action
  <2>1. low = (lo * 64) * 256 + (b * 4 + action) /\ lo * 64 \in Nat
    BY <1>2, <1>5
  <2>2. QED
    BY <1>5, <2>1, Quotient
<1>11. Class(w) = "button"
  <2>1. lo * 64 # 255 /\ ~(lo * 64 = 254)
    BY <1>2
  <2>2. b * 4 + action # 7
    BY <1>1
  <2>3. w.low \div 256 = lo * 64 /\ w.low % 256 = b * 4 + action
    BY <1>4, <1>10
  <2> HIDE DEF w
  <2>4. QED
    BY <2>1, <2>2, <2>3 DEF Class
<1>12. w \in Words
  BY <1>4, <1>5 DEF Words
<1> HIDE DEF w, low, mid
<1>13. /\ (w.low % 16384) \div 4 = b /\ w.low % 4 = action
       /\ (w.mid % 4) * 4 + w.low \div 16384 = mods /\ w.mid \div 4 = time
  BY <1>2, <1>4, <1>6, <1>7, <1>8, <1>9
<1>14. QED
  BY <1>11, <1>12, <1>13 DEF w

\* The words of motions.
LEMMA MotionWord ==
  ASSUME NEW marker \in Nat, NEW action8 \in Nat, action8 < 256, NEW p, p[1] \in Int, p[2] \in Int
  PROVE  LET w == PackCoords(marker, action8, p) IN
         /\ w \in Words /\ w.low % 256 = action8 /\ w.low \div 256 = marker
         /\ I16(w.mid) = I16(p[1]) /\ I16(w.high) = I16(p[2])
<1>1. /\ U16(p[1]) \in Nat /\ I16(U16(p[1])) = I16(p[1])
      /\ U16(p[2]) \in Nat /\ I16(U16(p[2])) = I16(p[2])
  BY Wrapped
<1> DEFINE low == 256 * marker + action8
           w == PackCoords(marker, action8, p)
<1>2. low \in Nat /\ low = marker * 256 + action8
  OBVIOUS
<1>3. low % 256 = action8 /\ low \div 256 = marker
  BY <1>2, Quotient
<1>4. w = [low |-> low, mid |-> U16(p[1]), high |-> U16(p[2])]
  BY DEF PackCoords, Word
<1> HIDE DEF low
<1>5. w \in Words /\ w.low = low /\ w.mid = U16(p[1]) /\ w.high = U16(p[2])
  BY <1>1, <1>2, <1>4 DEF Words
<1> HIDE DEF w
<1>6. QED
  BY <1>1, <1>3, <1>5 DEF w

\* A press, repeat or release of a button is heard as what it is.
LEMMA ButtonIsHeard ==
  ASSUME NEW b \in Buttons, NEW action \in 0 .. 2, NEW mods \in Masks, time \in 1 .. PointerTime
  PROVE  LET w == PackButton(b, action, mods)
             e == [kind |-> "button", id |-> b, action |-> action, mods |-> mods, at |-> time] IN
         w \in Words /\ e \in ButtonEvents /\ SameEvent(e, Call(w, Class(w)))
<1> DEFINE w == PackButton(b, action, mods)
           e == [kind |-> "button", id |-> b, action |-> action, mods |-> mods, at |-> time]
<1>1. /\ w \in Words /\ Class(w) = "button"
      /\ (w.low % 16384) \div 4 = b /\ w.low % 4 = action
      /\ (w.mid % 4) * 4 + w.low \div 16384 = mods /\ w.mid \div 4 = time
  BY ButtonWord
<1> HIDE DEF w
<1>2. Call(w, Class(w)) = e
  BY <1>1 DEF Call
<1>3. e \in ButtonEvents /\ SameEvent(e, e)
  BY DEF ButtonEvents, SameEvent
<1>4. QED
  BY <1>1, <1>2, <1>3 DEF w

\* So are a move and a delta.
LEMMA MotionIsHeard ==
  ASSUME NEW p \in Points
  PROVE  /\ LET w == PackCoords(255, 5, p)
                e == [kind |-> "move", to |-> p] IN
            w \in Words /\ e \in MotionEvents /\ SameEvent(e, Call(w, Class(w)))
         /\ LET w == PackCoords(255, 9, p)
                e == [kind |-> "delta", to |-> p] IN
            w \in Words /\ e \in MotionEvents /\ SameEvent(e, Call(w, Class(w)))
<1>1. p \in Coords /\ p[1] \in Int /\ p[2] \in Int
  BY PointerAssumption DEF Coords
<1>2. ASSUME NEW a \in {5, 9}
      PROVE  LET w == PackCoords(255, a, p)
                 e == [kind |-> IF a = 5 THEN "move" ELSE "delta", to |-> p] IN
             w \in Words /\ e \in MotionEvents /\ SameEvent(e, Call(w, Class(w)))
  <2> DEFINE w == PackCoords(255, a, p)
             e == [kind |-> IF a = 5 THEN "move" ELSE "delta", to |-> p]
  <2>1. w \in Words /\ w.low % 256 = a /\ w.low \div 256 = 255 /\ I16(w.mid) = I16(p[1]) /\ I16(w.high) = I16(p[2])
    BY <1>1, MotionWord
  <2> HIDE DEF w
  <2>2. Class(w) = e.kind
    BY <2>1 DEF Class
  <2>3. Call(w, Class(w)) = [kind |-> e.kind, to |-> <<I16(p[1]), I16(p[2])>>]
    BY <2>1, <2>2 DEF Call
  <2>4. SameEvent(e, Call(w, Class(w)))
    BY <2>3 DEF SameEvent, Narrowed
  <2>5. e \in MotionEvents
    BY <1>1 DEF MotionEvents
  <2>6. QED
    BY <2>1, <2>4, <2>5 DEF w
<1>3. QED
  BY <1>2

\* So is a drag, whose marker is its button.
LEMMA DragIsHeard ==
  ASSUME NEW b \in Buttons, NEW p \in Points
  PROVE  LET w == PackCoords(b, 7, p)
             e == [kind |-> "drag", id |-> b, to |-> p] IN
         w \in Words /\ e \in DragEvents /\ SameEvent(e, Call(w, Class(w)))
<1> DEFINE w == PackCoords(b, 7, p)
           e == [kind |-> "drag", id |-> b, to |-> p]
<1>1. p \in Coords /\ p[1] \in Int /\ p[2] \in Int /\ b \in Nat /\ b < 16
  BY PointerAssumption DEF Coords
<1>2. w \in Words /\ w.low % 256 = 7 /\ w.low \div 256 = b /\ I16(w.mid) = I16(p[1]) /\ I16(w.high) = I16(p[2])
  BY <1>1, MotionWord
<1> HIDE DEF w
<1>3. Class(w) = "drag"
  BY <1>1, <1>2 DEF Class
<1>4. Call(w, Class(w)) = [kind |-> "drag", id |-> b, to |-> <<I16(p[1]), I16(p[2])>>]
  BY <1>2, <1>3 DEF Call
<1>5. SameEvent(e, Call(w, Class(w)))
  BY <1>4 DEF SameEvent, Narrowed
<1>6. e \in DragEvents
  BY <1>1 DEF DragEvents
<1>7. QED
  BY <1>2, <1>5, <1>6 DEF w

\* So is a scroll, as far as its range goes.
LEMMA ScrollIsHeard ==
  ASSUME NEW p \in Points
  PROVE  LET w == PackCoords(254, 6, <<Clamped(p[1]), Clamped(p[2])>>)
             e == [kind |-> "scroll", to |-> p] IN
         w \in Words /\ e \in MotionEvents /\ SameEvent(e, Call(w, Class(w)))
<1> DEFINE c == <<Clamped(p[1]), Clamped(p[2])>>
           w == PackCoords(254, 6, c)
           e == [kind |-> "scroll", to |-> p]
<1>1. p \in Coords /\ p[1] \in Int /\ p[2] \in Int
  BY PointerAssumption DEF Coords
<1>2. c[1] \in Int /\ c[2] \in Int /\ I16(c[1]) = Clamped(p[1]) /\ I16(c[2]) = Clamped(p[2])
  BY <1>1, Wrapped
<1> HIDE DEF c
<1>3. w \in Words /\ w.low % 256 = 6 /\ w.low \div 256 = 254 /\ I16(w.mid) = I16(c[1]) /\ I16(w.high) = I16(c[2])
  BY <1>2, MotionWord
<1> HIDE DEF w
<1>4. Class(w) = "scroll"
  BY <1>3 DEF Class
<1>5. Call(w, Class(w)) = [kind |-> "scroll", to |-> <<Clamped(p[1]), Clamped(p[2])>>]
  BY <1>2, <1>3, <1>4 DEF Call
<1>6. SameEvent(e, Call(w, Class(w)))
  BY <1>5 DEF SameEvent, Narrowed
<1>7. e \in MotionEvents
  BY <1>1 DEF MotionEvents
<1>8. QED
  BY <1>3, <1>6, <1>7 DEF w, c

\* So is a zoom, bit by bit.
LEMMA ZoomIsHeard ==
  ASSUME NEW f \in Floats
  PROVE  LET w == Word(256 * 255 + 8, f[1], f[2])
             e == [kind |-> "zoom", to |-> f] IN
         w \in Words /\ e \in ZoomEvents /\ SameEvent(e, Call(w, Class(w)))
<1> DEFINE w == Word(256 * 255 + 8, f[1], f[2])
           e == [kind |-> "zoom", to |-> f]
<1>1. f \in Nat \X Nat /\ f[1] \in Nat /\ f[2] \in Nat /\ f = <<f[1], f[2]>>
  BY PointerAssumption
<1>2. w \in Words /\ w.low = 65288 /\ w.mid = f[1] /\ w.high = f[2]
  BY <1>1 DEF Word, Words
<1>3. w.low % 256 = 8 /\ w.low \div 256 = 255
  BY <1>2
<1> HIDE DEF w
<1>4. Class(w) = "zoom"
  BY <1>3 DEF Class
<1>5. Call(w, Class(w)) = e
  BY <1>1, <1>2, <1>4 DEF Call
<1>6. SameEvent(e, e)
  BY DEF SameEvent, Narrowed
<1>7. e \in ZoomEvents
  BY <1>1 DEF ZoomEvents
<1>8. QED
  BY <1>2, <1>5, <1>6, <1>7 DEF w

\* And a touch.
LEMMA TouchIsHeard ==
  ASSUME NEW c \in Contacts, NEW action \in 0 .. 3, NEW p \in Points, time \in 1 .. PointerTime
  PROVE  LET w == PackTouch(c, action)
             e == [kind |-> "touch", id |-> c, action |-> action, at |-> time, to |-> p] IN
         w \in Words /\ e \in TouchEvents /\ SameEvent(e, TouchCall(w))
<1> DEFINE w == PackTouch(c, action)
           e == [kind |-> "touch", id |-> c, action |-> action, at |-> time, to |-> p]
<1>1. p \in Coords /\ c \in Nat /\ time \in Nat
  BY PointerAssumption DEF Coords
<1>2. w \in Words /\ w.low = c * 64 + action /\ w.mid = time * 4 + 0
  BY <1>1 DEF PackTouch, Word, Words
<1>3. w.low \div 64 = c /\ w.low % 64 = action /\ w.mid \div 4 = time
  <2>1. w.low \in Nat /\ w.mid \in Nat /\ action \in Nat /\ action < 64
    BY <1>2 DEF Words
  <2> HIDE DEF w
  <2>2. QED
    BY <1>1, <1>2, <2>1, Quotient
<1> HIDE DEF w
<1>4. TouchCall(w) = [kind |-> "touch", id |-> c, action |-> action, at |-> time]
  BY <1>3 DEF TouchCall
<1>5. SameEvent(e, TouchCall(w))
  BY <1>4 DEF SameEvent
<1>6. e \in TouchEvents
  BY <1>1 DEF TouchEvents
<1>7. QED
  BY <1>2, <1>5, <1>6 DEF w

-----------------------------------------------------------------------------
(* The slots, the ring and what is known *)

ButtonSlots == [pressTime : Nat, lastRelease : Nat, taps : Nat, lastTapMods : Nat]
TouchSlots == [pressTime : Nat, lastRelease : Nat, taps : Nat, action : 0 .. 3]
Things == Buttons \cup Contacts

PointerTypes ==
  /\ device \in {"mouse", "touch"} /\ time \in 1 .. PointerTime
  /\ button \in [Buttons -> ButtonSlots] /\ touch \in [Contacts -> TouchSlots]
  /\ contact \in [Contacts -> Points \cup {<<0, 0>>}]
  /\ ring \in Seq(Words)
  /\ meant \in Seq(IF device = "mouse" THEN MouseEvents ELSE TouchEvents)
  /\ known = [x \in Things |-> known[x]]
  /\ refused \in [Things -> BOOLEAN]
  /\ downs \in [Buttons -> Seq([at : Nat, mods : Nat, since : Nat])]

\* Each word of the ring is the event that stands at its place in meant.
Truthful ==
  /\ truthful /\ Len(ring) = Len(meant)
  /\ \A i \in 1 .. Len(ring) :
       SameEvent(meant[i], IF device = "mouse" THEN Call(ring[i], Class(ring[i])) ELSE TouchCall(ring[i]))

\* An event that says how x is; the last one that is in the ring.
Settles(e, x) == \/ e.kind = "button" /\ e.id = x /\ e.action # Repeat
                 \/ e.kind = "touch" /\ e.id = x
NoneAfter(q, x, i) == \A j \in DOMAIN q : j > i => ~Settles(q[j], x)
LastIs(q, x, a) == \E i \in DOMAIN q : Settles(q[i], x) /\ q[i].action = a /\ NoneAfter(q, x, i)

WillBeKnown ==
  /\ device = "mouse" => \A b \in Buttons :
       \/ refused[b]
       \/ LastIs(meant, b, IF button[b].pressTime # 0 THEN Down ELSE Up)
       \/ NoneAfter(meant, b, 0) /\ ((button[b].pressTime # 0) = (known[b] = <<Down>>))
  /\ device = "touch" => \A c \in Contacts :
       \/ refused[c]
       \/ LastIs(meant, c, touch[c].action)
       \/ NoneAfter(meant, c, 0) /\ known[c] \in {<<>>, <<touch[c].action, contact[c]>>}

\* A button has clicks as soon as it was pressed, with the modifiers of the last press.
ClicksInOrder ==
  /\ ClicksAreCounted
  /\ \A b \in Buttons : downs[b] # <<>> =>
       button[b].taps # 0 /\ downs[b][Len(downs[b])].mods = button[b].lastTapMods

PointerInv == PointerTypes /\ Truthful /\ WillBeKnown /\ ClicksInOrder

\* An event more, and one less.
LEMMA SettledAppended ==
  ASSUME NEW S, NEW q \in Seq(S), NEW e, NEW x, NEW a
  PROVE  /\ ~Settles(e, x) => /\ LastIs(q, x, a) => LastIs(Append(q, e), x, a)
                              /\ NoneAfter(q, x, 0) => NoneAfter(Append(q, e), x, 0)
         /\ Settles(e, x) /\ e.action = a => LastIs(Append(q, e), x, a)
<1> DEFINE r == Append(q, e)
<1>1. /\ Len(q) \in Nat /\ DOMAIN q = 1 .. Len(q) /\ DOMAIN r = 1 .. Len(q) + 1
      /\ \A j \in DOMAIN q : r[j] = q[j]
      /\ r[Len(q) + 1] = e
  OBVIOUS
<1> HIDE DEF r
<1>2. ASSUME ~Settles(e, x), NEW i \in Nat, NoneAfter(q, x, i) PROVE NoneAfter(r, x, i)
  BY <1>1, <1>2 DEF NoneAfter
<1>3. ASSUME ~Settles(e, x), LastIs(q, x, a) PROVE LastIs(r, x, a)
  <2>1. PICK i \in DOMAIN q : Settles(q[i], x) /\ q[i].action = a /\ NoneAfter(q, x, i)
    BY <1>3 DEF LastIs
  <2>2. i \in DOMAIN r /\ i \in Nat /\ r[i] = q[i]
    BY <1>1
  <2>3. QED
    BY <1>2, <1>3, <2>1, <2>2 DEF LastIs
<1>4. ASSUME Settles(e, x), e.action = a PROVE LastIs(r, x, a)
  <2>1. Len(q) + 1 \in DOMAIN r /\ NoneAfter(r, x, Len(q) + 1)
    BY <1>1 DEF NoneAfter
  <2>2. QED
    BY <1>1, <1>4, <2>1 DEF LastIs
<1>5. QED
  BY <1>2, <1>3, <1>4 DEF r

\* The first event is heard: it was the last that says how x is, or that one is still there.
LEMMA SettledHeard ==
  ASSUME NEW S, NEW q \in Seq(S), q # <<>>, NEW x, NEW a
  PROVE  /\ LastIs(q, x, a) => \/ LastIs(Tail(q), x, a)
                               \/ Settles(q[1], x) /\ q[1].action = a /\ NoneAfter(Tail(q), x, 0)
         /\ NoneAfter(q, x, 0) => NoneAfter(Tail(q), x, 0) /\ ~Settles(q[1], x)
<1> DEFINE r == Tail(q)
<1>1. /\ Len(q) \in Nat \ {0} /\ DOMAIN q = 1 .. Len(q) /\ DOMAIN r = 1 .. Len(q) - 1
      /\ \A j \in DOMAIN r : r[j] = q[j + 1]
  OBVIOUS
<1> HIDE DEF r
<1>2. \A i \in Nat \ {0} : NoneAfter(q, x, i) => NoneAfter(r, x, i - 1)
  BY <1>1 DEF NoneAfter
<1>3. NoneAfter(q, x, 0) => NoneAfter(r, x, 0) /\ ~Settles(q[1], x)
  BY <1>1 DEF NoneAfter
<1>4. ASSUME LastIs(q, x, a)
      PROVE  LastIs(r, x, a) \/ (Settles(q[1], x) /\ q[1].action = a /\ NoneAfter(r, x, 0))
  <2>1. PICK i \in DOMAIN q : Settles(q[i], x) /\ q[i].action = a /\ NoneAfter(q, x, i)
    BY <1>4 DEF LastIs
  <2>2. CASE i = 1
    BY <1>2, <2>1, <2>2
  <2>3. CASE i # 1
    <3>1. i - 1 \in DOMAIN r /\ r[i - 1] = q[i] /\ i \in Nat \ {0}
      BY <1>1, <2>3
    <3>2. QED
      BY <1>2, <2>1, <3>1 DEF LastIs
  <2>4. QED
    BY <2>2, <2>3
<1>5. QED
  BY <1>3, <1>4 DEF r

\* What a push does to the ring: it takes the word and the event or neither.
LEMMA PushKeepsTruth ==
  ASSUME PointerTypes, Truthful, NEW w \in Words,
         NEW e \in IF device = "mouse" THEN MouseEvents ELSE TouchEvents,
         SameEvent(e, IF device = "mouse" THEN Call(w, Class(w)) ELSE TouchCall(w)),
         PushWord(w, e), UNCHANGED <<device, truthful>>
  PROVE  /\ Truthful' /\ ring' \in Seq(Words)
         /\ meant' \in Seq(IF device = "mouse" THEN MouseEvents ELSE TouchEvents)
         /\ IF Full THEN meant' = meant ELSE meant' = Append(meant, e)
<1> DEFINE S == IF device = "mouse" THEN MouseEvents ELSE TouchEvents
           Told(c) == IF device = "mouse" THEN Call(c, Class(c)) ELSE TouchCall(c)
<1>1. /\ ring \in Seq(Words) /\ meant \in Seq(S) /\ Len(ring) = Len(meant) /\ truthful
      /\ \A i \in 1 .. Len(ring) : SameEvent(meant[i], Told(ring[i]))
      /\ SameEvent(e, Told(w)) /\ e \in S
  BY DEF PointerTypes, Truthful
<1> HIDE DEF S, Told
<1>2. CASE Full
  <2>1. ring' = ring /\ meant' = meant
    BY <1>2 DEF PushWord, Full
  <2>2. \A i \in 1 .. Len(ring') : SameEvent(meant'[i], Told(ring'[i]))
    BY <1>1, <2>1
  <2>3. QED
    BY <1>1, <1>2, <2>1, <2>2 DEF Truthful, S, Told
<1>3. CASE ~Full
  <2>1. ring' = Append(ring, w) /\ meant' = Append(meant, e)
    BY <1>3 DEF PushWord, Full
  <2>2. /\ Len(ring) \in Nat /\ Len(ring') = Len(ring) + 1 /\ Len(meant') = Len(meant) + 1
        /\ ring' \in Seq(Words) /\ meant' \in Seq(S)
    BY <1>1, <2>1
  <2>3. ASSUME NEW i \in 1 .. Len(ring') PROVE SameEvent(meant'[i], Told(ring'[i]))
    <3>1. CASE i = Len(ring) + 1
      <4>1. meant'[i] = e /\ ring'[i] = w
        BY <1>1, <2>1, <2>2, <3>1
      <4>2. QED
        BY <1>1, <4>1
    <3>2. CASE i # Len(ring) + 1
      <4>1. i \in 1 .. Len(ring) /\ meant'[i] = meant[i] /\ ring'[i] = ring[i]
        BY <1>1, <2>1, <2>2, <3>2
      <4>2. QED
        BY <1>1, <4>1
    <3>3. QED
      BY <3>1, <3>2
  <2>4. Truthful'
    <3>1. truthful' /\ Len(ring') = Len(meant')
      BY <1>1, <2>2
    <3>2. \A i \in 1 .. Len(ring') :
            SameEvent(meant'[i], IF device' = "mouse" THEN Call(ring'[i], Class(ring'[i])) ELSE TouchCall(ring'[i]))
      BY <2>3 DEF Told
    <3>3. QED
      BY <3>1, <3>2 DEF Truthful, SameEvent, Narrowed
  <2>5. QED
    BY <1>3, <2>1, <2>2, <2>4 DEF S
<1>4. QED
  BY <1>2, <1>3

-----------------------------------------------------------------------------
(* The steps of the pump and of the game loop *)

\* A push of a button whose slot is what the event says.
LEMMA ButtonTold ==
  ASSUME PointerTypes, Truthful, WillBeKnown, device = "mouse",
         NEW b \in Buttons, NEW action \in 0 .. 2, NEW mods \in Masks,
         PushButton(b, action, mods), UNCHANGED <<device, truthful, known>>,
         \A x \in Buttons \ {b} : button'[x].pressTime = button[x].pressTime,
         action = Repeat => button'[b].pressTime = button[b].pressTime,
         action # Repeat => (button'[b].pressTime # 0 <=> action = Down)
  PROVE  /\ Truthful' /\ WillBeKnown' /\ ring' \in Seq(Words) /\ meant' \in Seq(MouseEvents)
         /\ refused' \in [Things -> BOOLEAN]
<1> DEFINE w == PackButton(b, action, mods)
           e == [kind |-> "button", id |-> b, action |-> action, mods |-> mods, at |-> time]
<1>1. w \in Words /\ e \in ButtonEvents /\ SameEvent(e, Call(w, Class(w)))
  BY ButtonIsHeard DEF PointerTypes
<1>2. /\ PushWord(w, e)
      /\ refused' = [refused EXCEPT ![b] = Full \/ (@ /\ action = Repeat)]
  BY DEF PushButton
<1>3. /\ Truthful' /\ ring' \in Seq(Words) /\ meant' \in Seq(MouseEvents)
      /\ IF Full THEN meant' = meant ELSE meant' = Append(meant, e)
  <2> HIDE DEF w, e
  <2>1. e \in MouseEvents
    BY <1>1 DEF MouseEvents
  <2>2. QED
    BY <1>1, <1>2, <2>1, PushKeepsTruth
<1>4. /\ refused \in [Things -> BOOLEAN] /\ Full \in BOOLEAN /\ b \in Things
      /\ meant \in Seq(MouseEvents)
  BY DEF PointerTypes, Things, Full
<1>5. /\ refused'[b] = (Full \/ (refused[b] /\ action = Repeat))
      /\ \A x \in Things \ {b} : refused'[x] = refused[x]
      /\ refused' \in [Things -> BOOLEAN]
  BY <1>2, <1>4
<1>6. \A x : Settles(e, x) <=> x = b /\ action # Repeat
  BY DEF Settles
<1>7. e.action = action
  OBVIOUS
<1> HIDE DEF w, e
<1>8. ASSUME NEW x \in Buttons, ~refused'[x]
      PROVE  \/ LastIs(meant', x, IF button'[x].pressTime # 0 THEN Down ELSE Up)
             \/ NoneAfter(meant', x, 0) /\ ((button'[x].pressTime # 0) = (known'[x] = <<Down>>))
  <2> DEFINE a == IF button[x].pressTime # 0 THEN Down ELSE Up
             z == IF button'[x].pressTime # 0 THEN Down ELSE Up
  <2>1. CASE x = b /\ action # Repeat
    <3>1. meant' = Append(meant, e)
      BY <1>3, <1>5, <1>8, <2>1
    <3>2. Settles(e, x) /\ e.action = z
      BY <1>6, <1>7, <2>1 DEF Down, Up, Repeat
    <3>3. LastIs(meant', x, z)
      BY <1>4, <3>1, <3>2, SettledAppended
    <3>4. QED
      BY <3>3
  <2>2. CASE ~(x = b /\ action # Repeat)
    <3>1. ~Settles(e, x) /\ ~refused[x] /\ z = a /\ (button'[x].pressTime # 0) = (button[x].pressTime # 0)
      BY <1>5, <1>6, <1>8, <2>2 DEF Things
    <3>2. LastIs(meant, x, a) \/ (NoneAfter(meant, x, 0) /\ ((button[x].pressTime # 0) = (known[x] = <<Down>>)))
      BY <3>1 DEF WillBeKnown
    <3>3. /\ LastIs(meant, x, a) => LastIs(meant', x, a)
          /\ NoneAfter(meant, x, 0) => NoneAfter(meant', x, 0)
      BY <1>3, <1>4, <3>1, SettledAppended
    <3> HIDE DEF a, z
    <3>4. LastIs(meant', x, z) \/ (NoneAfter(meant', x, 0) /\ ((button'[x].pressTime # 0) = (known'[x] = <<Down>>)))
      BY <3>1, <3>2, <3>3
    <3>5. QED
      BY <3>4 DEF z
  <2>3. QED
    BY <2>1, <2>2
<1>9. WillBeKnown'
  BY <1>8 DEF WillBeKnown
<1>10. QED
  BY <1>3, <1>5, <1>9

\* A push of what no button is concerned with.
LEMMA MotionTold ==
  ASSUME PointerTypes, Truthful, WillBeKnown,
         NEW w \in Words, NEW e \in MotionEvents \cup DragEvents \cup ZoomEvents,
         SameEvent(e, Call(w, Class(w))), PushMotion(w, e)
  PROVE  /\ Truthful' /\ WillBeKnown' /\ ring' \in Seq(Words) /\ meant' \in Seq(MouseEvents)
<1>1. /\ device = "mouse" /\ PushWord(w, e)
      /\ UNCHANGED <<device, time, cursor, truthful, known, button, touch, contact, refused, downs>>
  BY DEF PushMotion, MayPoint
<1>2. e \in MouseEvents
  BY DEF MouseEvents
<1>3. /\ Truthful' /\ ring' \in Seq(Words) /\ meant' \in Seq(MouseEvents)
      /\ IF Full THEN meant' = meant ELSE meant' = Append(meant, e)
  BY <1>1, <1>2, PushKeepsTruth
<1>4. e.kind \notin {"button", "touch"}
  BY DEF MotionEvents, DragEvents, ZoomEvents
<1>5. \A x : ~Settles(e, x)
  BY <1>4 DEF Settles
<1>6. meant \in Seq(MouseEvents)
  BY <1>1 DEF PointerTypes
<1>7. ASSUME NEW x, NEW a
      PROVE  /\ LastIs(meant, x, a) => LastIs(meant', x, a)
             /\ NoneAfter(meant, x, 0) => NoneAfter(meant', x, 0)
  BY <1>3, <1>5, <1>6, SettledAppended
<1>8. WillBeKnown'
  BY <1>1, <1>7 DEF WillBeKnown
<1>9. QED
  BY <1>3, <1>8

\* A touch.
LEMMA TouchTold ==
  ASSUME PointerTypes, Truthful, WillBeKnown,
         NEW c \in Contacts, NEW action \in 0 .. 3, NEW p \in Points, PushTouch(c, action, p)
  PROVE  /\ Truthful' /\ WillBeKnown' /\ ring' \in Seq(Words) /\ meant' \in Seq(TouchEvents)
         /\ refused' \in [Things -> BOOLEAN] /\ touch' \in [Contacts -> TouchSlots]
<1> DEFINE w == PackTouch(c, action)
           e == [kind |-> "touch", id |-> c, action |-> action, at |-> time, to |-> p]
<1>1. w \in Words /\ e \in TouchEvents /\ SameEvent(e, TouchCall(w))
  BY TouchIsHeard DEF PointerTypes
<1>2. /\ device = "touch" /\ PushWord(w, e)
      /\ contact' = [contact EXCEPT ![c] = p]
      /\ refused' = [refused EXCEPT ![c] = Full]
      /\ UNCHANGED <<device, time, truthful, known, button, downs>>
  BY DEF PushTouch, MayPoint
<1>3. /\ touch' \in [Contacts -> TouchSlots] /\ touch'[c].action = action
      /\ \A x \in Contacts \ {c} : touch'[x] = touch[x]
  <2> DEFINE s == touch[c]
             new == [pressTime |-> CASE action = TouchDown -> time [] action = TouchMove -> s.pressTime
                                     [] OTHER -> 0,
                     lastRelease |-> IF action = TouchUp THEN time ELSE s.lastRelease,
                     taps |-> TapsOf(s, action), action |-> action]
  <2>1. touch \in [Contacts -> TouchSlots] /\ s \in TouchSlots /\ time \in Nat
    BY PointerAssumption DEF PointerTypes
  <2>2. touch' = [touch EXCEPT ![c] = new]
    BY <2>1 DEF PushTouch
  <2>3. s.pressTime \in Nat /\ s.lastRelease \in Nat /\ s.taps \in Nat
    BY <2>1 DEF TouchSlots
  <2>4. TapsOf(s, action) \in Nat
    BY <2>3 DEF TapsOf
  <2>5. /\ (CASE action = TouchDown -> time [] action = TouchMove -> s.pressTime [] OTHER -> 0) \in Nat
        /\ (IF action = TouchUp THEN time ELSE s.lastRelease) \in Nat
    BY <2>1, <2>3 DEF TouchDown, TouchMove
  <2>6. new \in TouchSlots /\ new.action = action
    BY <2>4, <2>5 DEF TouchSlots
  <2> HIDE DEF new
  <2>7. QED
    BY <2>1, <2>2, <2>6
<1>4. /\ Truthful' /\ ring' \in Seq(Words) /\ meant' \in Seq(TouchEvents)
      /\ IF Full THEN meant' = meant ELSE meant' = Append(meant, e)
  <2> HIDE DEF w, e
  <2>1. QED
    BY <1>1, <1>2, PushKeepsTruth
<1>5. /\ refused \in [Things -> BOOLEAN] /\ Full \in BOOLEAN /\ c \in Things
      /\ meant \in Seq(TouchEvents) /\ contact \in [Contacts -> Points \cup {<<0, 0>>}]
  BY <1>2 DEF PointerTypes, Things, Full
<1>6. /\ refused'[c] = Full /\ \A x \in Things \ {c} : refused'[x] = refused[x]
      /\ refused' \in [Things -> BOOLEAN]
      /\ \A x \in Contacts \ {c} : contact'[x] = contact[x]
  BY <1>2, <1>5
<1>7. e.action = action /\ \A x : Settles(e, x) <=> x = c
  BY DEF Settles
<1> HIDE DEF w, e
<1>8. ASSUME NEW x \in Contacts, ~refused'[x]
      PROVE  \/ LastIs(meant', x, touch'[x].action)
             \/ NoneAfter(meant', x, 0) /\ known'[x] \in {<<>>, <<touch'[x].action, contact'[x]>>}
  <2>1. CASE x = c
    <3>1. meant' = Append(meant, e)
      BY <1>4, <1>6, <1>8, <2>1
    <3>2. QED
      BY <1>3, <1>5, <1>7, <2>1, <3>1, SettledAppended
  <2>2. CASE x # c
    <3>1. ~refused[x] /\ ~Settles(e, x) /\ touch'[x] = touch[x] /\ contact'[x] = contact[x]
      BY <1>3, <1>6, <1>7, <1>8, <2>2 DEF Things
    <3>2. \/ LastIs(meant, x, touch[x].action)
          \/ NoneAfter(meant, x, 0) /\ known[x] \in {<<>>, <<touch[x].action, contact[x]>>}
      BY <1>2, <3>1 DEF WillBeKnown
    <3>3. /\ LastIs(meant, x, touch[x].action) => LastIs(meant', x, touch[x].action)
          /\ NoneAfter(meant, x, 0) => NoneAfter(meant', x, 0)
      BY <1>4, <1>5, <3>1, SettledAppended
    <3>4. QED
      BY <1>2, <3>1, <3>2, <3>3
  <2>3. QED
    BY <2>1, <2>2
<1>9. WillBeKnown'
  BY <1>2, <1>8 DEF WillBeKnown
<1>10. QED
  BY <1>3, <1>4, <1>6, <1>9

\* A word is taken from the ring: the next one stands for the next event.
LEMMA TruthHeard ==
  ASSUME PointerTypes, Truthful, ring # <<>>,
         NEW call, call = IF device = "mouse" THEN Call(ring[1], Class(ring[1])) ELSE TouchCall(ring[1]),
         DispatchOne(call)
  PROVE  /\ Truthful' /\ SameEvent(meant[1], call)
         /\ meant # <<>> /\ meant' = Tail(meant) /\ ring' \in Seq(Words)
         /\ meant[1] \in IF device = "mouse" THEN MouseEvents ELSE TouchEvents
         /\ meant' \in Seq(IF device = "mouse" THEN MouseEvents ELSE TouchEvents)
<1> DEFINE S == IF device = "mouse" THEN MouseEvents ELSE TouchEvents
           Told(c) == IF device = "mouse" THEN Call(c, Class(c)) ELSE TouchCall(c)
<1>1. /\ ring \in Seq(Words) /\ meant \in Seq(S) /\ Len(ring) = Len(meant) /\ truthful
      /\ \A i \in 1 .. Len(ring) : SameEvent(meant[i], Told(ring[i]))
      /\ call = Told(ring[1])
  BY DEF PointerTypes, Truthful
<1>2. /\ ring' = Tail(ring) /\ meant' = Tail(meant) /\ device' = device
      /\ truthful' = (truthful /\ SameEvent(meant[1], call))
  BY DEF DispatchOne
<1> HIDE DEF S, Told
<1>3. Len(ring) \in Nat \ {0} /\ 1 \in 1 .. Len(ring) /\ meant # <<>> /\ meant[1] \in S
  BY <1>1
<1>4. SameEvent(meant[1], call) /\ truthful'
  BY <1>1, <1>2, <1>3
<1>5. /\ ring' \in Seq(Words) /\ meant' \in Seq(S)
      /\ Len(ring') = Len(ring) - 1 /\ Len(meant') = Len(ring) - 1
      /\ \A i \in 1 .. Len(ring) - 1 : ring'[i] = ring[i + 1] /\ meant'[i] = meant[i + 1]
  BY <1>1, <1>2, <1>3
<1>6. \A i \in 1 .. Len(ring') : SameEvent(meant'[i], Told(ring'[i]))
  <2>1. ASSUME NEW i \in 1 .. Len(ring') PROVE SameEvent(meant'[i], Told(ring'[i]))
    <3>1. i + 1 \in 1 .. Len(ring) /\ ring'[i] = ring[i + 1] /\ meant'[i] = meant[i + 1]
      BY <1>3, <1>5
    <3>2. QED
      BY <1>1, <3>1
  <2>2. QED
    BY <2>1
<1>7. Truthful'
  <2>1. \A i \in 1 .. Len(ring') :
          SameEvent(meant'[i], IF device' = "mouse" THEN Call(ring'[i], Class(ring'[i])) ELSE TouchCall(ring'[i]))
    BY <1>2, <1>6 DEF Told
  <2>2. QED
    BY <1>4, <1>5, <2>1 DEF Truthful, SameEvent, Narrowed
<1>8. QED
  BY <1>2, <1>3, <1>4, <1>5, <1>7 DEF S

\* A listener of the mouse hears the oldest event.
LEMMA MouseHears ==
  ASSUME PointerTypes, Truthful, WillBeKnown, DispatchMouse
  PROVE  /\ Truthful' /\ WillBeKnown' /\ ring' \in Seq(Words) /\ meant' \in Seq(MouseEvents)
         /\ known' = [x \in Things |-> known'[x]]
<1>1. device = "mouse" /\ ring # <<>>
  BY DEF DispatchMouse
<1>2. PICK call : call = Call(ring[1], Class(ring[1]))
  OBVIOUS
<1>3. /\ DispatchOne(call)
      /\ known' = IF call.kind = "button" /\ call.action # Repeat /\ call.id \in Buttons
                  THEN [known EXCEPT ![call.id] = <<call.action>>] ELSE known
  BY <1>2 DEF DispatchMouse
<1>4. UNCHANGED <<device, button, touch, contact, refused>>
  BY <1>3 DEF DispatchOne
<1> DEFINE e == meant[1]
<1>5. /\ Truthful' /\ SameEvent(e, call) /\ meant # <<>> /\ meant' = Tail(meant)
      /\ ring' \in Seq(Words) /\ meant' \in Seq(MouseEvents) /\ meant \in Seq(MouseEvents) /\ e \in MouseEvents
  BY <1>1, <1>2, <1>3, TruthHeard DEF PointerTypes
<1>6. /\ e.kind = call.kind /\ e.kind # "touch"
      /\ e.kind = "button" => /\ call.id = e.id /\ call.action = e.action /\ e.id \in Buttons
                              /\ e.action \in 0 .. 2
  <2>1. e.kind = call.kind
    BY <1>5 DEF SameEvent
  <2>2. e.kind # "touch" /\ (e.kind = "button" => e \in ButtonEvents)
    BY <1>5 DEF MouseEvents, ButtonEvents, MotionEvents, DragEvents, ZoomEvents
  <2>3. ASSUME e \in ButtonEvents PROVE "id" \in DOMAIN e \ {"to"} /\ "action" \in DOMAIN e \ {"to"}
                                        /\ e.id \in Buttons /\ e.action \in 0 .. 2
    BY <2>3 DEF ButtonEvents
  <2>4. QED
    BY <1>5, <2>1, <2>2, <2>3 DEF SameEvent
<1> HIDE DEF e
<1>7. known = [x \in Things |-> known[x]] /\ Buttons \subseteq Things
  BY DEF PointerTypes, Things
<1>8. /\ \A x \in Things : known'[x] = IF Settles(e, x) THEN <<e.action>> ELSE known[x]
      /\ known' = [x \in Things |-> known'[x]]
  <2>1. CASE e.kind = "button" /\ e.action # Repeat
    <3>1. known' = [known EXCEPT ![e.id] = <<e.action>>] /\ e.id \in Things
      BY <1>3, <1>6, <1>7, <2>1
    <3>2. \A x : Settles(e, x) <=> e.id = x
      BY <1>6, <2>1 DEF Settles
    <3>3. QED
      BY <1>7, <3>1, <3>2
  <2>2. CASE ~(e.kind = "button" /\ e.action # Repeat)
    <3>1. known' = known
      BY <1>3, <1>6, <2>2
    <3>2. \A x : ~Settles(e, x)
      BY <1>6, <2>2 DEF Settles
    <3>3. QED
      BY <1>7, <3>1, <3>2
  <2>3. QED
    BY <2>1, <2>2
<1>9. ASSUME NEW x \in Buttons, ~refused[x]
      PROVE  \/ LastIs(meant', x, IF button[x].pressTime # 0 THEN Down ELSE Up)
             \/ NoneAfter(meant', x, 0) /\ ((button[x].pressTime # 0) = (known'[x] = <<Down>>))
  <2> DEFINE a == IF button[x].pressTime # 0 THEN Down ELSE Up
  <2>1. LastIs(meant, x, a) \/ (NoneAfter(meant, x, 0) /\ ((button[x].pressTime # 0) = (known[x] = <<Down>>)))
    BY <1>1, <1>9 DEF WillBeKnown
  <2>2. CASE LastIs(meant, x, a) /\ ~LastIs(meant', x, a)
    <3>1. Settles(e, x) /\ e.action = a /\ NoneAfter(meant', x, 0)
      BY <1>5, <2>2, SettledHeard DEF e
    <3>2. known'[x] = <<a>>
      BY <1>7, <1>8, <3>1
    <3>3. (button[x].pressTime # 0) = (known'[x] = <<Down>>)
      BY <3>2 DEF Down, Up
    <3>4. QED
      BY <3>1, <3>3
  <2>3. CASE NoneAfter(meant, x, 0) /\ ((button[x].pressTime # 0) = (known[x] = <<Down>>))
    <3>1. NoneAfter(meant', x, 0) /\ ~Settles(e, x)
      BY <1>5, <2>3, SettledHeard DEF e
    <3>2. known'[x] = known[x]
      BY <1>7, <1>8, <3>1
    <3>3. QED
      BY <2>3, <3>1, <3>2
  <2>4. QED
    BY <2>1, <2>2, <2>3
<1>10. WillBeKnown'
  BY <1>1, <1>4, <1>9 DEF WillBeKnown
<1>11. QED
  BY <1>5, <1>8, <1>10

\* A listener of the trackpad hears the oldest event, with the position of now.
LEMMA TouchHears ==
  ASSUME PointerTypes, Truthful, WillBeKnown, DispatchTouch
  PROVE  /\ Truthful' /\ WillBeKnown' /\ ring' \in Seq(Words) /\ meant' \in Seq(TouchEvents)
         /\ known' = [x \in Things |-> known'[x]]
<1>1. device = "touch" /\ ring # <<>>
  BY DEF DispatchTouch
<1>2. PICK call : call = TouchCall(ring[1])
  OBVIOUS
<1>3. /\ DispatchOne(call)
      /\ known' = [known EXCEPT ![call.id] = <<call.action, contact[call.id]>>]
  BY <1>2 DEF DispatchTouch
<1>4. UNCHANGED <<device, button, touch, contact, refused>>
  BY <1>3 DEF DispatchOne
<1> DEFINE e == meant[1]
<1>5. /\ Truthful' /\ SameEvent(e, call) /\ meant # <<>> /\ meant' = Tail(meant)
      /\ ring' \in Seq(Words) /\ meant' \in Seq(TouchEvents) /\ meant \in Seq(TouchEvents) /\ e \in TouchEvents
  BY <1>1, <1>2, <1>3, TruthHeard DEF PointerTypes
<1>6. e.kind = "touch" /\ call.id = e.id /\ call.action = e.action /\ e.id \in Contacts
  <2>1. /\ e.kind = "touch" /\ e.id \in Contacts
        /\ "id" \in DOMAIN e \ {"to"} /\ "action" \in DOMAIN e \ {"to"}
    BY <1>5 DEF TouchEvents
  <2>2. QED
    BY <1>5, <2>1 DEF SameEvent
<1> HIDE DEF e
<1>7. known = [x \in Things |-> known[x]] /\ Contacts \subseteq Things
  BY DEF PointerTypes, Things
<1>8. /\ \A x \in Things : known'[x] = IF x = e.id THEN <<e.action, contact[x]>> ELSE known[x]
      /\ known' = [x \in Things |-> known'[x]]
      /\ \A x : Settles(e, x) <=> x = e.id
  <2>1. known' = [known EXCEPT ![e.id] = <<e.action, contact[e.id]>>] /\ e.id \in Things
    BY <1>3, <1>6, <1>7
  <2>2. \A x : Settles(e, x) <=> x = e.id
    BY <1>6 DEF Settles
  <2>3. QED
    BY <1>7, <2>1, <2>2
<1>9. ASSUME NEW x \in Contacts, ~refused[x]
      PROVE  \/ LastIs(meant', x, touch[x].action)
             \/ NoneAfter(meant', x, 0) /\ known'[x] \in {<<>>, <<touch[x].action, contact[x]>>}
  <2> DEFINE a == touch[x].action
  <2>1. LastIs(meant, x, a) \/ (NoneAfter(meant, x, 0) /\ known[x] \in {<<>>, <<a, contact[x]>>})
    BY <1>1, <1>9 DEF WillBeKnown
  <2>2. CASE LastIs(meant, x, a) /\ ~LastIs(meant', x, a)
    <3>1. Settles(e, x) /\ e.action = a /\ NoneAfter(meant', x, 0)
      BY <1>5, <2>2, SettledHeard DEF e
    <3>2. known'[x] = <<a, contact[x]>>
      BY <1>7, <1>8, <3>1
    <3>3. QED
      BY <3>1, <3>2
  <2>3. CASE NoneAfter(meant, x, 0) /\ known[x] \in {<<>>, <<a, contact[x]>>}
    <3>1. NoneAfter(meant', x, 0) /\ ~Settles(e, x)
      BY <1>5, <2>3, SettledHeard DEF e
    <3>2. known'[x] = known[x]
      BY <1>7, <1>8, <3>1
    <3>3. QED
      BY <2>3, <3>1, <3>2
  <2>4. QED
    BY <2>1, <2>2, <2>3
<1>10. WillBeKnown'
  BY <1>1, <1>4, <1>9 DEF WillBeKnown
<1>11. QED
  BY <1>5, <1>8, <1>10

-----------------------------------------------------------------------------
(* Clicks *)

\* The same as Follows and ClicksAreCounted, of the presses q of one button.
FollowsIn(q, i) ==
  /\ q[i].since # 0 /\ q[i].at - q[i].since < ClickWindow
  /\ q[i].mods = q[i - 1].mods
LastSequence(q, n) ==
  /\ n <= Len(q)
  /\ \A i \in Len(q) - n + 2 .. Len(q) : FollowsIn(q, i)
  /\ n \in 1 .. Len(q) - 1 => ~FollowsIn(q, Len(q) - n + 1)
ClicksOf(b) ==
  /\ LastSequence(downs[b], button[b].taps)
  /\ downs[b] # <<>> =>
       button[b].taps # 0 /\ downs[b][Len(downs[b])].mods = button[b].lastTapMods
ClicksOfAll == \A b \in Buttons : ClicksOf(b)

\* What ClicksInOrder says, button by button.
LEMMA ClicksByButton == ClicksInOrder <=> ClicksOfAll
BY DEF ClicksOfAll, ClicksInOrder, ClicksAreCounted, ClicksOf, LastSequence, Follows, FollowsIn

\* A press that follows the last one makes the sequence longer, another begins one.
LEMMA SequenceGrows ==
  ASSUME NEW D, NEW q \in Seq(D), NEW t \in Nat, LastSequence(q, t), q # <<>> => t # 0,
         NEW d, NEW n \in Nat,
         n = IF q = <<>> \/ FollowsIn(Append(q, d), Len(q) + 1) THEN t + 1 ELSE 1
  PROVE  LastSequence(Append(q, d), n)
<1> DEFINE r == Append(q, d)
<1>1. PICK L \in Nat : L = Len(q)
  OBVIOUS
<1>2. /\ Len(r) = L + 1 /\ \A i \in 1 .. L : r[i] = q[i]
      /\ q = <<>> <=> L = 0
  BY <1>1
<1>3. n = IF L = 0 \/ FollowsIn(r, L + 1) THEN t + 1 ELSE 1
  BY <1>1, <1>2
<1> HIDE DEF r
<1>4. /\ t <= L /\ (L # 0 => t # 0)
      /\ \A i \in L - t + 2 .. L : FollowsIn(q, i)
      /\ t \in 1 .. L - 1 => ~FollowsIn(q, L - t + 1)
  BY <1>1, <1>2 DEF LastSequence
<1>5. \A i \in 2 .. L : FollowsIn(r, i) <=> FollowsIn(q, i)
  <2>1. ASSUME NEW i \in 2 .. L PROVE FollowsIn(r, i) <=> FollowsIn(q, i)
    <3>1. i \in 1 .. L /\ i - 1 \in 1 .. L
      OBVIOUS
    <3>2. r[i] = q[i] /\ r[i - 1] = q[i - 1]
      BY <1>2, <3>1
    <3>3. QED
      BY <3>2 DEF FollowsIn
  <2>2. QED
    BY <2>1
<1>6. CASE L = 0
  <2>1. t = 0 /\ n = 1
    BY <1>3, <1>4, <1>6
  <2>2. QED
    BY <1>2, <1>6, <2>1 DEF LastSequence, r
<1>7. CASE L # 0 /\ FollowsIn(r, L + 1)
  <2>1. n = t + 1 /\ t # 0
    BY <1>3, <1>4, <1>7
  <2>2. \A i \in (L + 1) - n + 2 .. L + 1 : FollowsIn(r, i)
    <3>1. ASSUME NEW i \in (L + 1) - n + 2 .. L + 1 PROVE FollowsIn(r, i)
      <4>1. i = L + 1 \/ (i \in L - t + 2 .. L /\ i \in 2 .. L)
        BY <1>4, <2>1
      <4>2. QED
        BY <1>4, <1>5, <1>7, <4>1
    <3>2. QED
      BY <3>1
  <2>3. ASSUME n \in 1 .. L PROVE ~FollowsIn(r, (L + 1) - n + 1)
    <3>1. (L + 1) - n + 1 = L - t + 1 /\ t \in 1 .. L - 1 /\ L - t + 1 \in 2 .. L
      BY <2>1, <2>3
    <3>2. QED
      BY <1>4, <1>5, <3>1
  <2>4. n <= L + 1 /\ (L + 1) - 1 = L
    BY <1>4, <2>1
  <2>5. QED
    BY <1>2, <2>2, <2>3, <2>4 DEF LastSequence, r
<1>8. CASE L # 0 /\ ~FollowsIn(r, L + 1)
  <2>1. n = 1
    BY <1>3, <1>8
  <2>2. (L + 1) - n + 1 = L + 1 /\ n <= L + 1 /\ \A i : i \notin (L + 1) - n + 2 .. L + 1
    BY <2>1
  <2>3. QED
    BY <1>2, <1>8, <2>2 DEF LastSequence, r
<1>9. QED
  BY <1>6, <1>7, <1>8

\* A press goes on with the sequence of its button or begins one.
LEMMA ClicksPressed ==
  ASSUME PointerTypes, ClicksInOrder, NEW b \in Buttons, NEW mods \in Masks, Press(b, mods)
  PROVE  /\ ClicksInOrder' /\ button' \in [Buttons -> ButtonSlots]
         /\ downs' \in [Buttons -> Seq([at : Nat, mods : Nat, since : Nat])]
         /\ button'[b].pressTime = time /\ \A x \in Buttons \ {b} : button'[x] = button[x]
<1> DEFINE D == [at : Nat, mods : Nat, since : Nat]
<1>1. PICK s \in ButtonSlots : s = button[b]
  BY DEF PointerTypes
<1>2. PICK q \in Seq(D) : q = downs[b]
  BY DEF PointerTypes
<1>3. time \in Nat /\ mods \in Nat
  <2>1. Masks \subseteq 0 .. 15 /\ PointerTime \in Nat
    BY PointerAssumption
  <2>2. time \in 1 .. PointerTime
    BY DEF PointerTypes
  <2>3. QED
    BY <2>1, <2>2
<1>4. /\ s.pressTime \in Nat /\ s.taps \in Nat /\ s.lastRelease \in Nat /\ s.lastTapMods \in Nat
  BY <1>1 DEF ButtonSlots
<1>5. PICK d \in D : d = [at |-> time, mods |-> mods, since |-> s.lastRelease]
  BY <1>3, <1>4
<1>6. PICK n \in Nat : n = Clicks(s, mods)
  BY <1>4 DEF Clicks
<1>7. PICK new : new = [pressTime |-> time, lastRelease |-> s.lastRelease, taps |-> n, lastTapMods |-> mods]
  OBVIOUS
<1>8. new \in ButtonSlots /\ new.taps = n /\ new.lastTapMods = mods /\ new.pressTime = time
  BY <1>3, <1>4, <1>7 DEF ButtonSlots
<1>9. /\ button \in [Buttons -> ButtonSlots] /\ downs \in [Buttons -> Seq(D)]
  BY DEF PointerTypes
<1>10. button' = [button EXCEPT ![b] = new] /\ downs' = [downs EXCEPT ![b] = Append(q, d)]
  <2>1. button' = [button EXCEPT ![b] = [s EXCEPT !.taps = n, !.lastTapMods = mods, !.pressTime = time]]
    BY <1>1, <1>6, <1>9 DEF Press
  <2>2. [s EXCEPT !.taps = n, !.lastTapMods = mods, !.pressTime = time] = new
    <3> DEFINE r == [s EXCEPT !.taps = n, !.lastTapMods = mods, !.pressTime = time]
    <3>1. DOMAIN s = {"pressTime", "lastRelease", "taps", "lastTapMods"}
      BY <1>1 DEF ButtonSlots
    <3>2. /\ r = [f \in DOMAIN s |-> r[f]]
          /\ r.pressTime = time /\ r.taps = n /\ r.lastTapMods = mods /\ r.lastRelease = s.lastRelease
      BY <3>1
    <3>3. new = [f \in DOMAIN s |-> new[f]]
      BY <1>7, <3>1
    <3> HIDE DEF r
    <3>4. \A f \in DOMAIN s : r[f] = new[f]
      BY <1>7, <3>1, <3>2
    <3>5. r = new
      BY <3>2, <3>3, <3>4
    <3>6. QED
      BY <3>5 DEF r
  <2>3. downs' = [downs EXCEPT ![b] = Append(q, d)]
    BY <1>1, <1>2, <1>5, <1>9 DEF Press
  <2>4. QED
    BY <2>1, <2>2, <2>3
<1> HIDE DEF D
<1>11. /\ button'[b] = new /\ downs'[b] = Append(q, d)
       /\ \A x \in Buttons \ {b} : button'[x] = button[x] /\ downs'[x] = downs[x]
       /\ button' \in [Buttons -> ButtonSlots] /\ downs' \in [Buttons -> Seq(D)]
  <2>1. Append(q, d) \in Seq(D)
    OBVIOUS
  <2>2. QED
    BY <1>8, <1>9, <1>10, <2>1
<1>12. LastSequence(q, s.taps) /\ (q # <<>> => s.taps # 0 /\ q[Len(q)].mods = s.lastTapMods)
  BY <1>1, <1>2, ClicksByButton DEF ClicksOfAll, ClicksOf
<1>13. /\ Len(q) \in Nat /\ Len(Append(q, d)) = Len(q) + 1 /\ Append(q, d)[Len(q) + 1] = d
       /\ q # <<>> => Append(q, d)[Len(q)] = q[Len(q)]
       /\ Append(q, d) # <<>> /\ (Len(q) + 1) - 1 = Len(q)
  OBVIOUS
<1>14. q # <<>> => (FollowsIn(Append(q, d), Len(q) + 1)
                      <=> s.lastRelease # 0 /\ time - s.lastRelease < ClickWindow /\ mods = s.lastTapMods)
  <2>1. d.at = time /\ d.mods = mods /\ d.since = s.lastRelease
    BY <1>5
  <2>2. QED
    BY <1>12, <1>13, <2>1 DEF FollowsIn
<1>15. n = IF q = <<>> \/ FollowsIn(Append(q, d), Len(q) + 1) THEN s.taps + 1 ELSE 1
  <2>1. CASE q = <<>>
    <3>1. s.taps = 0
      BY <1>4, <1>12, <2>1 DEF LastSequence
    <3>2. QED
      BY <1>6, <2>1, <3>1 DEF Clicks
  <2>2. CASE q # <<>>
    BY <1>6, <1>14, <2>2 DEF Clicks
  <2>3. QED
    BY <2>1, <2>2
<1>16. LastSequence(Append(q, d), n)
  BY <1>4, <1>12, <1>15, SequenceGrows
<1>17. n # 0
  BY <1>4, <1>15
<1>18. Append(q, d)[Len(Append(q, d))].mods = mods
  <2>1. Append(q, d)[Len(Append(q, d))] = d
    BY <1>13
  <2>2. QED
    BY <1>5, <2>1
<1>19. ASSUME NEW x \in Buttons PROVE ClicksOf(x)'
  <2>1. CASE x = b
    BY <1>8, <1>11, <1>16, <1>17, <1>18, <2>1 DEF ClicksOf
  <2>2. CASE x # b
    <3>1. ClicksOf(x) /\ button'[x] = button[x] /\ downs'[x] = downs[x]
      BY <1>11, <2>2, ClicksByButton DEF ClicksOfAll
    <3>2. QED
      BY <3>1 DEF ClicksOf
  <2>3. QED
    BY <2>1, <2>2
<1>20. ClicksInOrder'
  <2>1. ClicksInOrder' <=> ClicksOfAll'
    BY ClicksByButton, PTL
  <2>2. QED
    BY <1>19, <2>1 DEF ClicksOfAll
<1>21. QED
  BY <1>8, <1>11, <1>20 DEF D

\* Any other change of the slots of buttons: the clicks stay or are reset.
LEMMA ClicksKept ==
  ASSUME ClicksInOrder,
         \A x \in Buttons : \/ /\ downs'[x] = downs[x] /\ button'[x].taps = button[x].taps
                               /\ button'[x].lastTapMods = button[x].lastTapMods
                            \/ downs'[x] = <<>> /\ button'[x].taps = 0
  PROVE  ClicksInOrder'
<1>1. ASSUME NEW x \in Buttons PROVE ClicksOf(x)'
  <2>1. CASE /\ downs'[x] = downs[x] /\ button'[x].taps = button[x].taps
             /\ button'[x].lastTapMods = button[x].lastTapMods
    <3>1. ClicksOf(x)
      BY ClicksByButton DEF ClicksOfAll
    <3>2. QED
      BY <2>1, <3>1 DEF ClicksOf
  <2>2. CASE downs'[x] = <<>> /\ button'[x].taps = 0
    <3>1. LastSequence(<<>>, 0)
      BY DEF LastSequence
    <3>2. QED
      BY <2>2, <3>1 DEF ClicksOf
  <2>3. QED
    BY <1>1, <2>1, <2>2
<1>2. ClicksInOrder' <=> ClicksOfAll'
  BY ClicksByButton, PTL
<1>3. QED
  BY <1>1, <1>2 DEF ClicksOfAll

-----------------------------------------------------------------------------
(* The invariant of the pointers *)

\* What a step that is no push of a button or touch leaves as it is.
SlotsStay == UNCHANGED <<button, touch, contact, refused, downs>>

\* A press of a button that is up.
LEMMA PressKeeps ==
  ASSUME PointerInv, NEW b \in Buttons, NEW mods \in Masks, Press(b, mods)
  PROVE  PointerInv'
<1>1. PointerTypes /\ Truthful /\ WillBeKnown /\ ClicksInOrder
  BY DEF PointerInv
<1>2. /\ device = "mouse" /\ PushButton(b, Down, mods)
      /\ UNCHANGED <<device, time, truthful, known, touch, contact>>
  BY DEF Press, MayPoint, PushButton
<1>3. /\ ClicksInOrder' /\ button' \in [Buttons -> ButtonSlots]
      /\ downs' \in [Buttons -> Seq([at : Nat, mods : Nat, since : Nat])]
      /\ button'[b].pressTime = time /\ \A x \in Buttons \ {b} : button'[x] = button[x]
  BY <1>1, ClicksPressed
<1>4. Down \in 0 .. 2 /\ Down # Repeat /\ time # 0
  BY <1>1 DEF Down, Repeat, PointerTypes
<1>5. /\ Truthful' /\ WillBeKnown' /\ ring' \in Seq(Words) /\ meant' \in Seq(MouseEvents)
      /\ refused' \in [Things -> BOOLEAN]
  BY <1>1, <1>2, <1>3, <1>4, ButtonTold
<1>6. PointerTypes'
  BY <1>1, <1>2, <1>3, <1>5 DEF PointerTypes
<1>7. QED
  BY <1>3, <1>5, <1>6 DEF PointerInv

\* A press of a button that is down, which the OS repeats.
LEMMA RepeatKeeps ==
  ASSUME PointerInv, NEW b \in Buttons, NEW mods \in Masks, RepeatPress(b, mods)
  PROVE  PointerInv'
<1>1. PointerTypes /\ Truthful /\ WillBeKnown /\ ClicksInOrder
  BY DEF PointerInv
<1>2. /\ device = "mouse" /\ PushButton(b, Repeat, mods)
      /\ UNCHANGED <<device, time, truthful, known, touch, contact, button, downs>>
  BY DEF RepeatPress, MayPoint, PushButton
<1>3. Repeat \in 0 .. 2
  BY DEF Repeat
<1>4. /\ Truthful' /\ WillBeKnown' /\ ring' \in Seq(Words) /\ meant' \in Seq(MouseEvents)
      /\ refused' \in [Things -> BOOLEAN]
  BY <1>1, <1>2, <1>3, ButtonTold
<1>5. PointerTypes'
  BY <1>1, <1>2, <1>4 DEF PointerTypes
<1>6. ClicksInOrder'
  BY <1>1, <1>2, ClicksKept
<1>7. QED
  BY <1>4, <1>5, <1>6 DEF PointerInv

\* A release: the clicks stay, to be gone on with.
LEMMA ReleaseKeeps ==
  ASSUME PointerInv, NEW b \in Buttons, NEW mods \in Masks, Release(b, mods)
  PROVE  PointerInv'
<1>1. PointerTypes /\ Truthful /\ WillBeKnown /\ ClicksInOrder
  BY DEF PointerInv
<1>2. /\ device = "mouse" /\ PushButton(b, Up, mods)
      /\ UNCHANGED <<device, time, truthful, known, touch, contact, downs>>
  BY DEF Release, MayPoint, PushButton
<1>3. PICK s \in ButtonSlots : s = button[b]
  BY <1>1 DEF PointerTypes
<1>4. PICK new : new = [pressTime |-> 0, lastRelease |-> time, taps |-> s.taps, lastTapMods |-> s.lastTapMods]
  OBVIOUS
<1>5. time \in Nat /\ button \in [Buttons -> ButtonSlots]
  BY <1>1, PointerAssumption DEF PointerTypes
<1>6. new \in ButtonSlots /\ new.taps = s.taps /\ new.lastTapMods = s.lastTapMods /\ new.pressTime = 0
  BY <1>3, <1>4, <1>5 DEF ButtonSlots
<1>7. button' = [button EXCEPT ![b] = new]
  <2>1. button' = [button EXCEPT ![b] = [s EXCEPT !.lastRelease = time, !.pressTime = 0]]
    BY <1>3, <1>5 DEF Release
  <2>2. [s EXCEPT !.lastRelease = time, !.pressTime = 0] = new
    <3> DEFINE r == [s EXCEPT !.lastRelease = time, !.pressTime = 0]
    <3>1. DOMAIN s = {"pressTime", "lastRelease", "taps", "lastTapMods"}
      BY <1>3 DEF ButtonSlots
    <3>2. /\ r = [f \in DOMAIN s |-> r[f]]
          /\ r.pressTime = 0 /\ r.lastRelease = time /\ r.taps = s.taps /\ r.lastTapMods = s.lastTapMods
      BY <3>1
    <3>3. new = [f \in DOMAIN s |-> new[f]]
      BY <1>4, <3>1
    <3> HIDE DEF r
    <3>4. \A f \in DOMAIN s : r[f] = new[f]
      BY <1>4, <3>1, <3>2
    <3>5. r = new
      BY <3>2, <3>3, <3>4
    <3>6. QED
      BY <3>5 DEF r
  <2>3. QED
    BY <2>1, <2>2
<1>8. /\ button' \in [Buttons -> ButtonSlots] /\ button'[b] = new
      /\ \A x \in Buttons \ {b} : button'[x] = button[x]
  BY <1>5, <1>6, <1>7
<1>9. Up \in 0 .. 2 /\ Up # Repeat /\ Up # Down
  BY DEF Up, Repeat, Down
<1>10. /\ Truthful' /\ WillBeKnown' /\ ring' \in Seq(Words) /\ meant' \in Seq(MouseEvents)
       /\ refused' \in [Things -> BOOLEAN]
  <2>1. /\ \A x \in Buttons \ {b} : button'[x].pressTime = button[x].pressTime
        /\ Up = Repeat => button'[b].pressTime = button[b].pressTime
        /\ Up # Repeat => (button'[b].pressTime # 0 <=> Up = Down)
    BY <1>6, <1>8, <1>9
  <2>2. QED
    BY <1>1, <1>2, <1>9, <2>1, ButtonTold
<1>11. PointerTypes'
  BY <1>1, <1>2, <1>8, <1>10 DEF PointerTypes
<1>12. ClicksInOrder'
  <2>1. ASSUME NEW x \in Buttons
        PROVE  /\ downs'[x] = downs[x] /\ button'[x].taps = button[x].taps
               /\ button'[x].lastTapMods = button[x].lastTapMods
    BY <1>2, <1>3, <1>6, <1>8
  <2>2. QED
    BY <1>1, <2>1, ClicksKept
<1>13. QED
  BY <1>10, <1>11, <1>12 DEF PointerInv

\* The game loop takes the clicks of a button back.
LEMMA TapsResetKeep ==
  ASSUME PointerInv, NEW b \in Buttons, ResetTaps(b)
  PROVE  PointerInv'
<1>1. PointerTypes /\ Truthful /\ WillBeKnown /\ ClicksInOrder
  BY DEF PointerInv
<1>2. /\ UNCHANGED <<device, time, touch, contact, ring, meant, truthful, known, refused>>
      /\ button' = [button EXCEPT ![b].taps = 0] /\ downs' = [downs EXCEPT ![b] = <<>>]
  BY DEF ResetTaps
<1>3. /\ button \in [Buttons -> ButtonSlots]
      /\ downs \in [Buttons -> Seq([at : Nat, mods : Nat, since : Nat])]
  BY <1>1 DEF PointerTypes
<1>4. PICK s \in ButtonSlots : s = button[b]
  BY <1>3
<1>5. PICK new : new = [s EXCEPT !.taps = 0]
  OBVIOUS
<1>6. new \in ButtonSlots /\ new.taps = 0 /\ new.pressTime = s.pressTime
  BY <1>5 DEF ButtonSlots
<1>7. /\ button' \in [Buttons -> ButtonSlots] /\ button'[b] = new
      /\ \A x \in Buttons \ {b} : button'[x] = button[x]
  BY <1>2, <1>3, <1>4, <1>5, <1>6
<1>8. /\ downs' \in [Buttons -> Seq([at : Nat, mods : Nat, since : Nat])] /\ downs'[b] = <<>>
      /\ \A x \in Buttons \ {b} : downs'[x] = downs[x]
  <2>1. <<>> \in Seq([at : Nat, mods : Nat, since : Nat])
    OBVIOUS
  <2>2. QED
    BY <1>2, <1>3, <2>1
<1>9. PointerTypes'
  BY <1>1, <1>2, <1>7, <1>8 DEF PointerTypes
<1>10. Truthful'
  BY <1>1, <1>2 DEF Truthful
<1>11. \A x \in Buttons : button'[x].pressTime = button[x].pressTime
  BY <1>4, <1>6, <1>7
<1>12. WillBeKnown'
  BY <1>1, <1>2, <1>11 DEF WillBeKnown
<1>13. ClicksInOrder'
  <2>1. ASSUME NEW x \in Buttons
        PROVE  \/ /\ downs'[x] = downs[x] /\ button'[x].taps = button[x].taps
                  /\ button'[x].lastTapMods = button[x].lastTapMods
               \/ downs'[x] = <<>> /\ button'[x].taps = 0
    BY <1>6, <1>7, <1>8
  <2>2. QED
    BY <1>1, <2>1, ClicksKept
<1>14. QED
  BY <1>9, <1>10, <1>12, <1>13 DEF PointerInv

\* Any motion that is heard as what it is.
LEMMA MotionKeeps ==
  ASSUME PointerInv, NEW w \in Words, NEW e \in MotionEvents \cup DragEvents \cup ZoomEvents,
         SameEvent(e, Call(w, Class(w))), PushMotion(w, e)
  PROVE  PointerInv'
<1>1. PointerTypes /\ Truthful /\ WillBeKnown /\ ClicksInOrder
  BY DEF PointerInv
<1>2. device = "mouse" /\ UNCHANGED <<device, time, truthful, known>> /\ SlotsStay
  BY DEF PushMotion, MayPoint, SlotsStay
<1>3. Truthful' /\ WillBeKnown' /\ ring' \in Seq(Words) /\ meant' \in Seq(MouseEvents)
  BY <1>1, MotionTold
<1>4. PointerTypes'
  BY <1>1, <1>2, <1>3 DEF PointerTypes, SlotsStay
<1>5. ClicksInOrder'
  BY <1>1, <1>2, ClicksKept DEF SlotsStay
<1>6. QED
  BY <1>3, <1>4, <1>5 DEF PointerInv

\* A touch.
LEMMA TouchKeeps ==
  ASSUME PointerInv, NEW c \in Contacts, NEW action \in 0 .. 3, NEW p \in Points, PushTouch(c, action, p)
  PROVE  PointerInv'
<1>1. PointerTypes /\ Truthful /\ WillBeKnown /\ ClicksInOrder
  BY DEF PointerInv
<1>2. /\ device = "touch" /\ UNCHANGED <<device, time, truthful, known, button, downs>>
      /\ contact' = [contact EXCEPT ![c] = p]
  BY DEF PushTouch, MayPoint
<1>3. /\ Truthful' /\ WillBeKnown' /\ ring' \in Seq(Words) /\ meant' \in Seq(TouchEvents)
      /\ refused' \in [Things -> BOOLEAN] /\ touch' \in [Contacts -> TouchSlots]
  BY <1>1, TouchTold
<1>4. contact' \in [Contacts -> Points \cup {<<0, 0>>}]
  BY <1>1, <1>2 DEF PointerTypes
<1>5. PointerTypes'
  BY <1>1, <1>2, <1>3, <1>4 DEF PointerTypes
<1>6. ClicksInOrder'
  BY <1>1, <1>2, ClicksKept
<1>7. QED
  BY <1>3, <1>5, <1>6 DEF PointerInv

\* The game loop dispatches a word.
LEMMA DispatchKeeps ==
  ASSUME PointerInv, DispatchMouse \/ DispatchTouch
  PROVE  PointerInv'
<1>1. PointerTypes /\ Truthful /\ WillBeKnown /\ ClicksInOrder
  BY DEF PointerInv
<1>2. UNCHANGED <<device, time>> /\ SlotsStay
  BY DEF DispatchMouse, DispatchTouch, DispatchOne, SlotsStay
<1>3. /\ Truthful' /\ WillBeKnown' /\ ring' \in Seq(Words) /\ known' = [x \in Things |-> known'[x]]
      /\ meant' \in Seq(IF device = "mouse" THEN MouseEvents ELSE TouchEvents)
  <2>1. CASE DispatchMouse
    <3>1. device = "mouse"
      BY <2>1 DEF DispatchMouse
    <3>2. QED
      BY <1>1, <2>1, <3>1, MouseHears
  <2>2. CASE DispatchTouch
    <3>1. device # "mouse"
      BY <2>2 DEF DispatchTouch
    <3>2. QED
      BY <1>1, <2>2, <3>1, TouchHears
  <2>3. QED
    BY <2>1, <2>2
<1>4. PointerTypes'
  BY <1>1, <1>2, <1>3 DEF PointerTypes, SlotsStay
<1>5. ClicksInOrder'
  BY <1>1, <1>2, ClicksKept DEF SlotsStay
<1>6. QED
  BY <1>3, <1>4, <1>5 DEF PointerInv

\* Every step keeps it.
LEMMA PointerKept == PointerInv /\ [PointerNext]_pointerVars => PointerInv'
<1> SUFFICES ASSUME PointerInv, [PointerNext]_pointerVars PROVE PointerInv'
  OBVIOUS
<1>1. ASSUME NEW b \in Buttons, NEW mods \in Masks, Press(b, mods) \/ RepeatPress(b, mods) \/ Release(b, mods)
      PROVE  PointerInv'
  BY <1>1, PressKeeps, RepeatKeeps, ReleaseKeeps
<1>2. ASSUME NEW b \in Buttons, ResetTaps(b) PROVE PointerInv'
  BY <1>2, TapsResetKeep
<1>3. ASSUME NEW p \in Points, PushMove(p) PROVE PointerInv'
  <2> DEFINE w == PackCoords(255, 5, p)
             e == [kind |-> "move", to |-> p]
  <2>1. w \in Words /\ e \in MotionEvents /\ SameEvent(e, Call(w, Class(w)))
    BY MotionIsHeard
  <2>2. PushMotion(w, e)
    BY <1>3 DEF PushMove
  <2> HIDE DEF w, e
  <2>3. QED
    BY <2>1, <2>2, MotionKeeps
<1>4. ASSUME NEW p \in Points, PushDelta(p) PROVE PointerInv'
  <2> DEFINE w == PackCoords(255, 9, p)
             e == [kind |-> "delta", to |-> p]
  <2>1. w \in Words /\ e \in MotionEvents /\ SameEvent(e, Call(w, Class(w)))
    BY MotionIsHeard
  <2>2. PushMotion(w, e)
    BY <1>4 DEF PushDelta
  <2> HIDE DEF w, e
  <2>3. QED
    BY <2>1, <2>2, MotionKeeps
<1>5. ASSUME NEW p \in Points, PushScroll(p) PROVE PointerInv'
  <2> DEFINE w == PackCoords(254, 6, <<Clamped(p[1]), Clamped(p[2])>>)
             e == [kind |-> "scroll", to |-> p]
  <2>1. w \in Words /\ e \in MotionEvents /\ SameEvent(e, Call(w, Class(w)))
    BY ScrollIsHeard
  <2>2. PushMotion(w, e)
    BY <1>5 DEF PushScroll
  <2> HIDE DEF w, e
  <2>3. QED
    BY <2>1, <2>2, MotionKeeps
<1>6. ASSUME NEW b \in Buttons, NEW p \in Points, PushDrag(b, p) PROVE PointerInv'
  <2> DEFINE w == PackCoords(b, 7, p)
             e == [kind |-> "drag", id |-> b, to |-> p]
  <2>1. w \in Words /\ e \in DragEvents /\ SameEvent(e, Call(w, Class(w)))
    BY DragIsHeard
  <2>2. PushMotion(w, e)
    BY <1>6 DEF PushDrag
  <2> HIDE DEF w, e
  <2>3. QED
    BY <2>1, <2>2, MotionKeeps
<1>7. ASSUME NEW f \in Floats, PushZoom(f) PROVE PointerInv'
  <2> DEFINE w == Word(256 * 255 + 8, f[1], f[2])
             e == [kind |-> "zoom", to |-> f]
  <2>1. w \in Words /\ e \in ZoomEvents /\ SameEvent(e, Call(w, Class(w)))
    BY ZoomIsHeard
  <2>2. PushMotion(w, e)
    BY <1>7 DEF PushZoom
  <2> HIDE DEF w, e
  <2>3. QED
    BY <2>1, <2>2, MotionKeeps
<1>8. ASSUME NEW c \in Contacts, NEW action \in TouchDown .. TouchCancel, NEW p \in Points, PushTouch(c, action, p)
      PROVE  PointerInv'
  <2>1. action \in 0 .. 3
    BY DEF TouchDown, TouchCancel
  <2>2. QED
    BY <1>8, <2>1, TouchKeeps
<1>9. ASSUME DispatchMouse \/ DispatchTouch PROVE PointerInv'
  BY <1>9, DispatchKeeps
<1>10. ASSUME PointerTick \/ UNCHANGED pointerVars PROVE PointerInv'
  <2>1. PointerTypes /\ Truthful /\ WillBeKnown /\ ClicksInOrder
    BY DEF PointerInv
  <2>2. /\ UNCHANGED <<device, button, touch, contact, ring, meant, truthful, known, refused, downs>>
        /\ time' = time \/ (time < PointerTime /\ time' = time + 1)
    BY <1>10 DEF PointerTick, pointerVars
  <2>3. time' \in 1 .. PointerTime
    <3>1. time \in 1 .. PointerTime /\ PointerTime \in Nat
      BY <2>1, PointerAssumption DEF PointerTypes
    <3>2. QED
      BY <2>2, <3>1
  <2>4. PointerTypes'
    BY <2>1, <2>2, <2>3 DEF PointerTypes
  <2>5. Truthful'
    BY <2>1, <2>2 DEF Truthful
  <2>6. WillBeKnown'
    BY <2>1, <2>2 DEF WillBeKnown
  <2>7. ClicksInOrder'
    BY <2>1, <2>2, ClicksKept
  <2>8. QED
    BY <2>4, <2>5, <2>6, <2>7 DEF PointerInv
<1>11. QED
  BY <1>1, <1>2, <1>3, <1>4, <1>5, <1>6, <1>7, <1>8, <1>9, <1>10 DEF PointerNext

\* It holds at the start.
LEMMA PointerBegins == PointerInit => PointerInv
<1> SUFFICES ASSUME PointerInit PROVE PointerInv
  OBVIOUS
<1>1. PointerTypes
  <2>1. /\ device \in {"mouse", "touch"} /\ time = 1 /\ PointerTime \in Nat \ {0}
        /\ ring = <<>> /\ meant = <<>>
    BY PointerAssumption DEF PointerInit
  <2>2. button \in [Buttons -> ButtonSlots] /\ touch \in [Contacts -> TouchSlots]
    BY DEF PointerInit, ButtonSlots, TouchSlots
  <2>3. contact \in [Contacts -> Points \cup {<<0, 0>>}]
    BY DEF PointerInit
  <2>4. known = [x \in Things |-> known[x]] /\ refused \in [Things -> BOOLEAN]
    BY DEF PointerInit, Things
  <2>5. downs \in [Buttons -> Seq([at : Nat, mods : Nat, since : Nat])]
    <3>1. <<>> \in Seq([at : Nat, mods : Nat, since : Nat]) /\ downs = [b \in Buttons |-> <<>>]
      BY DEF PointerInit
    <3>2. QED
      BY <3>1
  <2>6. QED
    BY <2>1, <2>2, <2>3, <2>4, <2>5 DEF PointerTypes
<1>2. Truthful
  BY DEF PointerInit, Truthful
<1>3. WillBeKnown
  <2>1. \A x : NoneAfter(meant, x, 0)
    BY DEF PointerInit, NoneAfter
  <2>2. \A b \in Buttons : button[b].pressTime = 0 /\ known[b] = <<>> /\ known[b] # <<Down>>
    BY DEF PointerInit
  <2>3. \A c \in Contacts : known[c] = <<>>
    BY DEF PointerInit
  <2>4. QED
    BY <2>1, <2>2, <2>3 DEF WillBeKnown
<1>4. ClicksInOrder
  <2>1. ASSUME NEW b \in Buttons PROVE ClicksOf(b)
    <3>1. downs[b] = <<>> /\ button[b].taps = 0 /\ LastSequence(<<>>, 0)
      BY DEF PointerInit, LastSequence
    <3>2. QED
      BY <3>1 DEF ClicksOf
  <2>2. QED
    BY <2>1, ClicksByButton DEF ClicksOfAll
<1>5. QED
  BY <1>1, <1>2, <1>3, <1>4 DEF PointerInv

\* Once the ring is drained there is nothing left to be known of.
LEMMA PointerSays == PointerInv => CallsSayWhatHappened /\ PointersAreKnown /\ ClicksAreCounted
<1> SUFFICES ASSUME PointerInv PROVE CallsSayWhatHappened /\ PointersAreKnown /\ ClicksAreCounted
  OBVIOUS
<1>1. PointerTypes /\ Truthful /\ WillBeKnown /\ ClicksInOrder
  BY DEF PointerInv
<1>2. CallsSayWhatHappened /\ ClicksAreCounted
  BY <1>1 DEF Truthful, CallsSayWhatHappened, ClicksInOrder
<1>3. ASSUME ring = <<>> PROVE DOMAIN meant = {}
  <2>1. Len(meant) = 0 /\ meant \in Seq(IF device = "mouse" THEN MouseEvents ELSE TouchEvents)
    BY <1>1, <1>3 DEF Truthful, PointerTypes
  <2>2. QED
    BY <2>1
<1>4. PointersAreKnown
  BY <1>1, <1>3 DEF PointersAreKnown, WillBeKnown, LastIs
<1>5. QED
  BY <1>2, <1>4

\* The pointers, always.
LEMMA PointersAlways ==
  PointerSpec => [](CallsSayWhatHappened /\ PointersAreKnown /\ ClicksAreCounted)
<1>1. PointerInit => PointerInv
  BY PointerBegins
<1>2. PointerInv /\ [PointerNext]_pointerVars => PointerInv'
  BY PointerKept
<1>3. PointerInv => CallsSayWhatHappened /\ PointersAreKnown /\ ClicksAreCounted
  BY PointerSays
<1>4. QED
  BY <1>1, <1>2, <1>3, PTL DEF PointerSpec

-----------------------------------------------------------------------------
(* What the listeners are told *)

\* What reaches the listeners of keys, buttons, motions and touches is what the pump
\* pushed, and with an empty ring they know the state of the slots: Key_dispatchEvents,
\* Mouse_dispatchEvents and Touch_dispatchEvents, for any keys, buttons, contacts, points,
\* times and capacities.
THEOREM InputReachesTheListeners == KeySpec /\ PointerSpec => []InputIsHeard
BY KeysAlways, PointersAlways, PTL DEF InputIsHeard

\* A tap, a double tap and a long press of KeyMap fire once for the presses they are made
\* of, and the clicks that Mouse_taps counts are those of the last sequence: for any
\* bindings, windows and times, on one thread.
THEOREM GesturesFireAsPressed == KeySpec /\ PointerSpec => []GesturesAreCounted
BY KeysAlways, PointersAlways, PTL DEF GesturesAreCounted

=============================================================================
