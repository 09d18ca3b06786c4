------------------------------ MODULE HashMap ------------------------------
(***************************************************************************)
(* struct/map.c: an open-addressing hash map.  A slot is empty, occupied   *)
(* or a tombstone; a key is looked for from the slot its hash names to the *)
(* next empty one; a removal leaves a tombstone, which a later insertion   *)
(* may reuse.  Before an insertion the table doubles when three quarters   *)
(* of it are occupied, unless there is no memory for that.                 *)
(*                                                                         *)
(* One caller uses a map at a time.  Lookups are bounded loops and are     *)
(* operators here; the probe of Map_put has no bound and is modelled slot  *)
(* by slot.                                                                *)
(***************************************************************************)
EXTENDS Integers, FiniteSets

CONSTANTS
  Keys,
  Values,     \* the values stored: callers that store 0 cannot tell it from none
  Hash,       \* Hash[k] is computeHash of the key
  FirstCap,   \* the capacity Map_3 rounds to: a power of two, at least 4
  MaxCap,     \* the largest capacity there is memory for
  NoKey

ASSUME HashMapAssumption ==
  /\ Hash \in [Keys -> Nat]
  /\ Values \subseteq Nat \ {0}
  /\ FirstCap \in Nat \ {0}
  /\ MaxCap \in Nat
  /\ NoKey \notin Keys

VARIABLES
  slots,        \* the slot array
  activeCount,  \* Collection.activeCount
  exhausted,    \* Collection.exhaustionCount is not 0
  pc,           \* "idle", in the probe of Map_put, or in Map_remove
  arg,          \* the key and the value put, the key removed
  idx,          \* the slot the probe is at
  firstDeleted  \* the first tombstone it met, -1 for none

vars == <<slots, activeCount, exhausted, pc, arg, idx, firstDeleted>>

Blank == [state |-> "empty", key |-> NoKey, val |-> 0]
Tomb == [state |-> "deleted", key |-> NoKey, val |-> 0]
Entry(k, v) == [state |-> "occupied", key |-> k, val |-> v]

BlankTable(cap) == [i \in 0 .. cap - 1 |-> Blank]
Cap(table) == Cardinality(DOMAIN table)

\* The slot i places after the one the hash of a key names.
Probe(cap, k, i) == (Hash[k] + i) % cap

Holds(table, k, s) == table[s].state = "occupied" /\ table[s].key = k

\* The places at which a lookup of k finds it, before any empty slot.
Hits(table, k) ==
  LET cap == Cap(table) IN
  {i \in DOMAIN table :
     /\ Holds(table, k, Probe(cap, k, i))
     /\ \A j \in 0 .. i - 1 : table[Probe(cap, k, j)].state # "empty"}

Least(S) == CHOOSE i \in S : \A j \in S : i <= j

Found(k) == Hits(slots, k) # {}
FoundAt(k) == Probe(Cap(slots), k, Least(Hits(slots, k)))

\* Map_get
Get(k) == IF Found(k) THEN slots[FoundAt(k)].val ELSE 0

\* A variant for checking: each entry goes to the slot its hash names.
PlaceAtHash(table, e) ==
  IF e.state # "occupied" THEN table ELSE [table EXCEPT ![Probe(Cap(table), e.key, 0)] = e]

\* rehash: the entries, in slot order, each at the first free slot of its probe.
\* Tombstones are not copied.
PlaceEntry(table, e) ==
  IF e.state # "occupied" THEN table
  ELSE LET cap == Cap(table)
           free == {i \in DOMAIN table :
                      table[Probe(cap, e.key, i)].state # "occupied"}
       IN [table EXCEPT ![Probe(cap, e.key, Least(free))] = e]

Rehashed(table, cap) ==
  LET filled[i \in 0 .. Cap(table)] ==
        IF i = 0 THEN BlankTable(cap) ELSE PlaceEntry(filled[i - 1], table[i - 1])
  IN  filled[Cap(table)]

\* 0.75 of the capacity
Load(cap) == cap - cap \div 4

Init ==
  /\ slots = BlankTable(FirstCap)
  /\ activeCount = 0
  /\ exhausted = FALSE
  /\ pc = "idle"
  /\ arg = [key |-> NoKey, val |-> 0]
  /\ idx = 0
  /\ firstDeleted = -1

-----------------------------------------------------------------------------
(* Map_put *)

\* The probe begins in the table as it is ...
Begin(table, k, v) ==
  /\ pc = "idle"
  /\ pc' = "probe"
  /\ arg' = [key |-> k, val |-> v]
  /\ slots' = table
  /\ idx' = Probe(Cap(table), k, 0)
  /\ firstDeleted' = -1
  /\ UNCHANGED activeCount

PutCall(k, v) ==
  /\ activeCount < Load(Cap(slots))
  /\ Begin(slots, k, v)
  /\ UNCHANGED exhausted

\* ... or in one twice as large ...
PutGrow(k, v) ==
  /\ activeCount >= Load(Cap(slots))
  /\ 2 * Cap(slots) <= MaxCap
  /\ Begin(Rehashed(slots, 2 * Cap(slots)), k, v)
  /\ UNCHANGED exhausted

\* ... or, when that is refused, in the full one.
PutExhausted(k, v) ==
  /\ activeCount >= Load(Cap(slots))
  /\ Begin(slots, k, v)
  /\ exhausted' = TRUE

Return ==
  /\ pc' = "idle"
  /\ arg' = [key |-> NoKey, val |-> 0]
  /\ idx' = 0
  /\ firstDeleted' = -1

\* The key is there: its value changes.
PutUpdate ==
  /\ pc = "probe"
  /\ Holds(slots, arg.key, idx)
  /\ slots' = [slots EXCEPT ![idx].val = arg.val]
  /\ Return
  /\ UNCHANGED <<activeCount, exhausted>>

\* The probe ends at an empty slot: insert at the first tombstone met, if any.
PutInsert ==
  /\ pc = "probe"
  /\ slots[idx].state = "empty"
  /\ slots' = [slots EXCEPT ![IF firstDeleted = -1 THEN idx ELSE firstDeleted] =
                 Entry(arg.key, arg.val)]
  /\ activeCount' = activeCount + 1
  /\ Return
  /\ UNCHANGED exhausted

\* A variant for checking: the probe skips every second slot.
PutSkipByTwo ==
  /\ pc = "probe"
  /\ slots[idx].state # "empty" /\ ~Holds(slots, arg.key, idx)
  /\ firstDeleted' =
       IF slots[idx].state = "deleted" /\ firstDeleted = -1 THEN idx ELSE firstDeleted
  /\ idx' = (idx + 2) % Cap(slots)
  /\ UNCHANGED <<slots, activeCount, exhausted, pc, arg>>

\* Anything else is passed over, and the first tombstone remembered.
PutSkip ==
  /\ pc = "probe"
  /\ slots[idx].state # "empty" /\ ~Holds(slots, arg.key, idx)
  /\ firstDeleted' =
       IF slots[idx].state = "deleted" /\ firstDeleted = -1 THEN idx ELSE firstDeleted
  /\ idx' = (idx + 1) % Cap(slots)
  /\ UNCHANGED <<slots, activeCount, exhausted, pc, arg>>

Putting == PutUpdate \/ PutInsert \/ PutSkip

-----------------------------------------------------------------------------
(* Map_remove *)

RemoveCall(k) ==
  /\ pc = "idle"
  /\ pc' = "remove"
  /\ arg' = [key |-> k, val |-> 0]
  /\ UNCHANGED <<slots, activeCount, exhausted, idx, firstDeleted>>

\* A variant for checking: the slot is empty afterwards.
RemoveEmpties ==
  /\ pc = "remove"
  /\ Found(arg.key)
  /\ slots' = [slots EXCEPT ![FoundAt(arg.key)] = Blank]
  /\ activeCount' = activeCount - 1
  /\ Return
  /\ UNCHANGED exhausted

\* The slot of the key becomes a tombstone.
RemoveFound ==
  /\ pc = "remove"
  /\ Found(arg.key)
  /\ slots' = [slots EXCEPT ![FoundAt(arg.key)] = Tomb]
  /\ activeCount' = activeCount - 1
  /\ Return
  /\ UNCHANGED exhausted

RemoveNothing ==
  /\ pc = "remove"
  /\ ~Found(arg.key)
  /\ Return
  /\ UNCHANGED <<slots, activeCount, exhausted>>

Removing == RemoveFound \/ RemoveNothing

Next ==
  \/ \E k \in Keys, v \in Values : PutCall(k, v) \/ PutGrow(k, v) \/ PutExhausted(k, v)
  \/ PutUpdate \/ PutInsert \/ PutSkip
  \/ \E k \in Keys : RemoveCall(k)
  \/ RemoveFound \/ RemoveNothing

Spec == Init /\ [][Next]_vars

\* A call that is under way runs on.
FairSpec == Spec /\ WF_vars(Putting \/ Removing)

-----------------------------------------------------------------------------
Occupied == {s \in DOMAIN slots : slots[s].state = "occupied"}

\* The values the variables take.
TypeOK ==
  /\ \A s \in DOMAIN slots :
       slots[s] \in {Blank, Tomb} \cup {Entry(k, v) : k \in Keys, v \in Values}
  /\ Cap(slots) <= MaxCap
  /\ activeCount \in 0 .. Cap(slots)
  /\ exhausted \in BOOLEAN
  /\ pc \in {"idle", "probe", "remove"}
  /\ arg.key \in Keys \cup {NoKey} /\ arg.val \in Values \cup {0}
  /\ idx \in DOMAIN slots
  /\ firstDeleted \in DOMAIN slots \cup {-1}

\* A key is in one slot at most and a lookup reaches it: removals, reuse of
\* tombstones and rehashing leave no empty slot between a key's first slot and
\* the one that holds it.
EveryKeyIsReachable ==
  \A s \in Occupied :
    Found(slots[s].key) /\ FoundAt(slots[s].key) = s

\* size is the number of keys that have a value.
SizeIsKeys == activeCount = Cardinality({k \in Keys : Get(k) # 0})

\* Lookups after any sequence of puts and removals give what the last one of
\* their key left: a call changes the answer for its own key, to its own value,
\* when it returns, and a rehash, refused or not, changes none.
AbstractDictionary == INSTANCE Dictionary WITH map <- [k \in Keys |-> Get(k)], call <- arg
ImplementsDictionary == AbstractDictionary!Spec

HasEmpty == \E s \in DOMAIN slots : slots[s].state = "empty"

\* A put returns when its table has an empty slot.
PutReturnsIfEmptySlot == pc = "probe" /\ HasEmpty ~> pc = "idle"

\* What map.h and map.c say: a put inserts or updates, in a deleted slot if need
\* be; this as long as no growth was refused.
PutReturns == pc = "probe" /\ ~exhausted ~> pc = "idle"
=============================================================================
