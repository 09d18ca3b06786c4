--------------------------- MODULE Lists ---------------------------
(***************************************************************************)
(* struct/list.c, struct/stack.c and struct/array.c: three containers that *)
(* keep their elements side by side behind one Collection header           *)
(* (struct/collection.c).  A slot is as wide as the element class says     *)
(* (oop/stride.c), and a value is cut to that width.  Lists and stacks     *)
(* double a full buffer; an array is as long as it was made.               *)
(*                                                                         *)
(* One caller uses a container at a time.                                  *)
(*                                                                         *)
(* struct/deque.c: a circular buffer over the Collection header.  Logical  *)
(* index i lies in slot (head + i) % capacity; a full buffer is replaced   *)
(* by one of twice the size, which unwraps it.  struct/queue.c is the same *)
(* buffer used at two of its four ends: push is addLast, pop removeFirst.  *)
(*                                                                         *)
(* objects/local.c: a table of values by thread id that doubles until an   *)
(* id fits.                                                                *)
(*                                                                         *)
(* reactive/reactive.c: the observers of a box and the walks that call     *)
(* them, on the thread that owns the box.                                  *)
(*                                                                         *)
(* input/key_map.c: the bindings of a key map.  reflection/: structs of    *)
(* fields and classes of methods.                                          *)
(*                                                                         *)
(* One caller uses a deque, a queue, a table, a box or a record at a time. *)
(***************************************************************************)
EXTENDS Integers, Sequences, FiniteSets

-----------------------------------------------------------------------------
(* Lists, stacks and arrays *)

LX == INSTANCE SequencesExt

CONSTANTS
  ListValues,  \* what callers store, some of it wider than a slot
  SlotMod,     \* 256 to the power of the stride
  ListCap,     \* DEFAULT_CAPACITY
  ListMax,     \* the largest capacity there is memory for
  CapacityMax, \* UINT32_MAX
  MaxRefusals  \* bound: growths refused in one behaviour

ASSUME ListsAssumption ==
  /\ ListValues \subseteq Nat /\ SlotMod \in Nat \ {0}
  /\ ListCap \in Nat \ {0} /\ ListMax \in Nat /\ CapacityMax \in Nat

VARIABLES
  shape,   \* "list", "stack" or "array"
  coll,    \* the header and the buffer
  stored   \* auxiliary: the elements, as wide as a slot

listVars == <<shape, coll, stored>>

Uninitialized == -1   \* what a buffer holds before it is written

\* A container of cap slots, the first count of them in use and all of them zero.
Made(cap, count) ==
  [cap |-> cap, count |-> count, data |-> [s \in 0 .. cap - 1 |-> 0],
   refusals |-> 0, reported |-> FALSE]

AtLeastDefault(capacity) == IF capacity < ListCap THEN ListCap ELSE capacity

\* Collection_readSlot and Collection_writeSlot: bounded by the buffer, not by
\* the elements in use.
ReadSlot(c, i) == IF i < c.cap THEN c.data[i] ELSE 0
WriteSlot(c, i, v) == IF i < c.cap THEN [c EXCEPT !.data[i] = v % SlotMod] ELSE c

\* List_get, Array_get: an index past the last element answers 0.
ElementAt(c, i) == IF i < c.count THEN ReadSlot(c, i) ELSE 0

Reallocated(c, cap) ==
  [c EXCEPT !.cap = cap,
            !.data = [s \in 0 .. cap - 1 |-> IF s < c.count THEN c.data[s] ELSE Uninitialized]]

\* Collection_reportExhaustion: every refusal counts, the first is reported.
Refused(c) == [c EXCEPT !.refusals = @ + 1, !.reported = TRUE]

ListInit ==
  \/ /\ shape = "list"
     /\ \E n \in {0, ListCap + 1} : coll = Made(AtLeastDefault(n), n)
     /\ stored = [i \in 1 .. coll.count |-> 0]
  \/ /\ shape = "stack" /\ stored = <<>>
     /\ \E n \in {0, ListCap + 1} : coll = Made(AtLeastDefault(n), 0)
  \/ /\ shape = "array"
     /\ \E n \in {0, 2} : coll = Made(n, n)
     /\ stored = [i \in 1 .. coll.count |-> 0]

IsFull(c) == c.count >= c.cap
GrownBy(c) == 2 * c.cap

-----------------------------------------------------------------------------
(* List *)

\* List_add; a list without room that cannot grow drops the value.
Added(c, v) == [WriteSlot(c, c.count, v) EXCEPT !.count = @ + 1]

Append1(v) ==
  /\ ~IsFull(coll) \/ GrownBy(coll) <= ListMax
  /\ coll' = Added(IF IsFull(coll) THEN Reallocated(coll, GrownBy(coll)) ELSE coll, v)
  /\ stored' = Append(stored, v % SlotMod)

Refuse ==
  /\ IsFull(coll) /\ GrownBy(coll) > ListMax
  /\ coll.refusals < MaxRefusals
  /\ coll' = Refused(coll)
  /\ UNCHANGED stored

ListAdd(v) == shape = "list" /\ (Append1(v) \/ Refuse) /\ UNCHANGED shape

\* List_addSlot clears the slot: a buffer that grew is not cleared, and a slot
\* that was removed keeps what it held.
ListAddSlot == shape = "list" /\ (Append1(0) \/ Refuse) /\ UNCHANGED shape

\* List_set and Array_set
SetAt(i, v) ==
  /\ shape \in {"list", "array"} /\ i < coll.count
  /\ coll' = WriteSlot(coll, i, v)
  /\ stored' = [stored EXCEPT ![i + 1] = v % SlotMod]
  /\ UNCHANGED shape

\* List_remove: the tail moves down by one slot.
Closed(c, i) ==
  [c EXCEPT !.count = @ - 1,
            !.data = [s \in 0 .. c.cap - 1 |->
                        IF i <= s /\ s < c.count - 1 THEN c.data[s + 1] ELSE c.data[s]]]

ListRemove(i) ==
  /\ shape = "list" /\ i < coll.count
  /\ coll' = Closed(coll, i)
  /\ stored' = LX!RemoveAt(stored, i + 1)
  /\ UNCHANGED shape

\* List_compare of two lists of one stride: the bytes in use.
Compare(c, d) == c.count = d.count /\ \A i \in 0 .. c.count - 1 : c.data[i] = d.data[i]

-----------------------------------------------------------------------------
(* Stack *)

\* Stack_push and Stack_pushTry, which says why it refuses: a capacity that no
\* uint32_t holds is refused before any memory is asked for.
StackPush(v) ==
  /\ shape = "stack"
  /\ \/ Append1(v) /\ (IsFull(coll) => GrownBy(coll) <= CapacityMax)
     \/ Refuse /\ GrownBy(coll) <= CapacityMax
     \/ IsFull(coll) /\ GrownBy(coll) > CapacityMax /\ UNCHANGED <<coll, stored>>
  /\ UNCHANGED shape

\* Stack_peek, and what Stack_pop returns.
StackPeek(c) == IF c.count = 0 THEN 0 ELSE ReadSlot(c, c.count - 1)

StackPop ==
  /\ shape = "stack" /\ coll.count > 0
  /\ coll' = [coll EXCEPT !.count = @ - 1]
  /\ stored' = LX!Front(stored)
  /\ UNCHANGED shape

ListNext ==
  \/ \E v \in ListValues : ListAdd(v) \/ StackPush(v)
  \/ ListAddSlot
  \/ \E i \in 0 .. coll.count - 1 : ListRemove(i) \/ \E v \in ListValues : SetAt(i, v)
  \/ StackPop

ListSpec == ListInit /\ [][ListNext]_listVars

-----------------------------------------------------------------------------
Lists2 == UNION {[1 .. n -> {v % SlotMod : v \in ListValues}] : n \in 0 .. 2}

\* A list equals another that was filled by itself exactly when their elements
\* are equal, whatever capacity each has grown to and whatever it held before.
ComparesElements ==
  shape = "list" =>
    \A s \in Lists2 : Compare(coll, LX!FoldLeft(Added, Made(ListCap, 0), s)) <=> s = stored

\* Whatever was added, set, removed, refused or moved to a larger buffer, an
\* index answers with the element that belongs there, a stack with its newest,
\* and an index past the end with 0.
ListsHoldTheirElements ==
  /\ coll.count = Len(stored)
  /\ \A i \in 0 .. coll.count : ElementAt(coll, i) = IF i < Len(stored) THEN stored[i + 1] ELSE 0
  /\ shape = "stack" => StackPeek(coll) = IF stored = <<>> THEN 0 ELSE LX!Last(stored)
  /\ ComparesElements

-----------------------------------------------------------------------------
(* The deque and the queue *)

CONSTANTS
  Elements,   \* what callers store; a refused read answers 0
  DequeCap,   \* the first capacity, at least DEFAULT_CAPACITY
  DequeMax    \* the largest capacity there is memory for

ASSUME DequeAssumption ==
  /\ Elements \subseteq Nat
  /\ DequeCap \in Nat \ {0} /\ DequeMax \in Nat

VARIABLES
  dqKind,    \* "deque" or "queue"
  dqData,    \* the slots, [0 .. capacity - 1]
  dqCap,
  dqHead,
  dqCount,   \* activeCount
  dqItems    \* auxiliary: the elements from first to last

dequeVars == <<dqKind, dqData, dqCap, dqHead, dqCount, dqItems>>

\* Deque_2, Queue_2 and, for one that starts with zeros in it, Deque_2Count and
\* Queue_2Count (instant).
DequeInit ==
  /\ dqKind \in {"deque", "queue"}
  /\ dqCap = DequeCap /\ dqHead = 0
  /\ dqData = [s \in 0 .. DequeCap - 1 |-> 0]
  /\ dqCount \in {0, DequeCap}
  /\ dqItems = [i \in 1 .. dqCount |-> 0]

Slot(head, i, cap) == (head + i) % cap

\* Deque_get, and with it peekFirst, peekLast and slot.
DequeGet(i) == IF i < dqCount THEN dqData[Slot(dqHead, i, dqCap)] ELSE 0

\* ensureCapacity: the buffer, its capacity and its head before the store.
HasRoom == dqCount < dqCap
CanGrow == dqCap * 2 <= DequeMax

\* A variant for checking: a wrapped buffer is copied as it lies.
GrownAsItLies(s) == IF s < dqCap THEN dqData[s] ELSE 0

\* The tail part [head, capacity) first, the wrapped part after it.
DequeGrown(s) ==
  IF s >= dqCount THEN 0
  ELSE IF s < dqCap - dqHead THEN dqData[dqHead + s]
  ELSE dqData[s - (dqCap - dqHead)]

\* A variant for checking: the second part is taken from where the first began.
QueueGrownTwice(s) ==
  IF s >= dqCap THEN 0
  ELSE IF s < dqCap - dqHead THEN dqData[dqHead + s]
  ELSE dqData[dqHead + s - (dqCap - dqHead)]

\* ensureCapacity of struct/queue.c, which is only called on a full buffer: one
\* copy when the head is at 0, two otherwise.
QueueGrown(s) ==
  IF s >= dqCap THEN 0
  ELSE IF dqHead = 0 \/ s < dqCap - dqHead THEN dqData[dqHead + s]
  ELSE dqData[s - (dqCap - dqHead)]

Grown(s) == IF dqKind = "queue" THEN QueueGrown(s) ELSE DequeGrown(s)

Roomy == IF HasRoom THEN [data |-> dqData, cap |-> dqCap, head |-> dqHead]
         ELSE [data |-> [s \in 0 .. 2 * dqCap - 1 |-> Grown(s)], cap |-> 2 * dqCap, head |-> 0]

\* A store into slot s of the buffer that has room.
StoreAt(s, v) ==
  /\ UNCHANGED dqKind
  /\ dqData' = [Roomy.data EXCEPT ![s] = v]
  /\ dqCap' = Roomy.cap
  /\ dqCount' = dqCount + 1

AddFirst(v) ==
  /\ HasRoom \/ CanGrow
  /\ dqHead' = (Roomy.head - 1 + Roomy.cap) % Roomy.cap
  /\ StoreAt(dqHead', v)
  /\ dqItems' = <<v>> \o dqItems

AddLast(v) ==
  /\ HasRoom \/ CanGrow
  /\ StoreAt(Slot(Roomy.head, dqCount, Roomy.cap), v)
  /\ dqHead' = Roomy.head
  /\ dqItems' = Append(dqItems, v)

\* The element is left in its slot.
RemoveFirst ==
  /\ dqCount > 0
  /\ dqHead' = (dqHead + 1) % dqCap
  /\ dqCount' = dqCount - 1
  /\ dqItems' = Tail(dqItems)
  /\ UNCHANGED <<dqKind, dqData, dqCap>>

RemoveLast ==
  /\ dqCount > 0
  /\ dqCount' = dqCount - 1
  /\ dqItems' = SubSeq(dqItems, 1, Len(dqItems) - 1)
  /\ UNCHANGED <<dqKind, dqData, dqCap, dqHead>>

\* Queue_push and Queue_pop.
QueuePush(v) == dqKind = "queue" /\ AddLast(v)
QueuePop == dqKind = "queue" /\ RemoveFirst

\* Queue_peek, and what Queue_pop returns.
QueuePeek == IF dqCount = 0 THEN 0 ELSE dqData[dqHead]

DequeNext ==
  \/ /\ dqKind = "deque"
     /\ RemoveFirst \/ RemoveLast \/ \E v \in Elements : AddFirst(v) \/ AddLast(v)
  \/ QueuePop
  \/ \E v \in Elements : QueuePush(v)

DequeSpec == DequeInit /\ [][DequeNext]_dequeVars

\* Every index answers with the element a list would have there, through any
\* wrap, growth at any head and any mix of the two ends; so what a removal or
\* a peek returns is the list's end.
DequeIsASequence ==
  /\ dqCount = Len(dqItems)
  /\ \A i \in 0 .. dqCount - 1 : DequeGet(i) = dqItems[i + 1]
  /\ QueuePeek = IF dqItems = <<>> THEN 0 ELSE Head(dqItems)

-----------------------------------------------------------------------------
(* Values by thread id *)

CONSTANTS
  LocalIds,   \* thread ids
  LocalFirst, \* the first size of a table, 8
  LocalMax    \* the largest table there is memory for

ASSUME LocalAssumption ==
  /\ LocalIds \subseteq Nat /\ LocalFirst \in Nat \ {0} /\ LocalMax \in Nat

VARIABLES
  slots,      \* two tables by thread id
  assigned    \* auxiliary: what was last stored in each

localVars == <<slots, assigned>>

LocalInit ==
  /\ slots = [l \in {1, 2} |-> <<>>]
  /\ assigned = [l \in {1, 2} |-> [id \in LocalIds |-> 0]]

SlotCap(l) == Len(slots[l])
LocalGet(l, id) == IF id < SlotCap(l) THEN slots[l][id + 1] ELSE 0

\* A variant for checking: doubled once, however large the id.
NeededCapOnce(cap, id) == IF cap = 0 THEN LocalFirst ELSE IF cap > id THEN cap ELSE 2 * cap

\* local_grow: from LocalFirst on, doubled until the id fits, and the new tail zeroed.
NeededCap(cap, id) ==
  LET doubled[n \in Nat] == IF n > id THEN n ELSE doubled[2 * n]
  IN  doubled[IF cap = 0 THEN LocalFirst ELSE cap]

LocalGrown(t, id) ==
  LET cap == IF id < Len(t) THEN Len(t) ELSE NeededCap(Len(t), id)
  IN  [i \in 1 .. cap |-> IF i <= Len(t) THEN t[i] ELSE 0]

\* Local_set: without memory for a larger table the value is dropped.
LocalSet(l, id, v) ==
  /\ id < SlotCap(l) \/ NeededCap(SlotCap(l), id) <= LocalMax
  /\ slots' = [slots EXCEPT ![l] = [LocalGrown(@, id) EXCEPT ![id + 1] = v]]
  /\ assigned' = [assigned EXCEPT ![l][id] = v]

\* Local_2: an element of a new array gets a table of its own, of the size that
\* its original has, with all of its values.
LocalCopy ==
  /\ slots' = [slots EXCEPT ![2] = IF SlotCap(1) = 0 THEN <<>> ELSE
                                     LET t == LocalGrown(<<>>, SlotCap(1) - 1)
                                     IN  [i \in DOMAIN t |-> IF i <= SlotCap(1) THEN slots[1][i] ELSE t[i]]]
  /\ assigned' = [assigned EXCEPT ![2] = assigned[1]]

LocalNext ==
  \/ \E l \in {1, 2}, id \in LocalIds, v \in {1, 2} : LocalSet(l, id, v)
  \/ LocalCopy

\* A thread id answers with what was last stored for it, whatever ids came
\* first, however the table grew and was copied, and with 0 before.
LocalsAnswer == \A l \in {1, 2}, id \in LocalIds : LocalGet(l, id) = assigned[l][id]

-----------------------------------------------------------------------------
(* The observers of a box (reactive/reactive.c) on its owner's thread.  Each  *)
(* of the four events has a list; what is unwatched leaves a hole in it that  *)
(* the next to be watched fills, and a full list is doubled.  Reading the box *)
(* walks the list of "get"; draining it those of "set", "changed" and         *)
(* "nullptr".  A callback may use the box as anyone may, so that walks nest.  *)

CONSTANTS
  Observers,    \* pairs of a callback and its context
  NoObserver,   \* a hole
  BoxWords,     \* the words stored; 0 is no value
  ObserverCap,  \* the first size of a list, 4
  ObserverMax,  \* the largest list there is memory for
  MaxWatches,   \* bound: observers watched
  MaxBoxStores, \* bound: stores
  MaxNested     \* bound: walks under way

ASSUME ObserversAssumption ==
  /\ NoObserver \notin Observers /\ 0 \in BoxWords
  /\ ObserverCap \in Nat \ {0} /\ ObserverMax \in Nat

VARIABLE box

Events == {"set", "changed", "get", "nullptr"}

\* Reactive_init.
BoxInit ==
  box = [value |-> 0, shadow |-> 0, dirty |-> FALSE,
         lists |-> [e \in Events |-> <<>>], caps |-> [e \in Events |-> 0],
         walks |-> <<>>,                       \* those under way, the innermost last
         watches |-> 0, stores |-> 0,
         registered |-> 0,                     \* history: watched and not unwatched since
         early |-> FALSE]                      \* history: drained by an observer of "set"

Holding(list, o) == {i \in DOMAIN list : list[i] = o}
First(places) == CHOOSE i \in places : \A j \in places : i <= j
Census(list) == [o \in Observers |-> Cardinality(Holding(list, o))]

\* A walk of list e at its first entry.  History: how often each observer has been
\* called in it, how often it has been registered at least, and at most if no
\* place of its was given up.
Walk(b, e, value, old) ==
  [event |-> e, i |-> 1, in |-> FALSE, value |-> value, old |-> old,
   calls |-> [o \in Observers |-> 0], least |-> Census(b.lists[e]), most |-> Census(b.lists[e])]

Top == box.walks[Len(box.walks)]
Beneath == LX!Front(box.walks)
Idle == box.walks = <<>>
\* The caller of the box is the program outside every walk, or the observer that is called.
MayAct == IF Idle THEN TRUE ELSE Top.in

\* listAdd: without memory for a larger list nothing is watched.
Placed(list, o) ==
  LET holes == Holding(list, NoObserver) IN
  IF holes = {} THEN Append(list, o) ELSE [list EXCEPT ![First(holes)] = o]
CapFor(list, cap) == IF Len(Placed(list, NoObserver)) <= cap THEN cap ELSE IF cap = 0 THEN ObserverCap ELSE 2 * cap

Watch(e, o) ==
  LET cap == CapFor(box.lists[e], box.caps[e]) IN
  /\ MayAct /\ box.watches < MaxWatches /\ cap <= ObserverMax
  /\ box' = [box EXCEPT !.lists[e] = Placed(@, o), !.caps[e] = cap, !.watches = @ + 1, !.registered = @ + 1,
               !.walks = [k \in DOMAIN @ |-> IF @[k].event = e THEN [@[k] EXCEPT !.most[o] = @ + 1] ELSE @[k]]]

\* A variant for checking: the last entry moves into the place that is free.
WithoutSwapped(list, o) == LX!Front([list EXCEPT ![First(Holding(list, o))] = list[Len(list)]])
\* listRemove: the first that matches becomes a hole.
Without(list, o) == [list EXCEPT ![First(Holding(list, o))] = NoObserver]

Unwatch(e, o) ==
  /\ MayAct /\ Holding(box.lists[e], o) # {}
  /\ LET list == Without(box.lists[e], o)
         left == Census(list)[o]
     IN box' = [box EXCEPT !.lists[e] = list, !.registered = @ - 1,
                  !.walks = [k \in DOMAIN @ |-> IF @[k].event = e /\ left < @[k].least[o]
                                                THEN [@[k] EXCEPT !.least[o] = left] ELSE @[k]]]

BoxStore(w) ==
  /\ MayAct /\ box.stores < MaxBoxStores
  /\ box' = [box EXCEPT !.value = w, !.dirty = TRUE, !.stores = @ + 1]

BoxLoad ==
  /\ MayAct /\ Len(box.walks) < MaxNested
  /\ box' = [box EXCEPT !.walks = Append(@, Walk(box, "get", box.value, box.shadow))]

\* Reactive_drain: a box that is not dirty is left alone.
BoxDrain ==
  /\ MayAct /\ box.dirty /\ Len(box.walks) < MaxNested
  /\ box' = [box EXCEPT !.dirty = FALSE, !.walks = Append(@, Walk(box, "set", box.value, box.shadow)),
                        !.early = IF Idle THEN FALSE ELSE @ \/ \E k \in DOMAIN box.walks : box.walks[k].event = "set"]

\* The walk calls the observer at its place, or passes a hole; then the call returns.
Calls ==
  /\ ~Idle /\ ~Top.in /\ Top.i <= Len(box.lists[Top.event])
  /\ LET o == box.lists[Top.event][Top.i] IN
     box' = [box EXCEPT !.walks[Len(box.walks)] =
               IF o = NoObserver THEN [@ EXCEPT !.i = @ + 1]
               ELSE [@ EXCEPT !.i = @ + 1, !.in = TRUE, !.calls[o] = @ + 1]]
CallReturns == ~Idle /\ Top.in /\ box' = [box EXCEPT !.walks[Len(box.walks)].in = FALSE]

\* A walk that is done goes on to the next list of its drain, if there is one.
WalkIsDone == ~Idle /\ ~Top.in /\ Top.i > Len(box.lists[Top.event])
After(f) ==
  CASE f.event = "set" /\ f.value # f.old -> "changed"
    [] f.event \in {"set", "changed"} /\ f.value = 0 -> "nullptr"
    [] OTHER -> "none"
NextWalk ==
  /\ WalkIsDone
  /\ LET next == After(Top) IN
     box' = [box EXCEPT !.shadow = IF next = "changed" THEN Top.value ELSE @,
                        !.walks = IF next = "none" THEN Beneath ELSE Append(Beneath, Walk(box, next, Top.value, Top.old))]

\* Reactive_shutdown, not from an observer.
Shutdown ==
  /\ Idle
  /\ box' = [box EXCEPT !.lists = [e \in Events |-> <<>>], !.caps = [e \in Events |-> 0], !.registered = 0]

BoxNext ==
  \/ \E e \in Events, o \in Observers : Watch(e, o) \/ Unwatch(e, o)
  \/ \E w \in BoxWords : BoxStore(w)
  \/ BoxLoad \/ BoxDrain \/ Calls \/ CallReturns \/ NextWalk \/ Shutdown

\* Reactive_observerCount.
ObserverCount == Cardinality({<<e, i>> \in Events \X (1 .. MaxWatches) :
                                   i \in DOMAIN box.lists[e] /\ box.lists[e][i] # NoObserver})

\* Whatever its observers do to the box while they are called, a walk calls each as
\* often as it has been registered all the while, and never more often than it was
\* put there; once the box is at rest its shadow is the word it holds, unless an
\* observer of "set" drained it: the outer drain then latches the older word.
ObserversAreCalled ==
  /\ WalkIsDone => \A o \in Observers : Top.calls[o] \in Top.least[o] .. Top.most[o]
  /\ Idle /\ ~box.dirty /\ ~box.early => box.shadow = box.value
  /\ ObserverCount = box.registered
  /\ \A e \in Events : Len(box.lists[e]) <= box.caps[e]

-----------------------------------------------------------------------------
(* The bindings of a key map (input/key_map.c): a table in an arena, doubled *)
(* when it is full; what is unbound gives its place to the last binding.     *)

CONSTANTS
  Combos,     \* a key or a button, its modifiers and a gesture
  Callbacks,  \* what bindings call
  BindData,   \* and with what
  KeyMapCap,  \* KEYMAP_INITIAL_CAPACITY, 16
  KeyMapMax   \* the largest table there is memory for

ASSUME KeyMapAssumption == KeyMapCap \in Nat \ {0} /\ KeyMapMax \in Nat

VARIABLE keymap

Unbound == [combo |-> 0, fn |-> 0, data |-> 0]
\* KeyMap_1.
KeyMapInit == keymap = [table |-> <<>>, cap |-> KeyMapCap, bound |-> {}]   \* history: what is bound

PlacesBound(combo, fn) == {i \in DOMAIN keymap.table : keymap.table[i].combo = combo /\ keymap.table[i].fn = fn}
WithoutBinding(combo, fn) == {b \in keymap.bound : b.combo # combo \/ b.fn # fn}

\* KeyMap_bind: one that is bound is given other data.
Rebind(combo, fn, data) ==
  /\ PlacesBound(combo, fn) # {}
  /\ keymap' = [keymap EXCEPT !.table[First(PlacesBound(combo, fn))].data = data,
                              !.bound = WithoutBinding(combo, fn) \union {[combo |-> combo, fn |-> fn, data |-> data]}]
Bind(combo, fn, data) ==
  LET full == Len(keymap.table) >= keymap.cap
      cap == IF full THEN 2 * keymap.cap ELSE keymap.cap
      binding == [combo |-> combo, fn |-> fn, data |-> data]
  IN /\ PlacesBound(combo, fn) = {} /\ cap <= KeyMapMax
     /\ keymap' = [keymap EXCEPT !.table = Append(@, binding), !.cap = cap, !.bound = @ \union {binding}]

\* KeyMap_unbind.
Unbind(combo, fn) ==
  /\ PlacesBound(combo, fn) # {}
  /\ LET i == First(PlacesBound(combo, fn)) IN
     keymap' = [keymap EXCEPT !.table = LX!Front([@ EXCEPT ![i] = keymap.table[Len(keymap.table)]]),
                              !.bound = WithoutBinding(combo, fn)]

\* KeyMap_match: the first in the table, nothing when there is none.
MatchOf(combo) ==
  LET places == {i \in DOMAIN keymap.table : keymap.table[i].combo = combo} IN
  IF places = {} THEN Unbound ELSE keymap.table[First(places)]

KeyMapNext ==
  \E combo \in Combos, fn \in Callbacks :
    \/ \E data \in BindData : Rebind(combo, fn, data) \/ Bind(combo, fn, data)
    \/ Unbind(combo, fn)

\* A combo that has a binding finds one, with the data last given to it, and one
\* that has none finds nothing, whatever was moved when others were unbound.
BindingsAnswer ==
  /\ LX!ToSet(keymap.table) = keymap.bound /\ Len(keymap.table) = Cardinality(keymap.bound)
  /\ Len(keymap.table) <= keymap.cap
  /\ \A combo \in Combos :
       LET bound == {b \in keymap.bound : b.combo = combo} IN
       IF bound = {} THEN MatchOf(combo) = Unbound ELSE MatchOf(combo) \in bound

-----------------------------------------------------------------------------
(* reflection/: a Struct is a named list of Fields, a Class one of Methods   *)
(* with a constructor and a layout.  Rows are copied into a chunked list     *)
(* that the record owns; a Field is a Variable with a setter and a place in  *)
(* the rows of its entity.                                                   *)

CONSTANTS
  GivenNames,   \* what callers name things
  FoldedName,   \* VariableSlot_foldName: the name that becomes of it, NoName when it is refused
  NoName,
  StrideOf,     \* Stride_get of each type id; that of 0, no type, is 0
  MaxEdits      \* bound: calls in one behaviour

ASSUME ReflectionAssumption == DOMAIN FoldedName = GivenNames /\ 0 \in DOMAIN StrideOf

VARIABLE meta

\* What all zeroes stand for.  The reader, the setter and the target are one number.
NoField == [name |-> NoName, calls |-> 0, typeId |-> 0, offset |-> 0, size |-> 0]
NoMethod == [name |-> NoName, calls |-> 0]
NoRecord == [name |-> NoName, count |-> 0, size |-> 0, list |-> FALSE, rows |-> <<>>]

MetaInit ==
  \E kind \in {"struct", "class"} :
    meta = [kind |-> kind, member |-> IF kind = "struct" THEN NoField ELSE NoMethod,
            there |-> FALSE, record |-> NoRecord,
            live |-> 0,        \* history: the chunked lists that were made and not freed
            again |-> 0,       \* history: the lists lost as their record was initialised again
            edits |-> 0]

Edit == meta.edits < MaxEdits
Edited(m) == [m EXCEPT !.edits = @ + 1]
OfStruct == meta.kind = "struct"
NoMember == IF OfStruct THEN NoField ELSE NoMethod
Named(n) == FoldedName[n] # NoName

\* Variable_init, Method_init and Field_init: nothing is written under a refused name.
MemberInit(n, calls) ==
  /\ Edit /\ Named(n)
  /\ meta' = Edited([meta EXCEPT !.member = [NoMember EXCEPT !.name = FoldedName[n], !.calls = calls]])
MemberSetName(n) ==
  Edit /\ Named(n) /\ meta' = Edited([meta EXCEPT !.member.name = FoldedName[n]])
MemberSetCalls(calls) == Edit /\ meta' = Edited([meta EXCEPT !.member.calls = calls])

\* Field_setTypeId: only a field that has no size yet takes that of its type.
Typed(field, t) == [field EXCEPT !.typeId = t, !.size = IF @ = 0 /\ t # 0 THEN StrideOf[t] ELSE @]
FieldSetTypeId(t) == Edit /\ OfStruct /\ meta' = Edited([meta EXCEPT !.member = Typed(@, t)])
FieldSetPlace(offset, size) ==
  Edit /\ OfStruct /\ meta' = Edited([meta EXCEPT !.member.offset = offset, !.member.size = size])

\* Struct_1 and Class_3: a record without its list, or under a refused name, is freed again.
RecordNew(n) ==
  /\ Edit /\ ~meta.there /\ Named(n)
  /\ meta' = Edited([meta EXCEPT !.there = TRUE, !.live = @ + 1,
                                 !.record = [NoRecord EXCEPT !.name = FoldedName[n], !.list = TRUE]])
RecordNew0 ==
  /\ Edit /\ ~meta.there
  /\ meta' = Edited([meta EXCEPT !.there = TRUE, !.live = @ + 1, !.record = [NoRecord EXCEPT !.list = TRUE]])

\* Struct_init and Class_init of a record in use: it is cleared and given a list, which
\* may be refused; the list that it had is lost.
RecordInit(n) ==
  /\ Edit /\ meta.there /\ Named(n)
  /\ \E list \in BOOLEAN :
       meta' = Edited([meta EXCEPT !.record = [NoRecord EXCEPT !.name = FoldedName[n], !.list = list],
                                   !.live = IF list THEN @ + 1 ELSE @,
                                   !.again = IF meta.record.list THEN @ + 1 ELSE @])

\* A variant for checking: the rows are counted as they are asked for.
RecordAddCounts(granted) ==
  /\ Edit /\ meta.there
  /\ meta' = Edited([meta EXCEPT !.record.rows = IF meta.record.list /\ granted THEN Append(@, meta.member) ELSE @,
                                 !.record.count = IF meta.record.list THEN @ + 1 ELSE @])
\* Struct_add and Class_addMethod: the list may have no memory for another row.
RecordAdd(granted) ==
  /\ Edit /\ meta.there
  /\ meta' = Edited(IF meta.record.list /\ granted
                    THEN [meta EXCEPT !.record.rows = Append(@, meta.member), !.record.count = Len(meta.record.rows) + 1]
                    ELSE meta)

\* Struct_get and Class_getMethod: the row itself; Struct_forEach visits all of them.
RowAt(i) == IF meta.record.list /\ i <= meta.record.count THEN meta.record.rows[i] ELSE NoMember
Visited == IF meta.record.list THEN [i \in 1 .. meta.record.count |-> RowAt(i)] ELSE <<>>
RowSetTypeId(i, t) ==
  /\ Edit /\ OfStruct /\ meta.record.list /\ i <= meta.record.count
  /\ meta' = Edited([meta EXCEPT !.record.rows[i] = Typed(@, t)])

RecordSetName(n) ==
  Edit /\ meta.there /\ Named(n) /\ meta' = Edited([meta EXCEPT !.record.name = FoldedName[n]])
\* Struct_setSize; Class_setConstruct and Class_setLayout, which are one number here.
RecordSetSize(size) == Edit /\ meta.there /\ meta' = Edited([meta EXCEPT !.record.size = size])

\* Struct_free and Class_free.
RecordFree ==
  /\ Edit /\ meta.there
  /\ meta' = Edited([meta EXCEPT !.there = FALSE, !.record = NoRecord,
                                 !.live = IF meta.record.list THEN @ - 1 ELSE @])

MetaNext ==
  \/ \E n \in GivenNames :
       RecordNew(n) \/ RecordInit(n) \/ RecordSetName(n) \/ MemberSetName(n) \/ \E c \in {0, 1} : MemberInit(n, c)
  \/ \E c \in {0, 1} : MemberSetCalls(c)
  \/ \E t \in DOMAIN StrideOf : FieldSetTypeId(t) \/ \E i \in 1 .. MaxEdits : RowSetTypeId(i, t)
  \/ \E place, size \in {0, 1} : FieldSetPlace(place, size)
  \/ RecordNew0 \/ RecordFree
  \/ \E granted \in BOOLEAN : RecordAdd(granted)
  \/ \E size \in {0, 1} : RecordSetSize(size)

\* A record counts the rows that its list holds, so that every index below the count
\* answers, also after a row was refused and after it was initialised again; each list
\* belongs to the record or was lost by such a second call.
RecordsAreWhole ==
  /\ Len(meta.record.rows) = meta.record.count /\ Visited = meta.record.rows
  /\ meta.live = meta.again + IF meta.record.list THEN 1 ELSE 0
  /\ meta.record.list => meta.there
=============================================================================
