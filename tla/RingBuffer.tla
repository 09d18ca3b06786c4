----------------------------- MODULE RingBuffer -----------------------------
(***************************************************************************)
(* atomic/ring.c: the multi-producer multi-consumer ring every worker      *)
(* thread takes its tasks from.  head and tail are size_t counters that    *)
(* only grow, and wrap at 2^64; a slot index is a counter masked by the    *)
(* capacity, a power of two.  One SpinLock serialises the two operations,  *)
(* which are modelled access by access: lock, load both counters, copy the *)
(* item, store the counter, unlock.                                        *)
(***************************************************************************)
EXTENDS SpinLock, Sequences

CONSTANTS
  Items,      \* the items callers push
  Capacity,   \* RingBuffer.capacity, a power of two
  IndexMod,   \* the counters' range: 2^64 in the code
  Nothing     \* no item, no result

\* The capacity divides the counters' range because both are powers of two.
ASSUME RingAssumption ==
  /\ Capacity \in Nat \ {0}
  /\ IndexMod \in Nat
  /\ IndexMod > Capacity
  /\ IndexMod % Capacity = 0
  /\ Nothing \notin Items
  /\ {"pushed", "full", "empty", Nothing} \cap Items = {}
  /\ Nothing \notin {"pushed", "full", "empty"}

VARIABLES
  head, tail,   \* the consumers' and the producers' counter
  slots,        \* the arena
  pc,           \* where each thread is in RingBuffer_push or RingBuffer_pop
  arg,          \* the item a push was given, or the one a pop copied out
  reg,          \* the counter the call loaded and will store back plus one
  result        \* the value the call returns, once that is decided

ringVars == <<head, tail, slots, pc, arg, reg, result>>
vars == <<word, lk, head, tail, slots, pc, arg, reg, result>>

Index == 0 .. IndexMod - 1

\* size_t arithmetic: increment and difference modulo the counters' range.
Inc(i) == IF i + 1 = IndexMod THEN 0 ELSE i + 1
Distance(hi, lo) == IF hi >= lo THEN hi - lo ELSE hi - lo + IndexMod

\* idx & mask
SlotOf(i) == i % Capacity

Init ==
  /\ LockInit
  /\ head = 0 /\ tail = 0
  /\ slots = [i \in 0 .. Capacity - 1 |-> Nothing]
  /\ pc = [t \in Threads |-> "idle"]
  /\ arg = [t \in Threads |-> Nothing]
  /\ reg = [t \in Threads |-> 0]
  /\ result = [t \in Threads |-> Nothing]

Step(t, from, to) ==
  /\ pc[t] = from
  /\ pc' = [pc EXCEPT ![t] = to]

-----------------------------------------------------------------------------
PushCall(t, v) ==
  /\ Step(t, "idle", "push")
  /\ arg' = [arg EXCEPT ![t] = v]
  /\ Lock(t)
  /\ UNCHANGED <<head, tail, slots, reg, result>>

PopCall(t) ==
  /\ Step(t, "idle", "pop")
  /\ Lock(t)
  /\ UNCHANGED <<head, tail, slots, arg, reg, result>>

Acquire(t) ==
  /\ Spin(t)
  /\ UNCHANGED ringVars

\* A variant for checking: room for one item too many.
IsFullOffByOne == Distance(tail, head) > Capacity

\* The full test of a push, under the lock: tail - head >= capacity.
IsFull == Distance(tail, head) >= Capacity

\* A variant for checking: the counters are read before the lock is held.
PushLoadUnlocked(t) ==
  /\ ~IsFull
  /\ Step(t, "push", "push_copy")
  /\ reg' = [reg EXCEPT ![t] = tail]
  /\ UNCHANGED <<head, tail, slots, arg, result>>
  /\ UNCHANGED lockVars

PushLoad(t) ==
  /\ lk[t] = "in"
  /\ ~IsFull
  /\ Step(t, "push", "push_copy")
  /\ reg' = [reg EXCEPT ![t] = tail]
  /\ UNCHANGED <<head, tail, slots, arg, result>>
  /\ UNCHANGED lockVars

\* A variant for checking: the early return forgets to unlock.
PushFullKeepsLock(t) ==
  /\ lk[t] = "in"
  /\ IsFull
  /\ Step(t, "push", "idle")
  /\ UNCHANGED <<head, tail, slots, arg, reg, result>>
  /\ UNCHANGED lockVars

PushFull(t) ==
  /\ lk[t] = "in"
  /\ IsFull
  /\ Step(t, "push", "leave")
  /\ result' = [result EXCEPT ![t] = "full"]
  /\ UNCHANGED <<head, tail, slots, arg, reg>>
  /\ UNCHANGED lockVars

PushCopy(t) ==
  /\ Step(t, "push_copy", "push_store")
  /\ slots' = [slots EXCEPT ![SlotOf(reg[t])] = arg[t]]
  /\ UNCHANGED <<head, tail, arg, reg, result>>
  /\ UNCHANGED lockVars

PushStore(t) ==
  /\ Step(t, "push_store", "leave")
  /\ tail' = Inc(reg[t])
  /\ result' = [result EXCEPT ![t] = "pushed"]
  /\ UNCHANGED <<head, slots, arg, reg>>
  /\ UNCHANGED lockVars

PopLoad(t) ==
  /\ lk[t] = "in"
  /\ head # tail
  /\ Step(t, "pop", "pop_copy")
  /\ reg' = [reg EXCEPT ![t] = head]
  /\ UNCHANGED <<head, tail, slots, arg, result>>
  /\ UNCHANGED lockVars

PopEmpty(t) ==
  /\ lk[t] = "in"
  /\ head = tail
  /\ Step(t, "pop", "leave")
  /\ result' = [result EXCEPT ![t] = "empty"]
  /\ UNCHANGED <<head, tail, slots, arg, reg>>
  /\ UNCHANGED lockVars

PopCopy(t) ==
  /\ Step(t, "pop_copy", "pop_store")
  /\ arg' = [arg EXCEPT ![t] = slots[SlotOf(reg[t])]]
  /\ UNCHANGED <<head, tail, slots, reg, result>>
  /\ UNCHANGED lockVars

PopStore(t) ==
  /\ Step(t, "pop_store", "leave")
  /\ head' = Inc(reg[t])
  /\ result' = [result EXCEPT ![t] = arg[t]]
  /\ UNCHANGED <<tail, slots, arg, reg>>
  /\ UNCHANGED lockVars

\* Every path ends in SpinLock_unlock and returns.
Unlock(t) ==
  /\ lk[t] = "in"
  /\ Step(t, "leave", "return")
  /\ UnlockLoad(t)
  /\ UNCHANGED <<head, tail, slots, arg, reg, result>>

\* The releasing store, or nothing when unlock refused; the locals die.
Return(t) ==
  /\ Step(t, "return", "idle")
  /\ IF lk[t] = "rel" THEN UnlockStore(t) ELSE UNCHANGED lockVars
  /\ arg' = [arg EXCEPT ![t] = Nothing]
  /\ reg' = [reg EXCEPT ![t] = 0]
  /\ result' = [result EXCEPT ![t] = Nothing]
  /\ UNCHANGED <<head, tail, slots>>

Call(t) == PopCall(t) \/ \E v \in Items : PushCall(t, v)

\* A call under way and past its wait for the lock.
Advance(t) ==
  \/ PushLoad(t) \/ PushFull(t) \/ PushCopy(t) \/ PushStore(t)
  \/ PopLoad(t) \/ PopEmpty(t) \/ PopCopy(t) \/ PopStore(t)
  \/ Unlock(t) \/ Return(t)

Next == \E t \in Threads : Call(t) \/ Acquire(t) \/ Advance(t)

\* A running thread is not suspended for ever.  Nothing in the code gives a
\* spinning thread its turn, so Acquire is only weakly fair.
Fairness == \A t \in Threads : WF_vars(Acquire(t)) /\ WF_vars(Advance(t))

Spec == Init /\ [][Next]_vars
FairSpec == Spec /\ Fairness

-----------------------------------------------------------------------------
CriticalPush == {"push_copy", "push_store"}
CriticalPop == {"pop_copy", "pop_store"}
Late == {"leave", "return"}

\* The values the variables take; every counter stays in the size_t range.
TypeOK ==
  /\ LockTypeOK
  /\ head \in Index /\ tail \in Index
  /\ slots \in [0 .. Capacity - 1 -> Items \cup {Nothing}]
  /\ pc \in [Threads -> {"idle", "push", "pop"} \cup CriticalPush \cup CriticalPop \cup Late]
  /\ arg \in [Threads -> Items \cup {Nothing}]
  /\ reg \in [Threads -> Index]
  /\ result \in [Threads -> Items \cup {"pushed", "full", "empty", Nothing}]

\* A thread that loaded the counters owns the lock until it returns.
CriticalOwns ==
  \A t \in Threads :
    /\ pc[t] \in CriticalPush \cup CriticalPop \cup {"leave"} => lk[t] = "in"
    /\ pc[t] \in {"push", "pop"} => lk[t] \in {"spin", "in"}
    /\ pc[t] = "return" => lk[t] = "rel"
    /\ pc[t] = "idle" => lk[t] = "out"

\* What a call loaded is still true when it copies and when it stores: its
\* register is the live counter, and the room or the item it saw is there.
RegisterIsFresh ==
  \A t \in Threads :
    /\ pc[t] \in CriticalPush => reg[t] = tail /\ Distance(tail, head) < Capacity
    /\ pc[t] \in CriticalPop => reg[t] = head /\ head # tail

\* The ring never holds more than its capacity and never less than nothing,
\* across the wrap of the counters: tail - head, the test of full and empty,
\* is the number of items.
Occupancy == Distance(tail, head) <= Capacity

RingInv ==
  /\ TypeOK
  /\ MutualExclusion
  /\ WordIsOwner
  /\ CriticalOwns
  /\ RegisterIsFresh
  /\ Occupancy

\* The slot in the i-th place behind the head.
Held(i) == slots[SlotOf(head + i - 1)]

\* The items between head and tail, oldest first.
Contents == [i \in 1 .. Distance(tail, head) |-> Held(i)]

\* What RingInv leaves open and the queue needs: every place between head and
\* tail holds an item; what a call carries is what it was given or what it
\* found; a result is there exactly while the call leaves.
ItemsAreKept ==
  /\ \A i \in 1 .. Distance(tail, head) : Held(i) \in Items
  /\ \A t \in Threads :
       /\ pc[t] \in {"push"} \cup CriticalPush => arg[t] \in Items
       /\ pc[t] = "push_store" => slots[SlotOf(tail)] = arg[t]
       /\ pc[t] = "pop_store" => arg[t] = slots[SlotOf(head)]
       /\ result[t] # Nothing <=> pc[t] \in Late

Fifo == INSTANCE BoundedFifo WITH queue <- Contents

\* The ring is a bounded FIFO queue: its calls take effect one at a time, a
\* pop returns the oldest item, full and empty are exact, nothing is dropped,
\* duplicated or torn, also when the counters wrap.
ImplementsFifo == Fifo!Spec

\* Every path of push and pop, the early returns too, unlocks: the lock never
\* stays taken.
LockReleased == word # 0 ~> word = 0
=============================================================================
