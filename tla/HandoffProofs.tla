---------------------------- MODULE HandoffProofs ---------------------------
(***************************************************************************)
(* Jobs that threads hand to each other, and the registry those threads    *)
(* are counted in: for every set of threads, items, tasks and ids, every   *)
(* capacity and every size of the table.                                   *)
(*                                                                         *)
(* RingBuffer is a bounded first-in first-out queue, with counters of      *)
(* every range that it divides. The lock's part comes from SpinLockProofs: *)
(* a step of the ring is a step of the lock or leaves it. The queue needs  *)
(* that a counter that wraps masks to the slot it would have had, and that *)
(* the tail's slot is in use only in a full ring.                          *)
(*                                                                         *)
(* WorkerThread and Dispatch follow, the latter with its own proof of the  *)
(* lock, of which it uses the single try and the unlock, and with the      *)
(* proof that it implements Mailbox; then Registry, with ids that come to  *)
(* the same first slot and with full tables.                               *)
(***************************************************************************)
EXTENDS RingBuffer, WorkerThread, Dispatch, Registry, SpinLockProofs,
  Integers, SequenceTheorems

-----------------------------------------------------------------------------
(* RingBuffer: struct/ring_buffer.c                                         *)

\* size_t arithmetic of two counters at most Capacity apart: advancing the
\* upper one adds one, advancing the lower one takes one away.
LEMMA Counters ==
  ASSUME NEW hi \in Index, NEW lo \in Index
  PROVE  /\ Inc(hi) \in Index
         /\ Distance(hi, lo) \in Index
         /\ Distance(hi, lo) = 0 <=> hi = lo
         /\ Distance(hi, lo) < IndexMod - 1 => Distance(Inc(hi), lo) = Distance(hi, lo) + 1
         /\ hi # lo => Distance(hi, Inc(lo)) = Distance(hi, lo) - 1
BY RingAssumption DEF Index, Inc, Distance

\* A counter masked by the capacity is a slot of the arena.
LEMMA SlotInArena ==
  ASSUME NEW e \in Index
  PROVE  SlotOf(e) \in 0 .. Capacity - 1
BY RingAssumption DEF Index, SlotOf

\* The construction of a ring establishes the invariant.
LEMMA RingInit == Init => RingInv
<1> SUFFICES ASSUME Init PROVE RingInv
  OBVIOUS
<1>1. LockInv
  BY LockInitInv DEF Init
<1>2. 0 \in Index
  BY RingAssumption DEF Index
<1>3. TypeOK
  BY <1>1, <1>2 DEF Init, TypeOK, LockInv
<1>4. CriticalOwns /\ RegisterIsFresh
  BY DEF Init, LockInit, CriticalOwns, RegisterIsFresh, CriticalPush, CriticalPop
<1>5. Occupancy
  BY RingAssumption DEF Init, Occupancy, Distance
<1>6. QED
  BY <1>1, <1>3, <1>4, <1>5 DEF RingInv, LockInv

\* What the ring does to the lock is what the lock's specification allows.
LEMMA RingStepIsLockStep == Next => [LockNext]_lockVars
<1> SUFFICES ASSUME NEW t \in Threads, Call(t) \/ Acquire(t) \/ Advance(t)
             PROVE  [LockNext]_lockVars
  BY DEF Next
<1>1. CASE Call(t)
  BY <1>1 DEF Call, PopCall, PushCall, LockNext
<1>2. CASE Acquire(t)
  BY <1>2 DEF Acquire, LockNext
<1>3. CASE Unlock(t)
  BY <1>3 DEF Unlock, LockNext
<1>4. CASE Return(t)
  BY <1>4 DEF Return, LockNext
<1>5. CASE Advance(t) /\ ~Unlock(t) /\ ~Return(t)
  BY <1>5 DEF Advance, PushLoad, PushFull, PushCopy, PushStore,
              PopLoad, PopEmpty, PopCopy, PopStore
<1>6. QED
  BY <1>1, <1>2, <1>3, <1>4, <1>5

\* The lock's invariant is part of the ring's, and every ring step keeps it.
LEMMA RingKeepsLock == RingInv /\ [Next]_vars => LockInv /\ LockInv'
<1> SUFFICES ASSUME RingInv, [Next]_vars PROVE LockInv /\ LockInv'
  OBVIOUS
<1>1. LockInv
  BY DEF RingInv, TypeOK, LockInv
<1>2. [LockNext]_lockVars
  BY RingStepIsLockStep DEF vars, lockVars
<1>3. QED
  BY <1>1, <1>2, LockStepInv

\* The owner of the lock is alone in its critical section, so the counters
\* another thread loaded cannot be moved under it.
LEMMA OneInside ==
  ASSUME RingInv, NEW s \in Threads, NEW t \in Threads, lk[s] = "in",
         pc[t] \in CriticalPush \cup CriticalPop
  PROVE  s = t
BY DEF RingInv, MutualExclusion, CriticalOwns, Owns

\* A step that leaves the counters and the arena alone.
LEMMA LocalStep ==
  ASSUME RingInv, NEW t \in Threads, LockInv',
         UNCHANGED <<head, tail, slots>>,
         TypeOK', CriticalOwns',
         \A s \in Threads \ {t} : pc'[s] = pc[s] /\ reg'[s] = reg[s],
         pc'[t] \in CriticalPush => reg'[t] = tail /\ Distance(tail, head) < Capacity,
         pc'[t] \in CriticalPop => reg'[t] = head /\ head # tail
  PROVE  RingInv'
<1>1. RegisterIsFresh'
  BY DEF RingInv, RegisterIsFresh, Distance
<1>2. Occupancy'
  BY DEF RingInv, Occupancy, Distance
<1>3. QED
  BY <1>1, <1>2 DEF RingInv, LockInv

\* A call starts waiting for the lock, or gets it.
LEMMA EnterStep ==
  ASSUME RingInv, NEW t \in Threads, LockInv', Call(t) \/ Acquire(t)
  PROVE  RingInv'
<1> USE DEF RingInv, TypeOK, CriticalOwns, RegisterIsFresh, LockTypeOK, Goto, Step,
            CriticalPush, CriticalPop, Late
<1>1. TypeOK'
  BY DEF LockInv, Call, PopCall, PushCall, Acquire, ringVars
<1>2. CriticalOwns'
  BY DEF Call, PopCall, PushCall, Lock, Acquire, Spin, ringVars
<1>3. QED
  BY <1>1, <1>2, LocalStep DEF Call, PopCall, PushCall, Acquire, ringVars

\* The owner loads the counters and decides, or leaves and returns.
LEMMA OwnerStep ==
  ASSUME RingInv, NEW t \in Threads, LockInv',
         \/ PushLoad(t) \/ PushFull(t) \/ PopLoad(t) \/ PopEmpty(t)
         \/ Unlock(t) \/ Return(t) \/ PopCopy(t)
  PROVE  RingInv'
<1> USE DEF RingInv, TypeOK, CriticalOwns, RegisterIsFresh, LockTypeOK, Goto, Step,
            CriticalPush, CriticalPop, Late
<1>1. CASE PushLoad(t)
  <2>1. TypeOK' /\ CriticalOwns'
    BY <1>1 DEF PushLoad, lockVars
  <2>2. Distance(tail, head) \in Index /\ Capacity \in Nat /\ IndexMod \in Nat
    BY Counters, RingAssumption
  <2>3. Distance(tail, head) < Capacity
    BY <1>1, <2>2 DEF PushLoad, IsFull, Index
  <2>4. QED
    BY <1>1, <2>1, <2>3, LocalStep DEF PushLoad
<1>2. CASE PushFull(t)
  <2>1. TypeOK' /\ CriticalOwns'
    BY <1>2 DEF PushFull, lockVars
  <2>2. QED
    BY <1>2, <2>1, LocalStep DEF PushFull
<1>3. CASE PopLoad(t)
  <2>1. TypeOK' /\ CriticalOwns'
    BY <1>3 DEF PopLoad, lockVars
  <2>2. QED
    BY <1>3, <2>1, LocalStep DEF PopLoad
<1>4. CASE PopEmpty(t)
  <2>1. TypeOK' /\ CriticalOwns'
    BY <1>4 DEF PopEmpty, lockVars
  <2>2. QED
    BY <1>4, <2>1, LocalStep DEF PopEmpty
<1>5. CASE Unlock(t)
  <2>1. word = Ticket(t) /\ word # 0
    BY <1>5, TicketNonZero DEF Unlock, WordIsOwner, Owns
  <2>2. Goto(t, "rel")
    BY <1>5, <2>1 DEF Unlock, UnlockLoad
  <2>3. TypeOK' /\ CriticalOwns'
    BY <1>5, <2>2 DEF Unlock, LockInv
  <2>4. QED
    BY <1>5, <2>3, LocalStep DEF Unlock
<1>6. CASE Return(t)
  <2>1. UnlockStore(t)
    BY <1>6 DEF Return
  <2>2. 0 \in Index
    BY RingAssumption DEF Index
  <2>3. TypeOK' /\ CriticalOwns'
    BY <1>6, <2>1, <2>2 DEF Return, UnlockStore, LockInv
  <2>4. QED
    BY <1>6, <2>3, LocalStep DEF Return
<1>7. CASE PopCopy(t)
  <2>1. SlotOf(reg[t]) \in 0 .. Capacity - 1
    BY SlotInArena
  <2>2. TypeOK' /\ CriticalOwns'
    BY <1>7, <2>1 DEF PopCopy, lockVars
  <2>3. QED
    BY <1>7, <2>2, LocalStep DEF PopCopy
<1>8. QED
  BY <1>1, <1>2, <1>3, <1>4, <1>5, <1>6, <1>7

\* The owner writes the arena, or stores a counter it alone could move.
LEMMA SharedStep ==
  ASSUME RingInv, NEW t \in Threads, LockInv',
         PushCopy(t) \/ PushStore(t) \/ PopStore(t)
  PROVE  RingInv'
<1> USE DEF RingInv, TypeOK, LockTypeOK, Step, Late
<1>1. /\ head \in Index /\ tail \in Index
      /\ Capacity \in Nat /\ IndexMod \in Nat /\ Capacity < IndexMod
  BY RingAssumption
<1>2. lk[t] = "in"
  BY DEF PushCopy, PushStore, PopStore, CriticalOwns, CriticalPush, CriticalPop
<1>3. \A s \in Threads : pc[s] \in CriticalPush \cup CriticalPop => s = t
  BY <1>2, OneInside
<1>4. CASE PushCopy(t)
  <2>1. TypeOK'
    BY <1>4 DEF PushCopy, lockVars, CriticalPush, CriticalPop
  <2>2. CriticalOwns' /\ RegisterIsFresh' /\ Occupancy'
    BY <1>4 DEF PushCopy, lockVars, CriticalOwns, RegisterIsFresh, Occupancy,
                CriticalPush, CriticalPop, Distance
  <2>3. QED
    BY <2>1, <2>2 DEF LockInv
<1>5. CASE PushStore(t)
  <2>1. reg[t] = tail /\ Distance(tail, head) < Capacity
    BY <1>5 DEF PushStore, RegisterIsFresh, CriticalPush
  <2>2. Inc(tail) \in Index
    BY <1>1, Counters
  <2>3. Distance(Inc(tail), head) = Distance(tail, head) + 1 /\ Distance(tail, head) \in Index
    <3>1. Distance(tail, head) \in Index
      BY <1>1, Counters
    <3>2. Distance(tail, head) < IndexMod - 1
      BY <1>1, <2>1, <3>1 DEF Index
    <3>3. QED
      BY <1>1, <3>1, <3>2, Counters
  <2>4. TypeOK'
    BY <1>5, <2>1, <2>2 DEF PushStore, lockVars, CriticalPush, CriticalPop
  <2>5. Distance(tail', head') <= Capacity
    BY <1>5, <2>1, <2>3, RingAssumption DEF PushStore, Index
  <2>6. CriticalOwns'
    BY <1>5 DEF PushStore, lockVars, CriticalOwns, CriticalPush, CriticalPop
  <2>7. RegisterIsFresh'
    BY <1>3, <1>5 DEF PushStore, RegisterIsFresh, CriticalPush, CriticalPop
  <2>8. QED
    BY <2>4, <2>5, <2>6, <2>7 DEF LockInv, Occupancy, Distance
<1>6. CASE PopStore(t)
  <2>1. reg[t] = head /\ head # tail
    BY <1>6 DEF PopStore, RegisterIsFresh, CriticalPop
  <2>2. Inc(head) \in Index
    BY <1>1, Counters
  <2>3. Distance(tail, Inc(head)) = Distance(tail, head) - 1 /\ Distance(tail, head) \in Index
    BY <1>1, <2>1, Counters
  <2>4. TypeOK'
    BY <1>6, <2>1, <2>2 DEF PopStore, lockVars, CriticalPush, CriticalPop
  <2>5. Distance(tail', head') <= Capacity
    BY <1>6, <2>1, <2>3, RingAssumption DEF PopStore, Index, Occupancy
  <2>6. CriticalOwns'
    BY <1>6 DEF PopStore, lockVars, CriticalOwns, CriticalPush, CriticalPop
  <2>7. RegisterIsFresh'
    BY <1>3, <1>6 DEF PopStore, RegisterIsFresh, CriticalPush, CriticalPop
  <2>8. QED
    BY <2>4, <2>5, <2>6, <2>7 DEF LockInv, Occupancy, Distance
<1>7. QED
  BY <1>4, <1>5, <1>6

\* Every step of the ring keeps its invariant.
LEMMA RingStepInv == RingInv /\ [Next]_vars => RingInv'
<1> SUFFICES ASSUME RingInv, [Next]_vars PROVE RingInv'
  OBVIOUS
<1>1. LockInv'
  BY RingKeepsLock
<1>2. ASSUME NEW t \in Threads, Call(t) \/ Acquire(t) \/ Advance(t)
      PROVE  RingInv'
  BY <1>1, <1>2, EnterStep, OwnerStep, SharedStep DEF Advance
<1>3. CASE UNCHANGED vars
  BY <1>3 DEF vars, RingInv, TypeOK, LockTypeOK, MutualExclusion, WordIsOwner, Owns,
              CriticalOwns, RegisterIsFresh, Occupancy, Distance
<1>4. QED
  BY <1>2, <1>3 DEF Next

\* The invariant of the ring: types, mutual exclusion of its lock, freshness of
\* every loaded counter, and an occupancy between zero and the capacity.
THEOREM RingInvariant == Spec => []RingInv
<1>1. Init => RingInv
  BY RingInit
<1>2. RingInv /\ [Next]_vars => RingInv'
  BY RingStepInv
<1>3. QED
  BY <1>1, <1>2, PTL DEF Spec

\* Type correctness of the ring.
THEOREM RingTypeCorrect == Spec => []TypeOK
<1>1. RingInv => TypeOK
  BY DEF RingInv
<1>2. QED
  BY <1>1, RingInvariant, PTL

\* At most one thread is inside push or pop past its lock call.
THEOREM RingMutualExclusion == Spec => []MutualExclusion
<1>1. RingInv => MutualExclusion
  BY DEF RingInv
<1>2. QED
  BY <1>1, RingInvariant, PTL

-----------------------------------------------------------------------------
\* Euclid's division.
LEMMA DivMod ==
  ASSUME NEW c \in Nat \ {0}, NEW a \in Nat
  PROVE  /\ a \div c \in Int
         /\ a % c \in 0 .. c - 1
         /\ a = c * (a \div c) + (a % c)
OBVIOUS

LEMMA SmallMultiple ==
  ASSUME NEW c \in Nat \ {0}, NEW x \in Int, c * x < c, c * x > -c
  PROVE  x = 0
<1>1. CASE x >= 1
  BY <1>1
<1>2. CASE x <= -1
  BY <1>2
<1>3. QED
  BY <1>1, <1>2

LEMMA Distrib ==
  ASSUME NEW c \in Int, NEW x \in Int, NEW y \in Int
  PROVE  c * x - c * y = c * (x - y)
OBVIOUS

\* The remainder of a division is unique.
LEMMA SameRemainder ==
  ASSUME NEW c \in Nat \ {0}, NEW q \in Int, NEW p \in Int,
         NEW r \in 0 .. c - 1, NEW s \in 0 .. c - 1,
         c * q + r = c * p + s
  PROVE  r = s
<1>1. c * (q - p) = s - r
  BY Distrib
<1>2. q - p = 0
  <2>1. c * (q - p) < c /\ c * (q - p) > -c
    BY <1>1
  <2>2. QED
    BY <2>1, SmallMultiple
<1>3. QED
  BY <1>2

\* Adding a multiple of the modulus leaves the remainder.
LEMMA Shift ==
  ASSUME NEW c \in Nat \ {0}, NEW m \in Nat, NEW k \in Nat, m % c = 0
  PROVE  (m + k) % c = k % c
<1> DEFINE q == (m \div c) + (k \div c)
           p == (m + k) \div c
<1>1. /\ m \div c \in Int /\ k \div c \in Int /\ p \in Int /\ q \in Int
      /\ k % c \in 0 .. c - 1 /\ (m + k) % c \in 0 .. c - 1
  BY DivMod
<1>2. m = c * (m \div c) /\ k = c * (k \div c) + (k % c)
  BY DivMod
<1>3. m + k = c * p + ((m + k) % c)
  BY DivMod
<1>4. c * (m \div c) + c * (k \div c) = c * q
  BY <1>1
<1>5. c * q + (k % c) = c * p + ((m + k) % c)
  BY <1>1, <1>2, <1>3, <1>4
<1> HIDE DEF p, q
<1>6. QED
  BY <1>1, <1>5, SameRemainder

\* Two numbers less than the modulus apart have different remainders.
LEMMA Apart ==
  ASSUME NEW c \in Nat \ {0}, NEW a \in Nat, NEW b \in Nat, a < b, b < a + c
  PROVE  a % c # b % c
<1> SUFFICES ASSUME a % c = b % c PROVE FALSE
  OBVIOUS
<1> DEFINE p == a \div c
           q == b \div c
<1>1. p \in Int /\ q \in Int /\ a % c \in 0 .. c - 1
  BY DivMod
<1>2. a = c * p + (a % c) /\ b = c * q + (a % c)
  BY DivMod
<1> HIDE DEF p, q
<1>3. c * q - c * p = c * (q - p)
  BY <1>1, Distrib
<1>4. b - a = c * (q - p)
  <2>1. c * p \in Int /\ c * q \in Int
    BY <1>1
  <2>2. QED
    BY <1>1, <1>2, <1>3, <2>1
<1>5. q - p = 0
  BY <1>1, <1>4, SmallMultiple
<1>6. QED
  BY <1>4, <1>5

\* A counter that wraps to zero masks to the slot it would have had without
\* the wrap, because the capacity divides the counters' range.
LEMMA AcrossTheWrap ==
  ASSUME NEW k \in Nat
  PROVE  SlotOf(IndexMod + k) = SlotOf(k)
<1>1. Capacity \in Nat \ {0} /\ IndexMod \in Nat /\ IndexMod % Capacity = 0
  BY RingAssumption
<1>2. QED
  BY <1>1, Shift DEF SlotOf

\* The place after the last item is the tail's slot.
LEMMA TailPlace ==
  ASSUME NEW hi \in Index, NEW lo \in Index
  PROVE  SlotOf(lo + Distance(hi, lo)) = SlotOf(hi)
<1>1. hi \in Nat /\ lo \in Nat /\ IndexMod \in Nat
  BY RingAssumption DEF Index
<1>2. CASE hi >= lo
  <2>1. lo + Distance(hi, lo) = hi
    BY <1>1, <1>2 DEF Distance
  <2>2. QED
    BY <2>1
<1>3. CASE ~(hi >= lo)
  <2>1. lo + Distance(hi, lo) = IndexMod + hi
    BY <1>1, <1>3 DEF Distance
  <2>2. QED
    BY <1>1, <2>1, AcrossTheWrap
<1>4. QED
  BY <1>2, <1>3

\* With room in the ring the tail's slot is none of the places in use.
LEMMA TailIsApart ==
  ASSUME NEW hi \in Index, NEW lo \in Index, Distance(hi, lo) < Capacity,
         NEW e \in 1 .. Distance(hi, lo)
  PROVE  SlotOf(lo + e - 1) # SlotOf(hi)
<1> DEFINE d == Distance(hi, lo)
<1>1. /\ lo \in Nat /\ d \in Nat /\ Capacity \in Nat \ {0} /\ e \in Nat
      /\ 1 <= e /\ e <= d /\ d < Capacity
  BY Counters, RingAssumption DEF Index
<1>2. SlotOf(lo + d) = SlotOf(hi)
  BY TailPlace
<1> HIDE DEF d
<1>3. /\ lo + e - 1 \in Nat /\ lo + d \in Nat
      /\ lo + e - 1 < lo + d /\ lo + d < (lo + e - 1) + Capacity
  BY <1>1
<1>4. SlotOf(lo + e - 1) # SlotOf(lo + d)
  BY <1>1, <1>3, Apart DEF SlotOf
<1>5. QED
  BY <1>2, <1>4

\* Counted from the next head every place is one nearer.
LEMMA NextPlace ==
  ASSUME NEW lo \in Index, NEW k \in Nat
  PROVE  SlotOf(Inc(lo) + k) = SlotOf(lo + 1 + k)
<1>1. lo \in Nat /\ IndexMod \in Nat
  BY RingAssumption DEF Index
<1>2. CASE lo + 1 = IndexMod
  <2>1. Inc(lo) + k = k /\ lo + 1 + k = IndexMod + k
    BY <1>1, <1>2 DEF Inc
  <2>2. QED
    BY <2>1, AcrossTheWrap
<1>3. CASE lo + 1 # IndexMod
  <2>1. Inc(lo) + k = lo + 1 + k
    BY <1>1, <1>3 DEF Inc
  <2>2. QED
    BY <2>1
<1>4. QED
  BY <1>2, <1>3

\* The contents are a sequence of items as long as the counters are apart.
LEMMA ContentsAreItems ==
  ASSUME RingInv, ItemsAreKept
  PROVE  /\ Contents \in Seq(Items) /\ Len(Contents) = Distance(tail, head)
         /\ DOMAIN Contents = 1 .. Distance(tail, head)
         /\ Distance(tail, head) \in Nat
         /\ \A e \in 1 .. Distance(tail, head) : Contents[e] = Held(e)
<1>1. Distance(tail, head) \in Nat
  BY Counters DEF RingInv, TypeOK, Index
<1>2. Contents \in [1 .. Distance(tail, head) -> Items]
  BY DEF ItemsAreKept, Contents
<1>3. Contents \in Seq(Items)
  BY <1>1, <1>2
<1>4. Len(Contents) = Distance(tail, head)
  BY <1>1, <1>2, <1>3, LenProperties
<1>5. QED
  BY <1>1, <1>3, <1>4 DEF Contents

\* A step that moves no counter and writes none of the places in use leaves
\* the contents.
LEMMA SameContents ==
  ASSUME UNCHANGED <<head, tail>>,
         \A e \in 1 .. Distance(tail, head) : Held(e)' = Held(e)
  PROVE  Contents' = Contents
<1>1. Distance(tail, head)' = Distance(tail, head)
  BY DEF Distance
<1>2. QED
  BY <1>1 DEF Contents

\* A new ring is empty and no call is under way.
LEMMA ItemsInit == Init => ItemsAreKept
<1> SUFFICES ASSUME Init PROVE ItemsAreKept
  OBVIOUS
<1>1. Distance(tail, head) = 0
  BY DEF Init, Distance
<1>2. QED
  BY <1>1 DEF Init, ItemsAreKept, CriticalPush, Late

\* A step of one thread that leaves the counters and the arena alone.
LEMMA LocalKeeps ==
  ASSUME ItemsAreKept, NEW t \in Threads, UNCHANGED <<head, tail, slots>>,
         \A s \in Threads \ {t} : pc'[s] = pc[s] /\ arg'[s] = arg[s] /\ result'[s] = result[s],
         pc'[t] \in {"push"} \cup CriticalPush => arg'[t] \in Items,
         pc'[t] = "push_store" => slots[SlotOf(tail)] = arg'[t],
         pc'[t] = "pop_store" => arg'[t] = slots[SlotOf(head)],
         result'[t] # Nothing <=> pc'[t] \in Late
  PROVE  ItemsAreKept' /\ Contents' = Contents
<1>1. Distance(tail, head)' = Distance(tail, head)
  BY DEF Distance
<1>2. \A e \in 1 .. Distance(tail, head) : Held(e)' = Held(e)
  BY DEF Held
<1>3. Contents' = Contents
  BY <1>2, SameContents
<1>4. \A e \in (1 .. Distance(tail, head))' : Held(e)' \in Items
  BY <1>1, <1>2 DEF ItemsAreKept
<1>5. QED
  BY <1>3, <1>4 DEF ItemsAreKept

\* The owner is past its lock call, so it alone holds what it loaded.
LEMMA OnlyOwner ==
  ASSUME RingInv, NEW t \in Threads, pc[t] \in CriticalPush \cup CriticalPop
  PROVE  /\ lk[t] = "in"
         /\ \A s \in Threads \ {t} : pc[s] \notin CriticalPush \cup CriticalPop
<1>1. lk[t] = "in"
  BY DEF RingInv, CriticalOwns
<1>2. QED
  BY <1>1, OneInside

\* The item is written behind the last one, where no item is.
LEMMA CopyKeeps ==
  ASSUME RingInv, ItemsAreKept, NEW t \in Threads, PushCopy(t)
  PROVE  ItemsAreKept' /\ Contents' = Contents
<1>1. /\ pc[t] = "push_copy" /\ pc' = [pc EXCEPT ![t] = "push_store"]
      /\ slots' = [slots EXCEPT ![SlotOf(reg[t])] = arg[t]]
      /\ UNCHANGED <<head, tail, arg, result>>
  BY DEF PushCopy, Step
<1>2. /\ head \in Index /\ tail \in Index /\ slots \in [0 .. Capacity - 1 -> Items \cup {Nothing}]
      /\ pc \in [Threads -> {"idle", "push", "pop"} \cup CriticalPush \cup CriticalPop \cup Late]
  BY DEF RingInv, TypeOK
<1>3. reg[t] = tail /\ Distance(tail, head) < Capacity
  BY <1>1 DEF RingInv, RegisterIsFresh, CriticalPush
<1>4. \A s \in Threads \ {t} : pc[s] \notin CriticalPush \cup CriticalPop
  BY <1>1, OnlyOwner DEF CriticalPush
<1>5. SlotOf(tail) \in 0 .. Capacity - 1
  BY <1>2, SlotInArena
<1>6. \A e \in 1 .. Distance(tail, head) : Held(e)' = Held(e)
  <2> SUFFICES ASSUME NEW e \in 1 .. Distance(tail, head) PROVE Held(e)' = Held(e)
    OBVIOUS
  <2>1. SlotOf(head + e - 1) # SlotOf(tail)
    BY <1>2, <1>3, TailIsApart
  <2>2. QED
    BY <1>1, <1>2, <1>3, <2>1 DEF Held
<1>7. Distance(tail, head)' = Distance(tail, head)
  BY <1>1 DEF Distance
<1>8. Contents' = Contents
  BY <1>1, <1>6, SameContents
<1>9. (\A e \in 1 .. Distance(tail, head) : Held(e) \in Items)'
  BY <1>6, <1>7 DEF ItemsAreKept
<1>10. slots'[SlotOf(tail)] = arg[t]
  BY <1>1, <1>2, <1>3, <1>5
<1>11. ASSUME NEW s \in Threads
       PROVE  (/\ pc[s] \in {"push"} \cup CriticalPush => arg[s] \in Items
               /\ pc[s] = "push_store" => slots[SlotOf(tail)] = arg[s]
               /\ pc[s] = "pop_store" => arg[s] = slots[SlotOf(head)]
               /\ result[s] # Nothing <=> pc[s] \in Late)'
  <2>1. CASE s = t
    BY <1>1, <1>2, <1>10, <2>1 DEF ItemsAreKept, CriticalPush, Late
  <2>2. CASE s # t
    BY <1>1, <1>2, <1>4, <2>2 DEF ItemsAreKept, CriticalPush, CriticalPop, Late
  <2>3. QED
    BY <2>1, <2>2
<1>12. QED
  BY <1>8, <1>9, <1>11 DEF ItemsAreKept

\* Storing the tail appends the item the call copied.
LEMMA StoreAppends ==
  ASSUME RingInv, RingInv', ItemsAreKept, NEW t \in Threads, PushStore(t)
  PROVE  /\ ItemsAreKept'
         /\ Len(Contents) < Capacity /\ arg[t] \in Items
         /\ Contents' = Append(Contents, arg[t])
<1> DEFINE d == Distance(tail, head)
<1>1. /\ pc[t] = "push_store" /\ pc' = [pc EXCEPT ![t] = "leave"]
      /\ tail' = Inc(reg[t]) /\ result' = [result EXCEPT ![t] = "pushed"]
      /\ UNCHANGED <<head, slots, arg>>
  BY DEF PushStore, Step
<1>2. /\ head \in Index /\ tail \in Index /\ result \in [Threads -> Items \cup {"pushed", "full", "empty", Nothing}]
      /\ pc \in [Threads -> {"idle", "push", "pop"} \cup CriticalPush \cup CriticalPop \cup Late]
  BY DEF RingInv, TypeOK
<1>3. reg[t] = tail /\ d < Capacity
  BY <1>1 DEF RingInv, RegisterIsFresh, CriticalPush
<1>4. \A s \in Threads \ {t} : pc[s] \notin CriticalPush \cup CriticalPop
  BY <1>1, OnlyOwner DEF CriticalPush
<1>5. arg[t] \in Items /\ slots[SlotOf(tail)] = arg[t]
  BY <1>1 DEF ItemsAreKept, CriticalPush
<1>6. d \in Nat /\ Distance(tail', head') = d + 1
  BY <1>1, <1>2, <1>3, Counters, RingAssumption DEF Index
<1>7. \A e \in 1 .. d + 1 : e = d + 1 => Held(e)' = arg[t]
  <2>1. SlotOf(head + d) = SlotOf(tail)
    BY <1>2, TailPlace
  <2>2. head + (d + 1) - 1 = head + d
    BY <1>2, <1>6, RingAssumption DEF Index
  <2>3. QED
    BY <1>1, <1>5, <2>1, <2>2 DEF Held
<1>8. \A e \in 1 .. d : Held(e)' = Held(e)
  BY <1>1 DEF Held
<1>9. \A e \in 1 .. d : Held(e) \in Items
  BY DEF ItemsAreKept
<1> HIDE DEF d
<1>10. Contents = [e \in 1 .. d |-> Held(e)] /\ Contents \in Seq(Items) /\ Len(Contents) = d
  BY ContentsAreItems DEF Contents, d
<1>11. Contents' = [e \in 1 .. d + 1 |-> Held(e)']
  BY <1>6 DEF Contents
<1>12. Contents' = Append(Contents, arg[t])
  <2>1. Append(Contents, arg[t]) = [e \in 1 .. d + 1 |-> IF e <= d THEN Held(e) ELSE arg[t]]
    BY <1>5, <1>6, <1>10
  <2>2. \A e \in 1 .. d + 1 : Held(e)' = IF e <= d THEN Held(e) ELSE arg[t]
    BY <1>6, <1>7, <1>8
  <2>3. QED
    BY <1>11, <2>1, <2>2
<1>13. (\A e \in 1 .. Distance(tail, head) : Held(e) \in Items)'
  <2>1. \A e \in 1 .. d + 1 : Held(e)' \in Items
    BY <1>5, <1>6, <1>7, <1>8, <1>9
  <2>2. QED
    BY <1>6, <2>1
<1>14. "pushed" # Nothing
  BY RingAssumption
<1>15. ASSUME NEW s \in Threads
       PROVE  (/\ pc[s] \in {"push"} \cup CriticalPush => arg[s] \in Items
               /\ pc[s] = "push_store" => slots[SlotOf(tail)] = arg[s]
               /\ pc[s] = "pop_store" => arg[s] = slots[SlotOf(head)]
               /\ result[s] # Nothing <=> pc[s] \in Late)'
  <2>1. CASE s = t
    BY <1>1, <1>2, <1>14, <2>1 DEF ItemsAreKept, CriticalPush, Late
  <2>2. CASE s # t
    BY <1>1, <1>2, <1>4, <2>2 DEF ItemsAreKept, CriticalPush, CriticalPop, Late
  <2>3. QED
    BY <2>1, <2>2
<1>16. QED
  BY <1>3, <1>5, <1>10, <1>12, <1>13, <1>15 DEF ItemsAreKept

\* Storing the head takes the oldest item, the one the call copied out.
LEMMA StoreTakes ==
  ASSUME RingInv, ItemsAreKept, NEW t \in Threads, PopStore(t)
  PROVE  /\ ItemsAreKept'
         /\ Contents # <<>> /\ Head(Contents) = arg[t] /\ arg[t] \in Items
         /\ Contents' = Tail(Contents)
<1> DEFINE d == Distance(tail, head)
<1>1. /\ pc[t] = "pop_store" /\ pc' = [pc EXCEPT ![t] = "leave"]
      /\ head' = Inc(reg[t]) /\ result' = [result EXCEPT ![t] = arg[t]]
      /\ UNCHANGED <<tail, slots, arg>>
  BY DEF PopStore, Step
<1>2. /\ head \in Index /\ tail \in Index /\ result \in [Threads -> Items \cup {"pushed", "full", "empty", Nothing}]
      /\ pc \in [Threads -> {"idle", "push", "pop"} \cup CriticalPush \cup CriticalPop \cup Late]
  BY DEF RingInv, TypeOK
<1>3. reg[t] = head /\ head # tail
  BY <1>1 DEF RingInv, RegisterIsFresh, CriticalPop
<1>4. \A s \in Threads \ {t} : pc[s] \notin CriticalPush \cup CriticalPop
  BY <1>1, OnlyOwner DEF CriticalPop
<1>5. d \in Nat /\ d > 0 /\ Distance(tail', head') = d - 1
  <2>1. d \in Index /\ d # 0
    BY <1>2, <1>3, Counters
  <2>2. Distance(tail, Inc(head)) = d - 1
    BY <1>2, <1>3, Counters
  <2>3. QED
    BY <1>1, <1>3, <2>1, <2>2 DEF Index
<1>6. head \in Nat
  BY <1>2, RingAssumption DEF Index
<1>7. Held(1) = arg[t]
  <2>1. head + 1 - 1 = head
    BY <1>6
  <2>2. QED
    BY <1>1, <2>1 DEF Held, ItemsAreKept
<1>8. \A e \in 1 .. d - 1 : Held(e)' = Held(e + 1)
  <2> SUFFICES ASSUME NEW e \in 1 .. d - 1 PROVE Held(e)' = Held(e + 1)
    OBVIOUS
  <2>1. e \in Nat /\ e - 1 \in Nat
    BY <1>5
  <2>2. SlotOf(Inc(head) + (e - 1)) = SlotOf(head + 1 + (e - 1))
    BY <1>2, <2>1, NextPlace
  <2>3. Inc(head) \in Nat
    BY <1>2, Counters, RingAssumption DEF Index
  <2>4. Inc(head) + (e - 1) = Inc(head) + e - 1 /\ head + 1 + (e - 1) = head + (e + 1) - 1
    BY <1>6, <2>1, <2>3
  <2>5. QED
    BY <1>1, <1>3, <2>2, <2>4 DEF Held
<1>9. \A e \in 1 .. d : Held(e) \in Items
  BY DEF ItemsAreKept
<1>10. Contents = [e \in 1 .. d |-> Held(e)] /\ Contents \in Seq(Items) /\ Len(Contents) = d
  BY ContentsAreItems DEF Contents
<1> HIDE DEF d
<1>11. Contents' = [e \in 1 .. d - 1 |-> Held(e)']
  BY <1>5 DEF Contents
<1>12. Contents # <<>> /\ Head(Contents) = arg[t]
  BY <1>5, <1>7, <1>10
<1>13. Contents' = Tail(Contents)
  <2>1. Tail(Contents) = [e \in 1 .. d - 1 |-> Held(e + 1)]
    BY <1>5, <1>10
  <2>2. QED
    BY <1>8, <1>11, <2>1
<1>14. (\A e \in 1 .. Distance(tail, head) : Held(e) \in Items)'
  <2>1. \A e \in 1 .. d - 1 : Held(e)' \in Items
    BY <1>5, <1>8, <1>9
  <2>2. QED
    BY <1>5, <2>1
<1>15. arg[t] \in Items /\ arg[t] # Nothing
  BY <1>5, <1>7, <1>9, RingAssumption
<1>16. ASSUME NEW s \in Threads
       PROVE  (/\ pc[s] \in {"push"} \cup CriticalPush => arg[s] \in Items
               /\ pc[s] = "push_store" => slots[SlotOf(tail)] = arg[s]
               /\ pc[s] = "pop_store" => arg[s] = slots[SlotOf(head)]
               /\ result[s] # Nothing <=> pc[s] \in Late)'
  <2>1. CASE s = t
    BY <1>1, <1>2, <1>15, <2>1 DEF ItemsAreKept, CriticalPush, Late
  <2>2. CASE s # t
    BY <1>1, <1>2, <1>4, <2>2 DEF ItemsAreKept, CriticalPush, CriticalPop, Late
  <2>3. QED
    BY <2>1, <2>2
<1>17. QED
  BY <1>12, <1>13, <1>14, <1>15, <1>16 DEF ItemsAreKept

\* The steps in which a call begins, waits, loads or unlocks decide nothing.
LEMMA QuietStep ==
  ASSUME RingInv, ItemsAreKept, NEW t \in Threads,
         Call(t) \/ Acquire(t) \/ PushLoad(t) \/ PopLoad(t) \/ PopCopy(t) \/ Unlock(t)
  PROVE  ItemsAreKept' /\ UNCHANGED <<Contents, result>>
<1> USE DEF Step, CriticalPush, CriticalPop, Late
<1>1. /\ pc \in [Threads -> {"idle", "push", "pop"} \cup CriticalPush \cup CriticalPop \cup Late]
      /\ arg \in [Threads -> Items \cup {Nothing}]
  BY DEF RingInv, TypeOK
<1>2. /\ pc[t] \in {"push"} \cup CriticalPush => arg[t] \in Items
      /\ pc[t] = "push_store" => slots[SlotOf(tail)] = arg[t]
      /\ pc[t] = "pop_store" => arg[t] = slots[SlotOf(head)]
      /\ result[t] # Nothing <=> pc[t] \in Late
  BY DEF ItemsAreKept
<1>3. CASE Acquire(t)
  BY <1>2, <1>3, LocalKeeps DEF Acquire, ringVars
<1>4. CASE Call(t)
  BY <1>1, <1>2, <1>4, LocalKeeps DEF Call, PopCall, PushCall
<1>5. CASE PushLoad(t)
  BY <1>1, <1>2, <1>5, LocalKeeps DEF PushLoad
<1>6. CASE PopLoad(t)
  BY <1>1, <1>2, <1>6, LocalKeeps DEF PopLoad
<1>7. CASE PopCopy(t)
  <2>1. reg[t] = head
    BY <1>7 DEF PopCopy, RingInv, RegisterIsFresh
  <2>2. QED
    BY <1>1, <1>2, <1>7, <2>1, LocalKeeps DEF PopCopy
<1>8. CASE Unlock(t)
  BY <1>1, <1>2, <1>8, LocalKeeps DEF Unlock
<1>9. QED
  BY <1>3, <1>4, <1>5, <1>6, <1>7, <1>8

\* A push that finds the ring full and a pop that finds it empty say so.
LEMMA RefusalIsExact ==
  ASSUME RingInv, ItemsAreKept, NEW t \in Threads, PushFull(t) \/ PopEmpty(t)
  PROVE  ItemsAreKept' /\ (Fifo!Full(t) \/ Fifo!Empty(t))
<1> USE DEF Step, CriticalPush, CriticalPop, Late
<1>1. /\ pc \in [Threads -> {"idle", "push", "pop"} \cup CriticalPush \cup CriticalPop \cup Late]
      /\ result \in [Threads -> Items \cup {"pushed", "full", "empty", Nothing}]
      /\ head \in Index /\ tail \in Index
  BY DEF RingInv, TypeOK
<1>2. /\ Contents \in Seq(Items) /\ Len(Contents) = Distance(tail, head)
      /\ Distance(tail, head) \in Nat /\ Capacity \in Nat
  BY ContentsAreItems, RingAssumption
<1>3. "full" # Nothing /\ "empty" # Nothing
  BY RingAssumption
<1>4. CASE PushFull(t)
  <2>1. ItemsAreKept' /\ Contents' = Contents
    BY <1>1, <1>3, <1>4, LocalKeeps DEF PushFull
  <2>2. Len(Contents) = Capacity
    BY <1>2, <1>4 DEF PushFull, IsFull, RingInv, Occupancy
  <2>3. result[t] = Nothing
    BY <1>4 DEF PushFull, ItemsAreKept
  <2>4. QED
    BY <1>4, <2>1, <2>2, <2>3 DEF PushFull, Fifo!Full, Fifo!Decide
<1>5. CASE PopEmpty(t)
  <2>1. ItemsAreKept' /\ Contents' = Contents
    BY <1>1, <1>3, <1>5, LocalKeeps DEF PopEmpty
  <2>2. Contents = <<>>
    <3>1. Distance(tail, head) = 0
      BY <1>1, <1>5, Counters DEF PopEmpty
    <3>2. QED
      BY <1>2, <3>1
  <2>3. result[t] = Nothing
    BY <1>5 DEF PopEmpty, ItemsAreKept
  <2>4. QED
    BY <1>5, <2>1, <2>2, <2>3 DEF PopEmpty, Fifo!Empty, Fifo!Decide
<1>6. QED
  BY <1>4, <1>5

\* A call returns what it decided.
LEMMA ReturnReturns ==
  ASSUME RingInv, ItemsAreKept, NEW t \in Threads, Return(t)
  PROVE  ItemsAreKept' /\ Fifo!Return(t)
<1>1. /\ pc \in [Threads -> {"idle", "push", "pop"} \cup CriticalPush \cup CriticalPop \cup Late]
      /\ arg \in [Threads -> Items \cup {Nothing}]
      /\ result \in [Threads -> Items \cup {"pushed", "full", "empty", Nothing}]
  BY DEF RingInv, TypeOK
<1>2. ItemsAreKept' /\ Contents' = Contents
  BY <1>1, LocalKeeps DEF Return, Step, CriticalPush, CriticalPop, Late
<1>3. result[t] # Nothing
  BY DEF Return, Step, ItemsAreKept, Late
<1>4. QED
  BY <1>2, <1>3 DEF Return, Fifo!Return

\* Every step of the ring is a step of the queue or leaves it as it is.
LEMMA RingStepIsFifoStep ==
  RingInv /\ RingInv' /\ ItemsAreKept /\ [Next]_vars
    => ItemsAreKept' /\ [Fifo!Next]_<<Contents, result>>
<1> SUFFICES ASSUME RingInv, RingInv', ItemsAreKept, [Next]_vars
             PROVE  ItemsAreKept' /\ [Fifo!Next]_<<Contents, result>>
  OBVIOUS
<1>1. CASE UNCHANGED vars
  <2>1. UNCHANGED <<head, tail, slots, pc, arg, result>>
    BY <1>1 DEF vars
  <2>2. Distance(tail, head)' = Distance(tail, head)
    BY <2>1 DEF Distance
  <2>3. \A e \in 1 .. Distance(tail, head) : Held(e)' = Held(e)
    BY <2>1 DEF Held
  <2>4. Contents' = Contents
    BY <2>1, <2>3, SameContents
  <2>5. (\A e \in 1 .. Distance(tail, head) : Held(e) \in Items)'
    BY <2>2, <2>3 DEF ItemsAreKept
  <2>6. QED
    BY <2>1, <2>4, <2>5 DEF ItemsAreKept
<1>2. ASSUME NEW t \in Threads, Call(t) \/ Acquire(t) \/ Advance(t)
      PROVE  ItemsAreKept' /\ [Fifo!Next]_<<Contents, result>>
  <2>1. CASE Call(t) \/ Acquire(t) \/ PushLoad(t) \/ PopLoad(t) \/ PopCopy(t) \/ Unlock(t)
    BY <2>1, QuietStep
  <2>2. CASE PushFull(t) \/ PopEmpty(t)
    BY <2>2, RefusalIsExact DEF Fifo!Next
  <2>3. CASE PushCopy(t)
    BY <2>3, CopyKeeps DEF PushCopy
  <2>4. CASE PushStore(t)
    <3>1. result[t] = Nothing /\ result' = [result EXCEPT ![t] = "pushed"]
      BY <2>4 DEF PushStore, Step, ItemsAreKept, Late
    <3>2. Fifo!Push(t, arg[t])
      BY <2>4, <3>1, StoreAppends DEF Fifo!Push, Fifo!Decide
    <3>3. QED
      BY <2>4, <3>2, StoreAppends DEF Fifo!Next
  <2>5. CASE PopStore(t)
    <3>1. result[t] = Nothing /\ result' = [result EXCEPT ![t] = arg[t]]
      BY <2>5 DEF PopStore, Step, ItemsAreKept, Late
    <3>2. Fifo!Pop(t)
      BY <2>5, <3>1, StoreTakes DEF Fifo!Pop, Fifo!Decide
    <3>3. QED
      BY <2>5, <3>2, StoreTakes DEF Fifo!Next
  <2>6. CASE Return(t)
    BY <2>6, ReturnReturns DEF Fifo!Next
  <2>7. QED
    BY <1>2, <2>1, <2>2, <2>3, <2>4, <2>5, <2>6 DEF Advance
<1>3. QED
  BY <1>1, <1>2 DEF Next

\* The ring is a bounded first-in first-out queue: a push that succeeds
\* appends, a pop returns the oldest item, and each refuses exactly when the
\* ring is full or empty, for every capacity and across every wrap of the
\* counters.
THEOREM RingImplementsFifo == Spec => ImplementsFifo
<1>1. Init => Fifo!Init
  <2> SUFFICES ASSUME Init PROVE Fifo!Init
    OBVIOUS
  <2>1. Distance(tail, head) = 0
    BY DEF Init, Distance
  <2>2. Contents = <<>>
    BY <2>1 DEF Contents
  <2>3. QED
    BY <2>2 DEF Init, Fifo!Init
<1>2. QED
  BY <1>1, ItemsInit, RingStepIsFifoStep, RingInvariant, PTL DEF Spec, ImplementsFifo, Fifo!Spec

-----------------------------------------------------------------------------
(* WorkerThread: the worker engine of thread/thread.c                       *)

\* A new handle is stopped, with an empty ring.
LEMMA WorkerStart == WorkerInit => WorkerInv
<1> SUFFICES ASSUME WorkerInit PROVE WorkerInv
  OBVIOUS
<1> USE DEF WorkerInit
<1>1. <<>> \in Seq(Tasks) /\ Len(<<>>) = 0
  BY EmptySeq
<1>2. queue \in Seq(Tasks) /\ accepted \in Seq(Tasks) /\ done \in Seq(Tasks) /\ Len(queue) <= QueueCapacity
  BY <1>1, WorkerAssumption
<1>3. platform \in 0 .. MaxSpawns
  BY WorkerAssumption
<1>4. WorkerTypeOK
  BY <1>2, <1>3 DEF WorkerTypeOK
<1>5. OneLoop /\ ControlKnows /\ TaskInJob
  BY DEF OneLoop, ControlKnows, TaskInJob, Alive
<1>6. QED
  BY <1>4, <1>5 DEF WorkerInv

\* A step of the controller.
LEMMA ControllerStep ==
  ASSUME WorkerInv, Controller
  PROVE  WorkerInv'
<1> USE DEF WorkerInv, Control, fixed
<1>1. platform \in Nat /\ MaxSpawns \in Nat /\ platform <= MaxSpawns
  BY WorkerAssumption DEF WorkerTypeOK
<1>2. CASE RunSpawn
  <2> USE <1>2 DEF RunSpawn
  <2>1. platform + 1 \in Platforms /\ \A p \in Platforms : ~Alive(p)
    BY <1>1 DEF ControlKnows, Platforms
  <2>2. \A p \in Platforms : Alive(p)' <=> p = platform + 1
    BY <2>1 DEF Alive, WorkerTypeOK
  <2>3. WorkerTypeOK'
    BY <1>1, <2>1 DEF WorkerTypeOK, Platforms
  <2>4. TaskInJob'
    BY <2>1 DEF TaskInJob, Alive, WorkerTypeOK
  <2>5. OneLoop' /\ ControlKnows'
    BY <1>1, <2>2 DEF OneLoop, ControlKnows
  <2>6. QED
    BY <2>3, <2>4, <2>5
<1>3. CASE StopJoin \/ FreeJoin
  <2>1. /\ UNCHANGED <<state, platform, queue, loop, task, sub, accepted, done, core, tick>>
        /\ started' = FALSE
        /\ started => loop[platform] = "exit"
        /\ ctl \in {"stop_join", "free_join"}
    BY <1>3 DEF StopJoin, FreeJoin, Join
  <2>2. \/ ctl' = "idle" /\ freed' = FALSE
        \/ ctl' = "freed" /\ freed' = TRUE
    BY <1>3, <2>1 DEF StopJoin, FreeJoin, Join, ControlKnows, WorkerTypeOK
  <2>3. \A p \in Platforms : ~Alive(p)
    BY <2>1 DEF OneLoop, ControlKnows, Alive
  <2>4. WorkerTypeOK'
    BY <2>1, <2>2 DEF WorkerTypeOK
  <2>5. OneLoop' /\ TaskInJob'
    BY <2>1 DEF OneLoop, TaskInJob, Alive
  <2>6. ControlKnows'
    BY <2>1, <2>2, <2>3 DEF ControlKnows, Alive
  <2>7. QED
    BY <2>4, <2>5, <2>6
<1>4. CASE RunSwap \/ RunMark \/ RunFail \/ Stop \/ Free
  <2>1. UNCHANGED <<platform, queue, loop, task, sub, accepted, done, core, tick, freed>>
    BY <1>4 DEF RunSwap, RunMark, RunFail, Stop, Free
  <2>2. WorkerTypeOK'
    BY <1>4, <2>1 DEF RunSwap, RunMark, RunFail, Stop, Free, WorkerTypeOK
  <2>3. OneLoop' /\ TaskInJob'
    BY <2>1 DEF OneLoop, TaskInJob, Alive
  <2>4. ControlKnows'
    BY <1>4, <2>1 DEF RunSwap, RunMark, RunFail, Stop, Free, ControlKnows, Alive, WorkerTypeOK
  <2>5. QED
    BY <2>2, <2>3, <2>4
<1>5. QED
  BY <1>2, <1>3, <1>4 DEF Controller

\* A step of a submit.
LEMMA SubmitStep ==
  ASSUME WorkerInv, NEW s \in Submitters, Submit(s)
  PROVE  WorkerInv'
<1> USE DEF WorkerInv, fixed
<1>1. UNCHANGED <<state, started, platform, core, tick, loop, task, ctl, freed, done>>
  BY DEF Submit, SubmitCheck, SubmitPush, SubmitFull
<1>2. OneLoop' /\ ControlKnows' /\ TaskInJob'
  BY <1>1 DEF OneLoop, ControlKnows, TaskInJob, Alive
<1>3. sub' \in [Submitters -> Tasks \cup {NoTask}]
  BY DEF Submit, SubmitCheck, SubmitPush, SubmitFull, WorkerTypeOK
<1>4. queue' \in Seq(Tasks) /\ Len(queue') <= QueueCapacity /\ accepted' \in Seq(Tasks)
  <2>1. CASE SubmitPush(s)
    <3>1. sub[s] \in Tasks /\ queue \in Seq(Tasks) /\ accepted \in Seq(Tasks)
      BY <2>1 DEF SubmitPush, WorkerTypeOK
    <3>2. Append(queue, sub[s]) \in Seq(Tasks) /\ Len(Append(queue, sub[s])) = Len(queue) + 1
          /\ Append(accepted, sub[s]) \in Seq(Tasks) /\ Len(queue) \in Nat
      BY <3>1, AppendProperties, LenProperties
    <3>3. QED
      BY <2>1, <3>2, WorkerAssumption DEF SubmitPush
  <2>2. CASE ~SubmitPush(s)
    BY <2>2 DEF Submit, SubmitCheck, SubmitFull, WorkerTypeOK
  <2>3. QED
    BY <2>1, <2>2
<1>5. WorkerTypeOK'
  BY <1>1, <1>3, <1>4 DEF WorkerTypeOK
<1>6. QED
  BY <1>2, <1>5

\* A step of a loop.
LEMMA LoopKeeps ==
  ASSUME WorkerInv, NEW p \in Platforms, Loop(p)
  PROVE  WorkerInv'
<1> USE DEF WorkerInv, LoopStep, fixed
<1>1. UNCHANGED <<state, started, platform, core, tick, ctl, sub, freed, accepted>>
  BY DEF Loop, LoopGoOn, LoopExit, LoopPop, LoopIdle, LoopWake, LoopJob
<1>2. Alive(p) /\ loop' \in [Platforms -> {"none", "check", "pop", "job", "sleep", "exit"}]
      /\ \A q \in Platforms \ {p} : loop'[q] = loop[q]
  BY DEF Loop, LoopGoOn, LoopExit, LoopPop, LoopIdle, LoopWake, LoopJob, Alive, WorkerTypeOK
<1>3. OneLoop' /\ ControlKnows'
  BY <1>1, <1>2 DEF OneLoop, ControlKnows, Alive
<1>4. queue' \in Seq(Tasks) /\ Len(queue') <= QueueCapacity
      /\ task' \in [Platforms -> Tasks \cup {NoTask}] /\ done' \in Seq(Tasks)
  <2>1. CASE LoopPop(p)
    <3>1. queue \in Seq(Tasks) /\ queue # <<>>
      BY <2>1 DEF LoopPop, WorkerTypeOK
    <3>2. Head(queue) \in Tasks /\ Tail(queue) \in Seq(Tasks) /\ Len(Tail(queue)) = Len(queue) - 1
          /\ Len(queue) \in Nat
      BY <3>1, HeadTailProperties, LenProperties
    <3>3. QED
      BY <2>1, <3>2, WorkerAssumption DEF LoopPop, WorkerTypeOK
  <2>2. CASE LoopJob(p)
    <3>1. task[p] # NoTask => Append(done, task[p]) \in Seq(Tasks)
      BY AppendProperties DEF WorkerTypeOK
    <3>2. QED
      BY <2>2, <3>1 DEF LoopJob, WorkerTypeOK
  <2>3. CASE ~LoopPop(p) /\ ~LoopJob(p)
    BY <2>3 DEF Loop, LoopGoOn, LoopExit, LoopIdle, LoopWake, WorkerTypeOK
  <2>4. QED
    BY <2>1, <2>2, <2>3
<1>5. TaskInJob'
  BY DEF Loop, LoopGoOn, LoopExit, LoopPop, LoopIdle, LoopWake, LoopJob, TaskInJob, WorkerTypeOK
<1>6. WorkerTypeOK'
  BY <1>1, <1>2, <1>4 DEF WorkerTypeOK
<1>7. QED
  BY <1>3, <1>5, <1>6
\* The worker's invariant: one live loop, the current platform thread's, which the
\* controller knows of until it has joined it.  Thread_run, Thread_stop, Thread_free.
THEOREM WorkerInvariant == WorkerSpec => []WorkerInv
<1>1. WorkerInv /\ [WorkerNext]_workerVars => WorkerInv'
  <2> SUFFICES ASSUME WorkerInv, [WorkerNext]_workerVars PROVE WorkerInv'
    OBVIOUS
  <2>1. CASE UNCHANGED workerVars
    BY <2>1 DEF workerVars, WorkerInv, WorkerTypeOK, OneLoop, ControlKnows, TaskInJob, Alive
  <2>2. QED
    BY <2>1, ControllerStep, SubmitStep, LoopKeeps DEF WorkerNext
<1>2. QED
  BY <1>1, WorkerStart, PTL DEF WorkerSpec

\* When stop or free has returned, no loop is left to run a job or touch the handle.
THEOREM StoppedIsQuiet == WorkerSpec => []QuietWhenStopped
<1>1. WorkerInv => QuietWhenStopped
  BY DEF WorkerInv, WorkerTypeOK, ControlKnows, QuietWhenStopped
<1>2. QED
  BY <1>1, WorkerInvariant, PTL

\* An element put at the end of a concatenation.
LEMMA AppendAtEnd ==
  \A d, j, q \in Seq(Tasks), e \in Tasks :
    Append(d \o j \o q, e) = d \o j \o Append(q, e)
<1> SUFFICES ASSUME NEW d \in Seq(Tasks), NEW j \in Seq(Tasks), NEW q \in Seq(Tasks), NEW e \in Tasks
             PROVE  Append(d \o j \o q, e) = d \o j \o Append(q, e)
  OBVIOUS
<1>1. <<e>> \in Seq(Tasks)
  OBVIOUS
<1>2. d \o j \in Seq(Tasks) /\ d \o j \o q \in Seq(Tasks)
  BY ConcatProperties
<1>3. Append(d \o j \o q, e) = (d \o j \o q) \o <<e>> /\ Append(q, e) = q \o <<e>>
  BY <1>2, AppendIsConcat
<1>4. (d \o j \o q) \o <<e>> = d \o j \o (q \o <<e>>)
  BY <1>1, <1>2, ConcatAssociative
<1>5. QED
  BY <1>3, <1>4

\* The first element of the last part moved to the middle, and the middle to the front.
LEMMA MiddleAndFront ==
  ASSUME NEW S, NEW d \in Seq(S), NEW q \in Seq(S)
  PROVE  /\ q # <<>> => d \o <<>> \o q = d \o <<Head(q)>> \o Tail(q)
         /\ \A e \in S : d \o <<e>> \o q = Append(d, e) \o <<>> \o q
<1>1. ASSUME q # <<>>
      PROVE  d \o <<>> \o q = d \o <<Head(q)>> \o Tail(q)
  <2>1. Head(q) \in S /\ Tail(q) \in Seq(S) /\ <<Head(q)>> \in Seq(S)
    BY <1>1, HeadTailProperties
  <2>2. q = <<Head(q)>> \o Tail(q)
    BY <1>1, <2>1, LenProperties
  <2>3. d \o <<Head(q)>> \o Tail(q) = d \o (<<Head(q)>> \o Tail(q))
    BY <2>1, ConcatAssociative
  <2>4. d \o <<>> = d
    BY ConcatEmptySeq
  <2>5. QED
    BY <2>2, <2>3, <2>4
<1>2. ASSUME NEW e \in S
      PROVE  d \o <<e>> \o q = Append(d, e) \o <<>> \o q
  <2>1. Append(d, e) \in Seq(S) /\ Append(d, e) = d \o <<e>>
    BY AppendIsConcat, AppendProperties
  <2>2. Append(d, e) \o <<>> = Append(d, e)
    BY <2>1, ConcatEmptySeq
  <2>3. QED
    BY <2>1, <2>2
<1>3. QED
  BY <1>1, <1>2

\* What was accepted is what is done, in its job and queued, in that order, whichever
\* step is taken.
LEMMA OrderStep ==
  WorkerInv /\ WorkerInv' /\ AcceptedInOrder /\ [WorkerNext]_workerVars => AcceptedInOrder'
<1> SUFFICES ASSUME WorkerInv, WorkerInv', AcceptedInOrder, [WorkerNext]_workerVars
             PROVE  AcceptedInOrder'
  OBVIOUS
<1> USE DEF AcceptedInOrder
<1>1. /\ queue \in Seq(Tasks) /\ done \in Seq(Tasks) /\ InJob \in Seq(Tasks)
      /\ platform \in 0 .. MaxSpawns /\ MaxSpawns \in Nat
      /\ platform > 0 => platform \in Platforms /\ task[platform] \in Tasks \cup {NoTask}
  BY EmptySeq, WorkerAssumption DEF WorkerInv, WorkerTypeOK, InJob, Platforms
<1>2. CASE Controller
  <2>1. UNCHANGED <<accepted, done, queue, task>>
    BY <1>2 DEF Controller, RunSwap, RunSpawn, RunMark, RunFail, Stop, StopJoin, Free, FreeJoin, Join, fixed
  <2>2. CASE RunSpawn
    <3>1. \A p \in Platforms : task[p] = NoTask
      BY <2>2 DEF RunSpawn, Control, WorkerInv, ControlKnows, TaskInJob, Alive, WorkerTypeOK
    <3>2. InJob = <<>> /\ InJob' = <<>>
      BY <1>1, <2>1, <2>2, <3>1 DEF InJob, RunSpawn, WorkerInv, WorkerTypeOK, Platforms
    <3>3. QED
      BY <2>1, <3>2
  <2>3. CASE ~RunSpawn
    <3>1. platform' = platform
      BY <1>2, <2>3 DEF Controller, RunSwap, RunMark, RunFail, Stop, StopJoin, Free, FreeJoin, Join
    <3>2. QED
      BY <2>1, <3>1 DEF InJob
  <2>4. QED
    BY <2>2, <2>3
<1>3. ASSUME NEW s \in Submitters, Submit(s)
      PROVE  AcceptedInOrder'
  <2>1. UNCHANGED <<done, task, platform>>
    BY <1>3 DEF Submit, SubmitCheck, SubmitPush, SubmitFull
  <2>2. InJob' = InJob
    BY <2>1 DEF InJob
  <2>3. CASE SubmitPush(s)
    <3>1. sub[s] \in Tasks
      BY <2>3 DEF SubmitPush, WorkerInv, WorkerTypeOK
    <3>2. Append(done \o InJob \o queue, sub[s]) = done \o InJob \o Append(queue, sub[s])
      BY <1>1, <3>1, AppendAtEnd
    <3>3. accepted' = Append(accepted, sub[s]) /\ queue' = Append(queue, sub[s])
      BY <2>3 DEF SubmitPush
    <3>4. QED
      BY <2>1, <2>2, <3>2, <3>3
  <2>4. CASE ~SubmitPush(s)
    BY <1>3, <2>1, <2>2, <2>4 DEF Submit, SubmitCheck, SubmitFull
  <2>5. QED
    BY <2>3, <2>4
<1>4. ASSUME NEW p \in Platforms, Loop(p)
      PROVE  AcceptedInOrder'
  <2>1. accepted' = accepted /\ platform' = platform /\ platform = p /\ platform > 0
    <3>1. accepted' = accepted /\ platform' = platform /\ Alive(p)
      BY <1>4 DEF Loop, LoopGoOn, LoopExit, LoopPop, LoopIdle, LoopWake, LoopJob, LoopStep, Alive
    <3>2. p > 0 /\ platform = p
      BY <1>1, <3>1 DEF WorkerInv, OneLoop, Platforms
    <3>3. QED
      BY <3>1, <3>2
  <2>2. CASE LoopPop(p)
    <3>1. InJob = <<>> /\ queue # <<>> /\ queue' = Tail(queue) /\ done' = done
      BY <2>1, <2>2 DEF LoopPop, LoopStep, InJob, WorkerInv, TaskInJob
    <3>2. task'[p] = Head(queue) /\ Head(queue) \in Tasks
      BY <1>1, <2>2, HeadTailProperties DEF LoopPop, WorkerInv, WorkerTypeOK
    <3>3. InJob' = <<Head(queue)>>
      BY <2>1, <3>2, WorkerAssumption DEF InJob
    <3>4. done \o <<>> \o queue = done \o <<Head(queue)>> \o Tail(queue)
      BY <1>1, <3>1, MiddleAndFront
    <3>5. QED
      BY <2>1, <3>1, <3>3, <3>4
  <2>3. CASE LoopJob(p)
    <3>1. InJob' = <<>> /\ queue' = queue
      BY <2>1, <2>3 DEF LoopJob, InJob, WorkerInv, WorkerTypeOK
    <3>2. CASE task[p] = NoTask
      BY <2>1, <2>3, <3>1, <3>2 DEF LoopJob, InJob
    <3>3. CASE task[p] # NoTask
      <4>1. task[p] \in Tasks /\ InJob = <<task[p]>> /\ done' = Append(done, task[p])
        BY <1>1, <2>1, <2>3, <3>3 DEF LoopJob, InJob
      <4>2. done \o <<task[p]>> \o queue = Append(done, task[p]) \o <<>> \o queue
        BY <1>1, <4>1, MiddleAndFront
      <4>3. QED
        BY <2>1, <3>1, <4>1, <4>2
    <3>4. QED
      BY <3>2, <3>3
  <2>4. CASE ~LoopPop(p) /\ ~LoopJob(p)
    <3>1. UNCHANGED <<queue, task, done>>
      BY <1>4, <2>4 DEF Loop, LoopGoOn, LoopExit, LoopIdle, LoopWake
    <3>2. QED
      BY <2>1, <3>1 DEF InJob
  <2>5. QED
    BY <2>2, <2>3, <2>4
<1>5. CASE UNCHANGED workerVars
  BY <1>5 DEF workerVars, InJob
<1>6. QED
  BY <1>2, <1>3, <1>4, <1>5 DEF WorkerNext

\* No accepted task is lost, run twice or overtaken, through stops, runs and a ring
\* that fills.  Thread_submit, platform_main.
THEOREM AcceptedStayInOrder == WorkerSpec => []AcceptedInOrder
<1>1. WorkerInit => AcceptedInOrder
  <2> SUFFICES ASSUME WorkerInit PROVE AcceptedInOrder
    OBVIOUS
  <2>1. InJob = <<>>
    BY DEF WorkerInit, InJob
  <2>2. <<>> \o <<>> \o <<>> = <<>>
    BY EmptySeq, ConcatEmptySeq
  <2>3. QED
    BY <2>1, <2>2 DEF WorkerInit, AcceptedInOrder
<1>2. QED
  BY <1>1, OrderStep, WorkerInvariant, PTL DEF WorkerSpec

-----------------------------------------------------------------------------
(* Dispatch: the mailbox of deferred/dispatch.c                             *)

(* The lock: Dispatch uses the single try and the unlock.                   *)

\* A ticket is never the word of a free lock.
LEMMA BoxTicket ==
  ASSUME NEW t \in Users
  PROVE  Box!Ticket(t) \in Nat /\ Box!Ticket(t) # 0
<1>1. UserTid[t] % UserMod \in Nat
  BY DispatchAssumption
<1>2. QED
  BY <1>1 DEF Box!Ticket

\* The single try takes a free lock, which then has one owner.
LEMMA BoxTake ==
  ASSUME NEW t \in Users, Box!LockInv, Box!TryLock(t)
  PROVE  Box!LockInv' /\ boxLk' = [boxLk EXCEPT ![t] = "in"]
<1> USE DEF Box!LockInv, Box!LockTypeOK, Box!MutualExclusion, Box!WordIsOwner, Box!Owns,
            Box!TryLock, Box!Goto
<1>1. \A s \in Users : ~(boxLk[s] \in {"in", "rel"})
  BY BoxTicket
<1>2. Box!LockTypeOK'
  OBVIOUS
<1>3. \A s \in Users : boxLk'[s] \in {"in", "rel"} <=> s = t
  BY <1>1
<1>4. (Box!MutualExclusion /\ Box!WordIsOwner)'
  BY <1>3
<1>5. QED
  BY <1>2, <1>4

\* The owner finds its own ticket in the word and goes on to release it.
LEMMA BoxUnlock ==
  ASSUME NEW t \in Users, Box!LockInv, Box!UnlockLoad(t)
  PROVE  /\ Box!LockInv'
         /\ boxLk[t] = "in" /\ boxLk' = [boxLk EXCEPT ![t] = "rel"]
<1> USE DEF Box!LockInv, Box!LockTypeOK, Box!MutualExclusion, Box!WordIsOwner, Box!Owns,
            Box!UnlockLoad, Box!Goto
<1>1. boxLk[t] = "in" /\ boxWord = Box!Ticket(t) /\ boxWord # 0
  BY BoxTicket
<1>2. boxLk' = [boxLk EXCEPT ![t] = "rel"] /\ boxWord' = boxWord
  BY <1>1
<1>3. \A s \in Users : boxLk'[s] \in {"in", "rel"} <=> boxLk[s] \in {"in", "rel"}
  BY <1>1, <1>2
<1>4. Box!LockTypeOK'
  BY <1>2
<1>5. (Box!MutualExclusion /\ Box!WordIsOwner)'
  BY <1>2, <1>3
<1>6. QED
  BY <1>1, <1>2, <1>4, <1>5

\* The store that releases it leaves no owner.
LEMMA BoxRelease ==
  ASSUME NEW t \in Users, Box!LockInv, Box!UnlockStore(t)
  PROVE  /\ Box!LockInv'
         /\ boxLk[t] = "rel" /\ boxLk' = [boxLk EXCEPT ![t] = "out"]
<1> USE DEF Box!LockInv, Box!LockTypeOK, Box!MutualExclusion, Box!WordIsOwner, Box!Owns,
            Box!UnlockStore, Box!Goto
<1>1. Box!LockTypeOK'
  OBVIOUS
<1>2. \A s \in Users : ~(boxLk'[s] \in {"in", "rel"})
  OBVIOUS
<1>3. QED
  BY <1>1, <1>2

\* Whoever is past the lock's try and before the end of its unlock is alone there.
LEMMA OneInBox ==
  ASSUME BoxHeld, NEW s \in Users, NEW t \in Users,
         boxLk[s] # "out", boxLk[t] # "out"
  PROVE  s = t
BY DEF BoxHeld, Box!LockInv, Box!LockTypeOK, Box!MutualExclusion, Box!Owns

-----------------------------------------------------------------------------
(* What an operation leaves alone and what it disturbs.                     *)

\* A post under way has its item.
HasItem == \A t \in Users : pp[t] # "idle" => item[t] \in 1 .. posts

CoreInv == DispatchTypeOK /\ NoUseAfterFree /\ BoxHeld /\ OneDrain /\ BatchApart /\ HasItem

\* A sequence made longer with a filler.
LEMMA LongerSeq ==
  ASSUME NEW S, NEW s \in Seq(S), NEW v \in S, NEW m \in Nat
  PROVE  LET r == [k \in 1 .. m |-> IF k <= Len(s) THEN s[k] ELSE v]
         IN r \in Seq(S) /\ Len(r) = m
<1>1. [k \in 1 .. m |-> IF k <= Len(s) THEN s[k] ELSE v] \in [1 .. m -> S]
  BY LenProperties
<1>2. QED
  BY <1>1, SeqDef, LenProperties

\* The mailbox is made empty, its lock free, with nobody in it.
LEMMA CoreInit == DispatchInit => CoreInv
<1> SUFFICES ASSUME DispatchInit PROVE CoreInv
  OBVIOUS
<1> USE DEF DispatchInit, Box!LockInit
<1>1. <<>> \in Seq(Jobs \cup {Vacant}) /\ <<>> \in Seq(Jobs) /\ Len(<<>>) = 0
  BY EmptySeq
<1>2. BoxHeld
  BY DEF BoxHeld, Box!LockInv, Box!LockTypeOK, Box!MutualExclusion, Box!WordIsOwner, Box!Owns
<1>3. DispatchTypeOK
  <2>1. Box!LockTypeOK
    BY <1>2 DEF BoxHeld, Box!LockInv
  <2>2. buf \in [{0, 1} -> Seq(Jobs \cup {Vacant})] /\ \A k \in {0, 1} : Len(buf[k]) = 0
    BY <1>1
  <2>3. \A k \in {0, 1} : Len(buf[k]) <= MaxCap
    BY <2>2, DispatchAssumption
  <2>4. /\ count \in 0 .. Len(buf[front]) /\ posts \in 0 .. MaxPosts
        /\ delivered \in Seq(Jobs)
    BY <1>1, <2>2, DispatchAssumption
  <2>5. QED
    BY <2>1, <2>2, <2>3, <2>4 DEF DispatchTypeOK
<1>4. NoUseAfterFree /\ OneDrain
  BY DEF NoUseAfterFree, OneDrain
<1>5. BatchApart
  BY <1>1 DEF BatchApart, Delivering
<1>6. QED
  BY <1>2, <1>3, <1>4, <1>5 DEF CoreInv, HasItem

\* A step of a post that leaves the buffers alone.
LEMMA PostMove ==
  ASSUME NEW t \in Users, CoreInv, BoxHeld',
         NEW to \in {"idle", "try", "grow", "write", "fail", "done"},
         PostStep(t, pp[t], to), ~released, pd[t] \in {"idle", "handler"},
         to = "write" => count < Len(buf[front]),
         to = "grow" => count = Len(buf[front]),
         item' \in [Users -> Jobs \cup {Vacant}],
         posts' \in posts .. MaxPosts, granted' \subseteq Jobs, refused' \subseteq Jobs,
         to # "idle" => item'[t] \in 1 .. posts',
         \A s \in Users \ {t} : item'[s] = item[s],
         UNCHANGED <<boxVars, drainVars>>
  PROVE  CoreInv'
<1> USE DEF CoreInv, PostStep, boxVars, drainVars
<1>1. DispatchTypeOK'
  <2>1. posts' \in 0 .. MaxPosts
    BY DispatchAssumption DEF DispatchTypeOK
  <2>2. QED
    BY <2>1 DEF DispatchTypeOK, BoxHeld, Box!LockInv
<1>2. NoUseAfterFree'
  BY DEF NoUseAfterFree
<1>3. OneDrain'
  BY DEF OneDrain, DispatchTypeOK
<1>4. BatchApart'
  BY DEF BatchApart, Delivering, DispatchTypeOK
<1>5. HasItem'
  BY DEF HasItem, DispatchTypeOK
<1>6. QED
  BY <1>1, <1>2, <1>3, <1>4, <1>5

\* A step that leaves the lock and the thread's right to it as they are.
LEMMA BoxAside ==
  ASSUME BoxHeld, NEW t \in Users, UNCHANGED <<boxWord, boxLk>>,
         \A s \in Users \ {t} : pp'[s] = pp[s] /\ pd'[s] = pd[s],
         boxLk[t] = "out",
         pp'[t] \in {"idle", "try"}, pd'[t] \notin {"swap", "unlock"}
  PROVE  BoxHeld'
BY DEF BoxHeld, Box!LockInv, Box!LockTypeOK, Box!MutualExclusion, Box!WordIsOwner, Box!Owns, Box!Ticket
\* The posts that leave the buffers alone.
LEMMA PostCore ==
  ASSUME NEW t \in Users, CoreInv,
         PostCall(t) \/ PostLock(t) \/ PostBusy(t) \/ PostGrowFails(t) \/ PostUnlock(t) \/ PostEnd(t)
  PROVE  CoreInv'
<1> USE DEF CoreInv
<1>1. ~released
  BY DEF NoUseAfterFree, PostCall, PostLock, PostBusy, PostGrowFails, PostUnlock, PostEnd,
         PostStep, PostReturns
<1>2. pd[t] \in {"idle", "handler"}
  BY DEF OneDrain, PostCall, PostLock, PostBusy, PostGrowFails, PostUnlock, PostEnd,
         PostStep, PostReturns
<1>3. posts \in Nat /\ MaxPosts \in Nat /\ posts <= MaxPosts /\ posts \in posts .. MaxPosts
  BY DispatchAssumption DEF DispatchTypeOK
<1>4. CASE PostCall(t)
  <2> USE <1>4 DEF PostCall
  <2>1. BoxHeld'
    BY <1>2, BoxAside DEF BoxHeld, PostStep, drainVars, DispatchTypeOK
  <2>2. item' \in [Users -> Jobs \cup {Vacant}] /\ posts' \in posts .. MaxPosts
    BY <1>3 DEF DispatchTypeOK, Jobs
  <2>3. item'[t] \in 1 .. posts'
    BY <1>3 DEF DispatchTypeOK
  <2>4. QED
    BY <1>1, <1>2, <2>1, <2>2, <2>3, PostMove DEF PostStep, DispatchTypeOK
<1>5. CASE PostLock(t)
  <2> USE <1>5 DEF PostLock
  <2>1. Box!LockInv' /\ boxLk' = [boxLk EXCEPT ![t] = "in"]
    BY BoxTake DEF BoxHeld
  <2>2. BoxHeld'
    BY <1>2, <2>1 DEF BoxHeld, PostStep, drainVars, DispatchTypeOK, Box!LockTypeOK
  <2>3. count # Len(buf[front]) => count < Len(buf[front])
    BY DEF DispatchTypeOK
  <2>4. QED
    BY <1>1, <1>2, <1>3, <2>2, <2>3, PostMove DEF PostStep, DispatchTypeOK, HasItem
<1>6. CASE PostBusy(t)
  <2> USE <1>6 DEF PostBusy, PostReturns
  <2>1. BoxHeld'
    BY <1>2, BoxAside DEF BoxHeld, PostStep, drainVars, DispatchTypeOK
  <2>2. item[t] \in Jobs
    BY <1>3 DEF HasItem, PostStep, Jobs
  <2>3. item' \in [Users -> Jobs \cup {Vacant}] /\ refused' \subseteq Jobs
    BY <2>2 DEF DispatchTypeOK
  <2>4. QED
    BY <1>1, <1>2, <1>3, <2>1, <2>3, PostMove DEF PostStep, DispatchTypeOK
<1>7. CASE PostGrowFails(t)
  <2> USE <1>7 DEF PostGrowFails
  <2>1. BoxHeld'
    BY <1>2 DEF BoxHeld, PostStep, drainVars, DispatchTypeOK, Box!LockInv, Box!LockTypeOK,
                Box!MutualExclusion, Box!WordIsOwner, Box!Owns, Box!Ticket
  <2>2. QED
    BY <1>1, <1>2, <1>3, <2>1, PostMove DEF PostStep, DispatchTypeOK, HasItem
<1>8. CASE PostUnlock(t)
  <2> USE <1>8 DEF PostUnlock
  <2>1. Box!LockInv' /\ boxLk' = [boxLk EXCEPT ![t] = "rel"]
    BY BoxUnlock DEF BoxHeld
  <2>2. pp' = pp /\ pd' = pd
    BY DEF postVars, drainVars
  <2>3. BoxHeld'
    BY <1>2, <2>1, <2>2 DEF BoxHeld, DispatchTypeOK, Box!LockTypeOK
  <2>4. PostStep(t, pp[t], pp[t])
    BY <2>2 DEF PostStep, DispatchTypeOK
  <2>5. QED
    BY <1>1, <1>2, <1>3, <2>3, <2>4, PostMove DEF DispatchTypeOK, HasItem, postVars
<1>9. CASE PostEnd(t)
  <2> USE <1>9 DEF PostEnd, PostReturns
  <2>1. Box!LockInv' /\ boxLk' = [boxLk EXCEPT ![t] = "out"]
    BY BoxRelease DEF BoxHeld
  <2>2. BoxHeld'
    BY <1>2, <2>1 DEF BoxHeld, PostStep, drainVars, DispatchTypeOK, Box!LockTypeOK
  <2>3. item[t] \in Jobs
    BY <1>3 DEF HasItem, PostStep, Jobs
  <2>4. /\ item' \in [Users -> Jobs \cup {Vacant}] /\ granted' \subseteq Jobs
        /\ refused' \subseteq Jobs /\ posts' = posts /\ PostStep(t, pp[t], "idle")
        /\ \A s \in Users \ {t} : item'[s] = item[s]
    BY <2>3 DEF PostStep, DispatchTypeOK
  <2>5. QED
    BY <1>1, <1>2, <1>3, <2>2, <2>4, PostMove
<1>10. QED
  BY <1>4, <1>5, <1>6, <1>7, <1>8, <1>9
\* A step of the only drain under way, on what it has taken already.
LEMMA DrainMove ==
  ASSUME NEW t \in Users, CoreInv, BoxHeld',
         NEW to \in {"idle", "try", "swap", "unlock", "loop"},
         DrainStep(t, pd[t], to), \A s \in Users \ {t} : pd[s] = "idle", ~released,
         draining' = (to # "idle"),
         to \in {"unlock", "loop"} => t \in Delivering,
         drainedCount' \in Nat, Len(delivered) = drainedCount',
         UNCHANGED <<boxVars, n, i, delivered>>
  PROVE  CoreInv'
<1> USE DEF CoreInv, DrainStep, boxVars, postVars
<1>1. DispatchTypeOK'
  BY DEF DispatchTypeOK, BoxHeld, Box!LockInv
<1>2. NoUseAfterFree' /\ HasItem'
  BY DEF NoUseAfterFree, HasItem
<1>3. OneDrain'
  BY DEF OneDrain, DispatchTypeOK
<1>4. \A s \in Users : pd'[s] # "handler"
  BY DEF DispatchTypeOK
<1>5. \A s \in Delivering' : s \in Delivering
  BY DEF Delivering, DispatchTypeOK
<1>6. BatchApart'
  <2>1. Len(delivered)' = drainedCount' + IF \E s \in Users : pd'[s] = "handler" THEN 1 ELSE 0
    <3>1. (IF \E s \in Users : pd'[s] = "handler" THEN 1 ELSE 0) = 0
      BY <1>4
    <3>2. Len(delivered)' = drainedCount' /\ drainedCount' \in Nat
      OBVIOUS
    <3>3. PICK c \in Nat : c = drainedCount'
      BY <3>2
    <3>4. c + 0 = c
      BY ONLY c \in Nat
    <3>5. QED
      BY <3>1, <3>2, <3>3, <3>4
  <2>2. QED
    BY <1>5, <2>1 DEF BatchApart
<1>7. QED
  BY <1>1, <1>2, <1>3, <1>6

\* The drains that leave the buffers alone.
LEMMA DrainCore ==
  ASSUME NEW t \in Users, CoreInv,
         \/ DrainClaim(t) \/ DrainLock(t) \/ DrainBusy(t) \/ DrainUnlock(t)
         \/ DrainUnlocked(t) \/ Invoked(t) \/ DrainEnd(t)
  PROVE  CoreInv'
<1> USE DEF CoreInv
<1>1. ~released
  BY DEF NoUseAfterFree, DrainClaim, DrainLock, DrainBusy, DrainUnlock, DrainUnlocked,
         Invoked, DrainEnd, DrainStep
<1>2. \A s \in Users \ {t} : pd[s] = "idle"
  BY DEF OneDrain, DrainClaim, DrainLock, DrainBusy, DrainUnlock, DrainUnlocked,
         Invoked, DrainEnd, DrainStep
<1>3. /\ drainedCount \in Nat
      /\ pd[t] # "handler" => Len(delivered) = drainedCount
      /\ pd[t] = "handler" => Len(delivered) = drainedCount + 1
  BY <1>2 DEF BatchApart, DispatchTypeOK
<1>4. CASE DrainClaim(t)
  <2> USE <1>4 DEF DrainClaim
  <2>1. BoxHeld'
    BY BoxAside DEF BoxHeld, DrainStep, postVars, DispatchTypeOK
  <2>2. QED
    BY <1>1, <1>2, <1>3, <2>1, DrainMove DEF DrainStep
<1>5. CASE DrainLock(t)
  <2> USE <1>5 DEF DrainLock
  <2>1. Box!LockInv' /\ boxLk' = [boxLk EXCEPT ![t] = "in"]
    BY BoxTake DEF BoxHeld
  <2>2. BoxHeld'
    BY <2>1 DEF BoxHeld, DrainStep, postVars, DispatchTypeOK, Box!LockTypeOK
  <2>3. draining
    BY DEF OneDrain, DrainStep
  <2>4. QED
    BY <1>1, <1>2, <1>3, <2>2, <2>3, DrainMove DEF DrainStep
<1>6. CASE DrainBusy(t)
  <2> USE <1>6 DEF DrainBusy
  <2>1. BoxHeld'
    BY BoxAside DEF BoxHeld, DrainStep, postVars, DispatchTypeOK
  <2>2. QED
    BY <1>1, <1>2, <1>3, <2>1, DrainMove DEF DrainStep
<1>7. CASE DrainUnlock(t)
  <2> USE <1>7 DEF DrainUnlock
  <2>1. Box!LockInv' /\ boxLk' = [boxLk EXCEPT ![t] = "rel"]
    BY BoxUnlock DEF BoxHeld
  <2>2. pp' = pp /\ pd' = pd
    BY DEF postVars, drainVars
  <2>3. pp[t] = "idle"
    BY DEF OneDrain
  <2>4. BoxHeld'
    BY <2>1, <2>2, <2>3 DEF BoxHeld, DispatchTypeOK, Box!LockTypeOK
  <2>5. DrainStep(t, pd[t], "unlock")
    BY <2>2, <2>3 DEF DrainStep, DispatchTypeOK
  <2>6. draining /\ draining' = draining /\ t \in Delivering
    BY DEF OneDrain, Delivering, drainVars
  <2>7. QED
    BY <1>1, <1>2, <1>3, <2>4, <2>5, <2>6, DrainMove DEF drainVars
<1>8. CASE DrainUnlocked(t)
  <2> USE <1>8 DEF DrainUnlocked
  <2>1. Box!LockInv' /\ boxLk' = [boxLk EXCEPT ![t] = "out"]
    BY BoxRelease DEF BoxHeld
  <2>2. BoxHeld'
    BY <2>1 DEF BoxHeld, DrainStep, postVars, DispatchTypeOK, Box!LockTypeOK
  <2>3. draining /\ t \in Delivering
    BY DEF OneDrain, Delivering, DrainStep
  <2>4. QED
    BY <1>1, <1>2, <1>3, <2>2, <2>3, DrainMove DEF DrainStep
<1>9. CASE Invoked(t)
  <2> USE <1>9 DEF Invoked
  <2>1. BoxHeld'
    BY BoxAside DEF BoxHeld, DrainStep, postVars, DispatchTypeOK
  <2>2. draining /\ t \in Delivering
    BY DEF OneDrain, Delivering, DrainStep
  <2>3. drainedCount' \in Nat /\ Len(delivered) = drainedCount'
    BY <1>3 DEF DrainStep
  <2>4. QED
    BY <1>1, <1>2, <2>1, <2>2, <2>3, DrainMove DEF DrainStep
<1>10. CASE DrainEnd(t)
  <2> USE <1>10 DEF DrainEnd
  <2>1. BoxHeld'
    BY BoxAside DEF BoxHeld, DrainStep, postVars, DispatchTypeOK
  <2>2. DrainStep(t, pd[t], "idle") /\ draining' = FALSE /\ pd[t] # "handler"
    BY DEF DrainStep
  <2>3. UNCHANGED <<boxVars, n, i, delivered>> /\ drainedCount' = drainedCount
    OBVIOUS
  <2>4. QED
    BY <1>1, <1>2, <1>3, <2>1, <2>2, <2>3, DrainMove
<1>11. QED
  BY <1>4, <1>5, <1>6, <1>7, <1>8, <1>9, <1>10
\* Growing items: what was pending stays where it was, and batch is not touched.
LEMMA GrowCore ==
  ASSUME NEW t \in Users, CoreInv, PostGrow(t)
  PROVE  /\ CoreInv'
         /\ Len(buf'[front]) = Doubled(Len(buf[front]))
         /\ \A k \in 1 .. Len(buf[front]) : buf'[front][k] = buf[front][k]
         /\ buf'[1 - front] = buf[1 - front]
<1> USE DEF CoreInv, PostGrow, PostStep, drainVars
<1> DEFINE old == buf[front]
           cap == Len(old)
           new == [s \in 1 .. Doubled(cap) |-> IF s <= cap THEN old[s] ELSE Vacant]
<1>1. old \in Seq(Jobs \cup {Vacant}) /\ cap \in Nat
  BY LenProperties DEF DispatchTypeOK
<1>2. Doubled(cap) \in Nat /\ Doubled(cap) > cap /\ Doubled(cap) <= MaxCap
  BY <1>1, DispatchAssumption DEF Doubled
<1>3. new \in Seq(Jobs \cup {Vacant}) /\ Len(new) = Doubled(cap)
  BY <1>1, <1>2, LongerSeq
<1>4. buf' = [buf EXCEPT ![front] = new]
  OBVIOUS
<1>5. \A k \in 1 .. cap : new[k] = old[k]
  BY <1>1, <1>2
<1> HIDE DEF new
<1>6. front \in {0, 1} /\ front' = front /\ 1 - front \in {0, 1} /\ 1 - front # front
  BY DEF DispatchTypeOK
<1>7. buf'[front] = new /\ buf'[1 - front] = buf[1 - front]
  BY <1>4, <1>6 DEF DispatchTypeOK
<1>8. ~released /\ count = cap
  BY DEF NoUseAfterFree, BatchApart
<1>9. DispatchTypeOK'
  <2>1. buf' \in [{0, 1} -> Seq(Jobs \cup {Vacant})]
    <3>1. buf \in [{0, 1} -> Seq(Jobs \cup {Vacant})]
      BY DEF DispatchTypeOK
    <3>2. QED
      BY <1>3, <1>4, <3>1
  <2>2. \A k \in {0, 1} : Len(buf'[k]) <= MaxCap
    BY <1>2, <1>3, <1>6, <1>7 DEF DispatchTypeOK
  <2>3. count' \in 0 .. Len(buf'[front'])
    BY <1>1, <1>2, <1>3, <1>6, <1>7, <1>8
  <2>4. QED
    BY <2>1, <2>2, <2>3 DEF DispatchTypeOK, Box!LockTypeOK
<1>10. NoUseAfterFree' /\ HasItem'
  BY <1>8 DEF NoUseAfterFree, HasItem, DispatchTypeOK
<1>11. BoxHeld'
  BY DEF BoxHeld, DispatchTypeOK, OneDrain, Box!LockInv, Box!LockTypeOK, Box!MutualExclusion,
         Box!WordIsOwner, Box!Owns, Box!Ticket
<1>12. OneDrain'
  BY DEF OneDrain, DispatchTypeOK
<1>13. BatchApart'
  <2>1. \A s \in Users : pp'[s] # "grow"
    BY OneInBox DEF BoxHeld, DispatchTypeOK
  <2>2. count' < Len(buf'[front'])
    BY <1>1, <1>2, <1>3, <1>6, <1>7, <1>8
  <2>3. \A k \in 1 .. count' : buf'[front'][k] \in Jobs
    BY <1>5, <1>6, <1>7, <1>8 DEF BatchApart
  <2>4. Delivering' = Delivering
    BY DEF Delivering
  <2>5. QED
    BY <1>6, <1>7, <2>1, <2>2, <2>3, <2>4 DEF BatchApart
<1>14. QED
  BY <1>3, <1>5, <1>7, <1>9, <1>10, <1>11, <1>12, <1>13

\* The write fills the first free slot of items.
LEMMA WriteCore ==
  ASSUME NEW t \in Users, CoreInv, PostWrite(t)
  PROVE  /\ CoreInv'
         /\ \A k \in 1 .. count + 1 : buf'[front][k] = IF k = count + 1 THEN item[t] ELSE buf[front][k]
         /\ buf'[1 - front] = buf[1 - front]
<1> USE DEF CoreInv, PostWrite, PostStep, drainVars
<1> DEFINE old == buf[front]
           new == [old EXCEPT ![count + 1] = item[t]]
<1>1. old \in Seq(Jobs \cup {Vacant}) /\ Len(old) \in Nat /\ count \in Nat
  BY LenProperties DEF DispatchTypeOK
<1>2. count < Len(old) /\ ~released
  BY DEF BatchApart, NoUseAfterFree
<1>3. item[t] \in Jobs
  BY DispatchAssumption DEF HasItem, Jobs, DispatchTypeOK
<1>4. /\ new \in Seq(Jobs \cup {Vacant}) /\ Len(new) = Len(old)
      /\ \A k \in 1 .. Len(old) : new[k] = IF k = count + 1 THEN item[t] ELSE old[k]
  BY <1>1, <1>2, <1>3, ExceptSeq
<1>5. buf' = [buf EXCEPT ![front] = new]
  OBVIOUS
<1> HIDE DEF new
<1>6. front \in {0, 1} /\ front' = front /\ 1 - front \in {0, 1} /\ 1 - front # front
  BY DEF DispatchTypeOK
<1>7. buf'[front] = new /\ buf'[1 - front] = buf[1 - front]
  BY <1>5, <1>6 DEF DispatchTypeOK
<1>8. DispatchTypeOK'
  <2>1. buf' \in [{0, 1} -> Seq(Jobs \cup {Vacant})]
    <3>1. buf \in [{0, 1} -> Seq(Jobs \cup {Vacant})]
      BY DEF DispatchTypeOK
    <3>2. QED
      BY <1>4, <1>5, <3>1
  <2>2. \A k \in {0, 1} : Len(buf'[k]) <= MaxCap
    BY <1>4, <1>6, <1>7 DEF DispatchTypeOK
  <2>3. count' \in 0 .. Len(buf'[front'])
    BY <1>1, <1>2, <1>4, <1>6, <1>7
  <2>4. QED
    BY <1>1, <2>1, <2>2, <2>3 DEF DispatchTypeOK, Box!LockTypeOK
<1>9. NoUseAfterFree' /\ HasItem'
  BY <1>2 DEF NoUseAfterFree, HasItem, DispatchTypeOK
<1>10. BoxHeld'
  BY DEF BoxHeld, DispatchTypeOK, OneDrain, Box!LockInv, Box!LockTypeOK, Box!MutualExclusion,
         Box!WordIsOwner, Box!Owns, Box!Ticket
<1>11. OneDrain'
  BY DEF OneDrain, DispatchTypeOK
<1>12. BatchApart'
  <2>1. \A s \in Users : pp'[s] \notin {"grow", "write"}
    BY OneInBox DEF BoxHeld, DispatchTypeOK
  <2>2. \A k \in 1 .. count' : buf'[front'][k] \in Jobs
    BY <1>1, <1>2, <1>3, <1>4, <1>6, <1>7 DEF BatchApart
  <2>3. Delivering' = Delivering
    BY DEF Delivering
  <2>4. QED
    BY <1>6, <1>7, <2>1, <2>2, <2>3 DEF BatchApart
<1>13. QED
  BY <1>1, <1>2, <1>4, <1>7, <1>8, <1>9, <1>10, <1>11, <1>12
\* The exchange hands the drain what was pending and leaves nothing pending.
LEMMA SwapCore ==
  ASSUME NEW t \in Users, CoreInv, Swap(t)
  PROVE  CoreInv'
<1> USE DEF CoreInv, Swap, DrainStep, postVars
<1>1. count \in Nat /\ count <= Len(buf[front]) /\ Len(buf[front]) \in Nat /\ Len(buf[1 - front]) \in Nat
  BY LenProperties DEF DispatchTypeOK
<1>2. front \in {0, 1} /\ front' \in {0, 1}
  BY DEF DispatchTypeOK
<1>3. Len(buf[front']) \in Nat
  BY <1>1
<1>4. DispatchTypeOK'
  BY <1>1, <1>2, <1>3 DEF DispatchTypeOK, Box!LockTypeOK
<1>5. NoUseAfterFree' /\ HasItem' /\ OneDrain'
  BY DEF NoUseAfterFree, HasItem, OneDrain, DispatchTypeOK
<1>6. BoxHeld'
  BY DEF BoxHeld, DispatchTypeOK, OneDrain, Box!LockInv, Box!LockTypeOK, Box!MutualExclusion,
         Box!WordIsOwner, Box!Owns, Box!Ticket
<1>7. BatchApart'
  <2>1. \A s \in Users : pp'[s] \notin {"grow", "write"}
    BY OneInBox DEF BoxHeld, DispatchTypeOK
  <2>2. \A s \in Delivering' : s = t
    BY DEF Delivering, OneDrain, DispatchTypeOK
  <2>3. n'[t] = count /\ i'[t] = 0
    BY DEF DispatchTypeOK
  <2>4. count # 0 => 1 - front' = front
    BY <1>2
  <2>5. /\ i'[t] <= n'[t] /\ n'[t] <= Len(buf'[1 - front'])
        /\ \A k \in i'[t] + 1 .. n'[t] : buf'[1 - front'][k] \in Jobs
    <3>1. CASE count = 0
      BY <1>1, <2>3, <3>1
    <3>2. CASE count # 0
      BY <1>1, <2>3, <2>4, <3>2 DEF BatchApart
    <3>3. QED
      BY <3>1, <3>2
  <2>6. \A s \in Users : pd[s] # "handler" /\ pd'[s] # "handler"
    BY DEF OneDrain, DispatchTypeOK
  <2>7. Len(delivered') = drainedCount'
    BY <2>6 DEF BatchApart, DispatchTypeOK
  <2>8. QED
    BY <2>1, <2>2, <2>5, <2>6, <2>7 DEF BatchApart, DispatchTypeOK
<1>8. QED
  BY <1>4, <1>5, <1>6, <1>7

\* The next item of the batch goes to its handler.
LEMMA InvokeCore ==
  ASSUME NEW t \in Users, CoreInv, Invoke(t)
  PROVE  /\ CoreInv'
         /\ i[t] + 1 \in i[t] + 1 .. n[t]
         /\ buf[1 - front][i[t] + 1] \in Jobs
<1> USE DEF CoreInv, Invoke, DrainStep, postVars, boxVars
<1>1. /\ t \in Delivering /\ i[t] \in Nat /\ n[t] \in Nat
      /\ buf[1 - front][i[t] + 1] \in Jobs
  BY DEF Delivering, BatchApart, DispatchTypeOK
<1>2. /\ delivered' \in Seq(Jobs) /\ Len(delivered') = Len(delivered) + 1
  BY <1>1, AppendProperties DEF DispatchTypeOK
<1>3. DispatchTypeOK'
  BY <1>1, <1>2 DEF DispatchTypeOK, Box!LockTypeOK
<1>4. NoUseAfterFree' /\ HasItem' /\ OneDrain'
  BY DEF NoUseAfterFree, HasItem, OneDrain, DispatchTypeOK
<1>5. BoxHeld'
  <2>1. boxLk[t] = "out" /\ pp' = pp /\ \A s \in Users \ {t} : pd'[s] = pd[s]
    BY DEF BoxHeld, DispatchTypeOK
  <2>2. pd'[t] = "handler"
    BY DEF DispatchTypeOK
  <2>3. QED
    BY <2>1, <2>2, BoxAside
<1>6. BatchApart'
  <2>1. Delivering' = Delivering /\ \A s \in Delivering : s = t
    BY DEF Delivering, OneDrain, DispatchTypeOK
  <2>2. \A s \in Users : pd[s] # "handler"
    BY DEF OneDrain, DispatchTypeOK
  <2>3. Len(delivered') = drainedCount' + 1 /\ pd'[t] = "handler"
    BY <1>2, <2>2 DEF BatchApart, DispatchTypeOK
  <2>4. i'[t] = i[t] + 1 /\ i'[t] <= n[t]
    BY <1>1 DEF DispatchTypeOK
  <2>5. /\ i'[t] <= n'[t] /\ n'[t] <= Len(buf'[1 - front'])
        /\ \A k \in i'[t] + 1 .. n'[t] : buf'[1 - front'][k] \in Jobs
    BY <1>1, <2>4 DEF BatchApart
  <2>6. Len(delivered') = drainedCount' + IF \E s \in Users : pd'[s] = "handler" THEN 1 ELSE 0
    BY <2>3
  <2>7. QED
    BY <2>1, <2>5, <2>6 DEF BatchApart
<1>7. QED
  BY <1>1, <1>3, <1>4, <1>5, <1>6

\* A release finds nobody in a post or a drain.
LEMMA FreeCore ==
  ASSUME NEW t \in Users, CoreInv, FreeBox(t)
  PROVE  CoreInv'
<1> USE DEF CoreInv, FreeBox, postVars, drainVars
<1>1. \A s \in Users : pp[s] = "idle" /\ pd[s] = "idle"
  BY DEF OneDrain
<1>2. DispatchTypeOK' /\ NoUseAfterFree' /\ HasItem' /\ OneDrain'
  BY <1>1 DEF DispatchTypeOK, NoUseAfterFree, HasItem, OneDrain, Box!LockTypeOK
<1>3. BoxHeld'
  BY DEF BoxHeld, Box!LockInv, Box!LockTypeOK, Box!MutualExclusion, Box!WordIsOwner, Box!Owns,
         Box!Ticket
<1>4. BatchApart'
  BY DEF BatchApart, Delivering
<1>5. QED
  BY <1>2, <1>3, <1>4
\* Every step keeps what the mailbox's invariant says of its state.
LEMMA CoreStep == CoreInv /\ [DispatchNext]_dispatchVars => CoreInv'
<1> SUFFICES ASSUME CoreInv, [DispatchNext]_dispatchVars PROVE CoreInv'
  OBVIOUS
<1>1. ASSUME NEW t \in Users, PostCall(t) \/ Post(t) \/ Drain(t) \/ FreeBox(t)
      PROVE  CoreInv'
  BY <1>1, PostCore, DrainCore, GrowCore, WriteCore, SwapCore, InvokeCore, FreeCore DEF Post, Drain
<1>2. CASE UNCHANGED dispatchVars
  BY <1>2 DEF dispatchVars, CoreInv, DispatchTypeOK, NoUseAfterFree, BoxHeld, OneDrain, BatchApart,
              HasItem, Delivering, Box!LockInv, Box!LockTypeOK, Box!MutualExclusion,
              Box!WordIsOwner, Box!Owns, Box!Ticket
<1>3. QED
  BY <1>1, <1>2 DEF DispatchNext

\* Where what is pending and what a drain has taken lie.
LEMMA PendingRange ==
  CoreInv => /\ buf[front] \in Seq(Jobs \cup {Vacant}) /\ Len(buf[front]) \in Nat
             /\ count \in Nat /\ count <= Len(buf[front])
BY LenProperties DEF CoreInv, DispatchTypeOK

LEMMA BatchRange ==
  ASSUME CoreInv, NEW t \in Delivering
  PROVE  /\ buf[1 - front] \in Seq(Jobs \cup {Vacant}) /\ Len(buf[1 - front]) \in Nat
         /\ i[t] \in Nat /\ n[t] \in Nat /\ i[t] <= n[t] /\ n[t] <= Len(buf[1 - front])
<1>1. buf[1 - front] \in Seq(Jobs \cup {Vacant})
  BY DEF CoreInv, DispatchTypeOK
<1>2. Len(buf[1 - front]) \in Nat
  BY <1>1, LenProperties
<1>3. i[t] \in Nat /\ n[t] \in Nat
  BY DEF CoreInv, DispatchTypeOK, Delivering
<1>4. QED
  BY <1>1, <1>2, <1>3 DEF CoreInv, BatchApart

\* The drain under way is the only one.
LEMMA Alone ==
  ASSUME CoreInv, NEW t \in Users, pd[t] # "idle"
  PROVE  \A s \in Users \ {t} : pd[s] = "idle"
BY DEF CoreInv, OneDrain

\* What the exchange does to the buffers and to the batch.
LEMMA SwapEffect ==
  ASSUME NEW t \in Users, CoreInv, Swap(t)
  PROVE  /\ buf' = buf /\ count' = 0 /\ delivered' = delivered
         /\ front' = (IF count # 0 THEN 1 - front ELSE front) /\ front \in {0, 1}
         /\ Delivering = {} /\ Delivering' = {t} /\ n'[t] = count /\ i'[t] = 0
<1>1. n \in [Users -> Nat] /\ i \in [Users -> Nat] /\ front \in {0, 1}
  BY DEF CoreInv, DispatchTypeOK
<1>2. pd[t] = "swap" /\ pd'[t] = "unlock" /\ \A s \in Users \ {t} : pd'[s] = pd[s]
  BY DEF Swap, DrainStep, CoreInv, DispatchTypeOK
<1>3. \A s \in Users \ {t} : pd[s] = "idle"
  BY <1>2, Alone
<1>4. Delivering = {} /\ Delivering' = {t}
  BY <1>1, <1>2, <1>3 DEF Delivering
<1>5. n'[t] = count /\ i'[t] = 0
  BY <1>1 DEF Swap
<1>6. QED
  BY <1>1, <1>4, <1>5 DEF Swap

-----------------------------------------------------------------------------
(* What is in the mailbox.                                                  *)

\* x is in s, or in a range of its indices.
In(x, s) == \E k \in DOMAIN s : s[k] = x
Within(x, s, a, b) == \E k \in a + 1 .. b : s[k] = x

\* A range of a sequence holds what its indices hold.
LEMMA RangeHolds ==
  ASSUME NEW S, NEW s \in Seq(S), NEW a \in Nat, NEW b \in Nat, a <= b, b <= Len(s), NEW x
  PROVE  In(x, SubSeq(s, a + 1, b)) <=> Within(x, s, a, b)
<1> DEFINE r == SubSeq(s, a + 1, b)
<1>1. \A k \in a + 1 .. b : s[k] \in S
  BY ElementOfSeq, LenProperties
<1>2. r \in Seq(S) /\ Len(r) = b - a /\ \A k \in 1 .. b - a : r[k] = s[a + k]
  BY <1>1, SubSeqProperties
<1>3. DOMAIN r = 1 .. b - a
  BY <1>2, LenProperties
<1>4. ASSUME NEW k \in DOMAIN r, r[k] = x
      PROVE  \E j \in a + 1 .. b : s[j] = x
  <2>1. a + k \in a + 1 .. b /\ s[a + k] = x
    BY <1>2, <1>3, <1>4
  <2>2. QED
    BY <2>1
<1>5. ASSUME NEW j \in a + 1 .. b, s[j] = x
      PROVE  \E k \in DOMAIN r : r[k] = x
  <2>1. j - a \in 1 .. b - a /\ r[j - a] = x
    BY <1>2, <1>5
  <2>2. QED
    BY <1>3, <2>1
<1>6. QED
  BY <1>4, <1>5 DEF In, Within

\* An item is in the mailbox when it is pending, still to be delivered, or delivered.
IsPending(x) == Within(x, buf[front], 0, count)
IsTaken(x) == \E t \in Delivering : Within(x, buf[1 - front], i[t], n[t])

LEMMA MailboxHolds ==
  CoreInv => \A x : InMailbox(x) <=> IsPending(x) \/ IsTaken(x) \/ Delivered(x)
<1> SUFFICES ASSUME CoreInv, NEW x
             PROVE  InMailbox(x) <=> IsPending(x) \/ IsTaken(x) \/ Delivered(x)
  OBVIOUS
<1> USE DEF CoreInv
<1>1. In(x, Pending) <=> IsPending(x)
  <2>1. buf[front] \in Seq(Jobs \cup {Vacant}) /\ count \in Nat /\ 0 <= count /\ count <= Len(buf[front])
    BY LenProperties DEF DispatchTypeOK
  <2>2. In(x, SubSeq(buf[front], 0 + 1, count)) <=> Within(x, buf[front], 0, count)
    BY <2>1, RangeHolds
  <2>3. QED
    BY <2>2 DEF Pending, IsPending
<1>2. In(x, Active) <=> IsTaken(x)
  <2>1. CASE Delivering = {}
    BY <2>1 DEF Active, IsTaken, In
  <2>2. CASE Delivering # {}
    <3>1. PICK t \in Delivering : t = CHOOSE u \in Delivering : TRUE
      BY <2>2
    <3>2. Delivering = {t} /\ t \in Users
      BY DEF Delivering, OneDrain
    <3>3. Active = SubSeq(buf[1 - front], i[t] + 1, n[t])
      BY <2>2, <3>1 DEF Active
    <3>4. /\ buf[1 - front] \in Seq(Jobs \cup {Vacant})
          /\ i[t] \in Nat /\ n[t] \in Nat /\ i[t] <= n[t] /\ n[t] <= Len(buf[1 - front])
      BY <3>2 DEF DispatchTypeOK, BatchApart
    <3>5. In(x, Active) <=> Within(x, buf[1 - front], i[t], n[t])
      BY <3>3, <3>4, RangeHolds
    <3>6. QED
      BY <3>2, <3>5 DEF IsTaken
  <2>3. QED
    BY <2>1, <2>2
<1>3. QED
  BY <1>1, <1>2 DEF InMailbox, Delivered, In
\* Nothing gets into the mailbox or out of it but what a post writes there.
Holds(x) == IsPending(x) \/ IsTaken(x) \/ Delivered(x)

LEMMA BoxContents ==
  ASSUME NEW t \in Users, CoreInv, PostCall(t) \/ Post(t) \/ Drain(t) \/ FreeBox(t), NEW x
  PROVE  Holds(x)' <=> Holds(x) \/ (PostWrite(t) /\ x = item[t])
<1> USE DEF CoreInv, Holds, IsPending, IsTaken, Delivered, Within
<1>0. /\ count \in Nat /\ count <= Len(buf[front]) /\ Len(buf[front]) \in Nat
      /\ front \in {0, 1} /\ 1 - (1 - front) = front
  BY LenProperties DEF DispatchTypeOK
<1>1. CASE PostGrow(t)
  <2>1. /\ \A k \in 1 .. Len(buf[front]) : buf'[front][k] = buf[front][k]
        /\ buf'[1 - front] = buf[1 - front]
    BY <1>1, GrowCore
  <2>2. /\ front' = front /\ count' = count /\ Delivering' = Delivering
        /\ n' = n /\ i' = i /\ delivered' = delivered /\ ~PostWrite(t)
    BY <1>1 DEF PostGrow, PostWrite, PostStep, drainVars, Delivering
  <2>3. \A k \in 1 .. count : buf'[front][k] = buf[front][k]
    BY <1>0, <2>1
  <2>4. QED
    BY <2>1, <2>2, <2>3
<1>2. CASE PostWrite(t)
  <2>1. /\ \A k \in 1 .. count + 1 :
             buf'[front][k] = IF k = count + 1 THEN item[t] ELSE buf[front][k]
        /\ buf'[1 - front] = buf[1 - front]
    BY <1>2, WriteCore
  <2>2. /\ front' = front /\ count' = count + 1 /\ Delivering' = Delivering
        /\ n' = n /\ i' = i /\ delivered' = delivered
    BY <1>2 DEF PostWrite, drainVars, Delivering
  <2>3. IsPending(x)' <=> IsPending(x) \/ x = item[t]
    <3>1. IsPending(x)' <=> \E k \in 1 .. count + 1 : buf'[front][k] = x
      BY <2>2
    <3>2. IsPending(x) <=> \E k \in 1 .. count : buf'[front][k] = x
      <4>1. \A k \in 1 .. count : buf'[front][k] = buf[front][k]
        BY <1>0, <2>1
      <4>2. QED
        BY <4>1
    <3>3. buf'[front][count + 1] = item[t]
      BY <1>0, <2>1
    <3>4. \A k : k \in 1 .. count + 1 <=> k \in 1 .. count \/ k = count + 1
      BY <1>0
    <3>5. QED
      BY <3>1, <3>2, <3>3, <3>4
  <2>4. IsTaken(x)' <=> IsTaken(x)
    BY <2>1, <2>2
  <2>5. QED
    BY <1>2, <2>2, <2>3, <2>4
<1>3. CASE Swap(t)
  <2>1. /\ buf' = buf /\ count' = 0 /\ delivered' = delivered /\ ~PostWrite(t)
        /\ front' = IF count # 0 THEN 1 - front ELSE front
        /\ Delivering = {} /\ Delivering' = {t} /\ n'[t] = count /\ i'[t] = 0
    BY <1>3, SwapEffect DEF Swap, DrainStep, PostWrite, PostStep
  <2>2. ~IsPending(x)' /\ ~IsTaken(x)
    BY <2>1
  <2>3. IsTaken(x)' <=> IsPending(x)
    <3>1. IsTaken(x)' <=> \E k \in 1 .. count : buf[1 - front'][k] = x
      BY <2>1
    <3>2. IsPending(x) <=> \E k \in 1 .. count : buf[front][k] = x
      OBVIOUS
    <3>3. CASE count = 0
      BY <1>0, <3>1, <3>2, <3>3
    <3>4. CASE count # 0
      <4>1. 1 - front' = front
        BY <1>0, <2>1, <3>4
      <4>2. QED
        BY <3>1, <3>2, <4>1
    <3>5. QED
      BY <3>3, <3>4
  <2>4. QED
    BY <2>1, <2>2, <2>3
<1>4. CASE Invoke(t)
  <2>1. /\ i[t] + 1 \in i[t] + 1 .. n[t] /\ i[t] \in Nat /\ n[t] \in Nat
        /\ buf[1 - front][i[t] + 1] \in Jobs
    BY <1>4, InvokeCore DEF DispatchTypeOK
  <2>2. /\ buf' = buf /\ count' = count /\ front' = front /\ ~PostWrite(t)
        /\ n' = n /\ i'[t] = i[t] + 1
    BY <1>4 DEF Invoke, DrainStep, boxVars, PostWrite, PostStep, DispatchTypeOK
  <2>3. Delivering' = {t} /\ Delivering = {t}
    <3>1. pd[t] = "loop" /\ pd'[t] = "handler" /\ \A s \in Users \ {t} : pd'[s] = pd[s]
      BY <1>4 DEF Invoke, DrainStep, DispatchTypeOK
    <3>2. \A s \in Users \ {t} : pd[s] = "idle"
      BY <3>1, Alone
    <3>3. QED
      BY <3>1, <3>2 DEF Delivering
  <2>4. delivered' = Append(delivered, buf[1 - front][i[t] + 1]) /\ delivered \in Seq(Jobs)
    BY <1>4 DEF Invoke, DispatchTypeOK
  <2>5. Delivered(x)' <=> Delivered(x) \/ x = buf[1 - front][i[t] + 1]
    <3>1. /\ DOMAIN delivered = 1 .. Len(delivered) /\ Len(delivered) \in Nat
          /\ DOMAIN delivered' = 1 .. Len(delivered) + 1
          /\ \A k \in 1 .. Len(delivered) : delivered'[k] = delivered[k]
          /\ delivered'[Len(delivered) + 1] = buf[1 - front][i[t] + 1]
      BY <2>1, <2>4, AppendProperties, LenProperties
    <3>2. QED
      BY <3>1
  <2>6. IsTaken(x) <=> IsTaken(x)' \/ x = buf[1 - front][i[t] + 1]
    BY <2>1, <2>2, <2>3
  <2>7. QED
    BY <2>2, <2>5, <2>6
<1>5. CASE ~(PostGrow(t) \/ PostWrite(t) \/ Swap(t) \/ Invoke(t))
  <2>1. UNCHANGED <<buf, front, count, n, i, delivered>>
    BY <1>5 DEF PostCall, Post, Drain, FreeBox, PostLock, PostBusy, PostGrowFails, PostUnlock, PostEnd,
         DrainClaim, DrainLock, DrainBusy, DrainUnlock, DrainUnlocked, Invoked, DrainEnd, boxVars, drainVars
  <2>2. \A u \in Users \ {t} : pd'[u] = pd[u]
    BY <1>5 DEF PostCall, Post, Drain, FreeBox, PostLock, PostBusy, PostGrowFails, PostUnlock, PostEnd,
         DrainClaim, DrainLock, DrainBusy, DrainUnlock, DrainUnlocked, Invoked, DrainEnd, boxVars, drainVars,
         DrainStep, DispatchTypeOK
  <2>3. t \in Delivering <=> t \in Delivering' \/ DrainEnd(t)
    BY <1>5 DEF PostCall, Post, Drain, FreeBox, PostLock, PostBusy, PostGrowFails, PostUnlock, PostEnd,
         DrainClaim, DrainLock, DrainBusy, DrainUnlock, DrainUnlocked, Invoked, DrainEnd, boxVars, drainVars,
         DrainStep, DispatchTypeOK, Delivering
  <2>4. DrainEnd(t) => ~Within(x, buf[1 - front], i[t], n[t])
    BY DEF DrainEnd, DispatchTypeOK
  <2>5. \A u \in Users \ {t} : u \in Delivering' <=> u \in Delivering
    BY <2>2 DEF Delivering
  <2>6. IsTaken(x)' <=> IsTaken(x)
    BY <2>1, <2>3, <2>4, <2>5 DEF Delivering
  <2>7. QED
    BY <1>5, <2>1, <2>6
<1>6. QED
  BY <1>1, <1>2, <1>3, <1>4, <1>5
-----------------------------------------------------------------------------
(* The answers.                                                             *)

\* The initial mailbox holds nothing and has answered nobody.
LEMMA BoxItemsInit == DispatchInit => AnswersAreTrue /\ ItemsApart
<1> SUFFICES ASSUME DispatchInit PROVE AnswersAreTrue /\ ItemsApart
  OBVIOUS
<1>1. \A x : ~InMailbox(x)
  <2>1. CoreInv
    BY CoreInit
  <2>2. \A x : ~IsPending(x) /\ ~IsTaken(x) /\ ~Delivered(x)
    BY DEF DispatchInit, IsPending, IsTaken, Delivered, Delivering, Within
  <2>3. QED
    BY <2>1, <2>2, MailboxHolds
<1>2. QED
  BY <1>1 DEF DispatchInit, AnswersAreTrue, ItemsApart

\* What an operation of t does to the items and the answers: the posts it begins,
\* and the answer it returns.
LEMMA ItemsStep ==
  ASSUME NEW t \in Users, CoreInv, CoreInv', AnswersAreTrue, ItemsApart,
         PostCall(t) \/ Post(t) \/ Drain(t) \/ FreeBox(t)
  PROVE  AnswersAreTrue' /\ ItemsApart'
<1>1. \A x : InMailbox(x) <=> Holds(x)
  BY MailboxHolds DEF Holds
<1>2. \A x : InMailbox(x)' <=> Holds(x)'
  <2>1. (CoreInv => \A x : InMailbox(x) <=> IsPending(x) \/ IsTaken(x) \/ Delivered(x))'
    BY MailboxHolds, PTL
  <2>2. QED
    BY <2>1 DEF Holds
<1>3. \A x : InMailbox(x)' <=> InMailbox(x) \/ (PostWrite(t) /\ x = item[t])
  BY <1>1, <1>2, BoxContents
<1>4. /\ posts \in Nat /\ MaxPosts \in Nat /\ posts <= MaxPosts
      /\ \A s \in Users : pp[s] # "idle" => item[s] \in 1 .. posts /\ item[s] \in Jobs
  <2>1. posts \in Nat /\ MaxPosts \in Nat /\ posts <= MaxPosts
    BY DispatchAssumption DEF CoreInv, DispatchTypeOK
  <2>2. QED
    BY <2>1 DEF CoreInv, HasItem, Jobs
<1>5. CASE PostCall(t)
  <2>1. /\ pp[t] = "idle" /\ pp' = [pp EXCEPT ![t] = "try"]
        /\ posts' = posts + 1 /\ item' = [item EXCEPT ![t] = posts + 1]
        /\ granted' = granted /\ refused' = refused /\ posts + 1 \in Jobs
    BY <1>4, <1>5 DEF PostCall, PostStep, Jobs
  <2>2. \A x : InMailbox(x)' <=> InMailbox(x)
    BY <1>3, <2>1 DEF PostWrite, PostStep
  <2>3. ~InMailbox(posts + 1)
    BY <1>4, <2>1 DEF ItemsApart
  <2>4. \A s \in Users : pp'[s] # "idle" =>
          \/ s = t /\ item'[s] = posts + 1 /\ pp'[s] = "try"
          \/ s # t /\ pp[s] # "idle" /\ item'[s] = item[s] /\ pp'[s] = pp[s]
    BY <2>1 DEF CoreInv, DispatchTypeOK
  <2>5. AnswersAreTrue'
    BY <2>1, <2>2 DEF AnswersAreTrue
  <2>6. ItemsApart'
    <3>1. granted' \cup refused' \subseteq 1 .. posts'
      BY <1>4, <2>1 DEF ItemsApart
    <3>2. \A x \in Jobs : InMailbox(x)' => x <= posts'
      BY <1>4, <2>1, <2>2 DEF ItemsApart, Jobs
    <3>3. \A s, u \in Users : pp'[s] # "idle" /\ pp'[u] # "idle" /\ item'[s] = item'[u] => s = u
      BY <1>4, <2>4 DEF ItemsApart
    <3>4. \A s \in Users : pp'[s] # "idle" =>
            /\ item'[s] \in 1 .. posts'
            /\ item'[s] \notin granted' \cup refused'
            /\ InMailbox(item[s])' <=> pp'[s] = "done"
      BY <1>4, <2>1, <2>2, <2>3, <2>4 DEF ItemsApart
    <3>5. QED
      BY <2>2, <3>1, <3>2, <3>3, <3>4 DEF ItemsApart
  <2>7. QED
    BY <2>5, <2>6
<1>6. CASE PostWrite(t)
  <2>1. /\ pp[t] = "write" /\ pp' = [pp EXCEPT ![t] = "done"] /\ item' = item /\ posts' = posts
        /\ granted' = granted /\ refused' = refused
    BY <1>6 DEF PostWrite, PostStep
  <2>2. \A x : InMailbox(x)' <=> InMailbox(x) \/ x = item[t]
    BY <1>3, <1>6
  <2>3. \A s \in Users : pp'[s] # "idle" => pp[s] # "idle" /\ (s # t => pp'[s] = pp[s])
    BY <2>1 DEF CoreInv, DispatchTypeOK
  <2>4. AnswersAreTrue'
    BY <2>1, <2>2 DEF AnswersAreTrue, ItemsApart
  <2>5. pp'[t] = "done"
    BY <2>1 DEF CoreInv, DispatchTypeOK
  <2>6. ItemsApart'
    <3>1. \A x \in Jobs : InMailbox(x)' => x <= posts'
      BY <1>4, <2>1, <2>2 DEF ItemsApart
    <3>2. \A s \in Users : pp'[s] # "idle" => (InMailbox(item[s])' <=> pp'[s] = "done")
      BY <2>1, <2>2, <2>3, <2>5 DEF ItemsApart
    <3>3. QED
      BY <2>1, <2>3, <3>1, <3>2 DEF ItemsApart
  <2>7. QED
    BY <2>4, <2>6
<1>7. CASE PostBusy(t) \/ PostEnd(t)
  <2>1. PICK from \in {"try", "fail", "done"}, answer \in BOOLEAN :
          /\ PostReturns(t, from, answer)
          /\ answer <=> from = "done"
    BY <1>7 DEF PostBusy, PostEnd
  <2>2. /\ pp[t] = from /\ pp' = [pp EXCEPT ![t] = "idle"] /\ posts' = posts
        /\ item' = [item EXCEPT ![t] = Vacant]
        /\ granted' = IF answer THEN granted \cup {item[t]} ELSE granted
        /\ refused' = IF answer THEN refused ELSE refused \cup {item[t]}
    BY <2>1 DEF PostReturns, PostStep
  <2>3. \A x : InMailbox(x)' <=> InMailbox(x)
    BY <1>3, <2>2 DEF PostWrite, PostStep
  <2>4. InMailbox(item[t]) <=> answer
    BY <2>1, <2>2 DEF ItemsApart
  <2>5. \A s \in Users : pp'[s] # "idle" => s # t /\ pp[s] # "idle" /\ pp'[s] = pp[s] /\ item'[s] = item[s]
    BY <2>2 DEF CoreInv, DispatchTypeOK
  <2>6. \A s \in Users : pp'[s] # "idle" => item[s] # item[t]
    BY <2>2, <2>5 DEF ItemsApart
  <2>7. AnswersAreTrue'
    BY <2>2, <2>3, <2>4 DEF AnswersAreTrue
  <2>8. ItemsApart'
    <3>1. granted' \cup refused' \subseteq 1 .. posts'
      BY <1>4, <2>2 DEF ItemsApart
    <3>2. \A x \in Jobs : InMailbox(x)' => x <= posts'
      BY <2>2, <2>3 DEF ItemsApart
    <3>3. \A s \in Users : pp'[s] # "idle" =>
            /\ item'[s] \in 1 .. posts'
            /\ item'[s] \notin granted' \cup refused'
            /\ InMailbox(item[s])' <=> pp'[s] = "done"
      BY <2>2, <2>3, <2>5, <2>6 DEF ItemsApart
    <3>4. QED
      BY <2>5, <3>1, <3>2, <3>3 DEF ItemsApart
  <2>9. QED
    BY <2>7, <2>8
<1>8. CASE ~(PostCall(t) \/ PostWrite(t) \/ PostBusy(t) \/ PostEnd(t))
  <2>1. UNCHANGED <<item, posts, granted, refused>>
    BY <1>8 DEF Post, Drain, FreeBox, PostLock, PostGrow, PostGrowFails, PostUnlock,
         DrainClaim, DrainLock, DrainBusy, DrainUnlock, DrainUnlocked, Invoke, Invoked, DrainEnd,
         Swap, DrainStep, postVars
  <2>2. \A s \in Users : pp'[s] # "idle" => pp[s] # "idle" /\ (pp'[s] = "done" <=> pp[s] = "done")
    BY <1>8 DEF Post, Drain, FreeBox, PostLock, PostGrow, PostGrowFails, PostUnlock,
         DrainClaim, DrainLock, DrainBusy, DrainUnlock, DrainUnlocked, Invoke, Invoked, DrainEnd,
         Swap, DrainStep, PostStep, postVars, CoreInv, DispatchTypeOK
  <2>3. \A x : InMailbox(x)' <=> InMailbox(x)
    BY <1>3, <1>8
  <2>4. AnswersAreTrue'
    BY <2>1, <2>3 DEF AnswersAreTrue
  <2>5. ItemsApart'
    BY <2>1, <2>2, <2>3 DEF ItemsApart
  <2>6. QED
    BY <2>4, <2>5
<1>9. QED
  BY <1>5, <1>6, <1>7, <1>8

\* The invariant, for every mailbox: the buffers outlive their users and are shared
\* out between posts and drains, one drain is under way at a time, and a post is
\* answered truly.  Dispatch_post, Dispatch_drain, Dispatch_free.
THEOREM MailboxInvariant == DispatchSpec => []DispatchInv
<1>1. DispatchInv <=> CoreInv /\ AnswersAreTrue /\ ItemsApart
  BY DEF DispatchInv, CoreInv, ItemsApart, HasItem
<1>2. DispatchInit => DispatchInv
  BY <1>1, CoreInit, BoxItemsInit
<1>3. DispatchInv /\ [DispatchNext]_dispatchVars => DispatchInv'
  <2> SUFFICES ASSUME DispatchInv, [DispatchNext]_dispatchVars PROVE DispatchInv'
    OBVIOUS
  <2>1. CoreInv /\ CoreInv'
    BY <1>1, CoreStep
  <2>2. CASE UNCHANGED dispatchVars
    <3>1. AnswersAreTrue' /\ ItemsApart'
      <4>1. Delivering' = Delivering
        BY <2>2 DEF dispatchVars, Delivering
      <4>2. Pending' = Pending /\ Active' = Active /\ delivered' = delivered
        BY <2>2, <4>1 DEF dispatchVars, Pending, Active
      <4>3. \A x : InMailbox(x)' <=> InMailbox(x)
        BY <4>2 DEF InMailbox
      <4>4. QED
        BY <2>2, <4>3 DEF dispatchVars, DispatchInv, AnswersAreTrue, ItemsApart
    <3>2. QED
      BY <2>1, <3>1 DEF DispatchInv, CoreInv
  <2>3. CASE DispatchNext
    <3>1. AnswersAreTrue' /\ ItemsApart'
      BY <1>1, <2>1, <2>3, ItemsStep DEF DispatchNext
    <3>2. QED
      BY <2>1, <3>1 DEF DispatchInv, CoreInv
  <2>4. QED
    BY <2>2, <2>3
<1>4. QED
  BY <1>2, <1>3, PTL DEF DispatchSpec
-----------------------------------------------------------------------------
(* The mailbox implements Mailbox.                                          *)

\* Two sequences that agree on a range have the same subsequence there.
LEMMA SameRange ==
  ASSUME NEW S, NEW r \in Seq(S), NEW s \in Seq(S), NEW a \in Nat, NEW b \in Nat, b <= Len(s),
         b <= Len(r), \A k \in a + 1 .. b : r[k] = s[k]
  PROVE  SubSeq(r, a + 1, b) = SubSeq(s, a + 1, b)
<1>1. \A k \in a + 1 .. b : s[k] \in S /\ r[k] \in S
  BY ElementOfSeq, LenProperties
<1> DEFINE u == SubSeq(r, a + 1, b)
           v == SubSeq(s, a + 1, b)
<1>2. u \in Seq(S) /\ v \in Seq(S) /\ Len(u) = Len(v)
  BY <1>1, SubSeqProperties
<1>3. \A k \in 1 .. b - a : u[k] = r[a + k] /\ v[k] = s[a + k]
  BY <1>1, SubSeqProperties
<1>4. Len(u) = IF a + 1 <= b THEN b - a ELSE 0
  BY <1>1, SubSeqProperties
<1>5. \A k \in 1 .. Len(u) : u[k] = v[k]
  BY <1>3, <1>4
<1> HIDE DEF u, v
<1>6. u = v
  BY <1>2, <1>5, SeqEqual
<1>7. QED
  BY <1>6 DEF u, v

\* What Pending and Active are, and that they are sequences of items.
LEMMA Queues ==
  CoreInv =>
    /\ Pending \in Seq(Jobs) /\ Pending = SubSeq(buf[front], 1, count)
    /\ Active \in Seq(Jobs)
    /\ Delivering = {} => Active = <<>>
    /\ \A t \in Delivering : Active = SubSeq(buf[1 - front], i[t] + 1, n[t])
    /\ delivered \in Seq(Jobs)
<1> SUFFICES ASSUME CoreInv
             PROVE  /\ Pending \in Seq(Jobs) /\ Pending = SubSeq(buf[front], 1, count)
                    /\ Active \in Seq(Jobs)
                    /\ Delivering = {} => Active = <<>>
                    /\ \A t \in Delivering : Active = SubSeq(buf[1 - front], i[t] + 1, n[t])
                    /\ delivered \in Seq(Jobs)
  OBVIOUS
<1> USE DEF CoreInv
<1>1. Pending = SubSeq(buf[front], 1, count) /\ Pending \in Seq(Jobs)
  <2>1. count \in Int /\ 1 \in Int /\ \A k \in 1 .. count : buf[front][k] \in Jobs
    BY LenProperties DEF DispatchTypeOK, BatchApart
  <2>2. SubSeq(buf[front], 1, count) \in Seq(Jobs)
    BY <2>1, SubSeqProperties
  <2>3. QED
    BY <2>2 DEF Pending
<1>2. ASSUME NEW t \in Delivering
      PROVE  Active = SubSeq(buf[1 - front], i[t] + 1, n[t]) /\ Active \in Seq(Jobs)
  <2>1. t \in Users /\ \A u \in Delivering : u = t
    BY <1>2 DEF Delivering, OneDrain
  <2>2. Active = SubSeq(buf[1 - front], i[t] + 1, n[t])
    BY <2>1 DEF Active
  <2>3. i[t] + 1 \in Int /\ n[t] \in Int /\ \A k \in i[t] + 1 .. n[t] : buf[1 - front][k] \in Jobs
    BY <2>1 DEF DispatchTypeOK, BatchApart
  <2>4. SubSeq(buf[1 - front], i[t] + 1, n[t]) \in Seq(Jobs)
    BY <2>3, SubSeqProperties
  <2>5. QED
    BY <2>2, <2>4
<1>3. Delivering = {} => Active = <<>>
  BY DEF Active
<1>4. Active \in Seq(Jobs)
  BY <1>2, <1>3, EmptySeq
<1>5. QED
  BY <1>1, <1>2, <1>3, <1>4 DEF DispatchTypeOK

LEMMA ActiveIs ==
  CoreInv => \A u \in Delivering : Active = SubSeq(buf[1 - front], i[u] + 1, n[u])
BY Queues

\* What is in none of three sequences is not in their concatenation.
LEMMA NotInConcat ==
  ASSUME NEW S, NEW q \in Seq(S), NEW r \in Seq(S), NEW s \in Seq(S), NEW x,
         ~In(x, q), ~In(x, r), ~In(x, s)
  PROVE  \A k \in DOMAIN (q \o r \o s) : (q \o r \o s)[k] # x
<1>1. ASSUME NEW u \in Seq(S), NEW v \in Seq(S), ~In(x, u), ~In(x, v)
      PROVE  u \o v \in Seq(S) /\ ~In(x, u \o v)
  <2>1. /\ u \o v \in Seq(S) /\ Len(u \o v) = Len(u) + Len(v)
        /\ \A k \in 1 .. Len(u) + Len(v) : (u \o v)[k] = IF k <= Len(u) THEN u[k] ELSE v[k - Len(u)]
    BY ConcatProperties
  <2>2. Len(u) \in Nat /\ Len(v) \in Nat /\ DOMAIN u = 1 .. Len(u) /\ DOMAIN v = 1 .. Len(v)
        /\ DOMAIN (u \o v) = 1 .. Len(u) + Len(v)
    BY <2>1, LenProperties
  <2>3. ASSUME NEW k \in 1 .. Len(u) + Len(v)
        PROVE  (u \o v)[k] # x
    <3>1. CASE k <= Len(u)
      <4>1. k \in 1 .. Len(u) /\ (u \o v)[k] = u[k]
        BY <2>1, <2>2, <3>1
      <4>2. QED
        BY <1>1, <2>2, <4>1 DEF In
    <3>2. CASE k > Len(u)
      <4>1. k - Len(u) \in 1 .. Len(v)
        BY <2>2, <3>2
      <4>2. (u \o v)[k] = v[k - Len(u)]
        BY <2>1, <2>2, <3>2
      <4>3. QED
        BY <1>1, <2>2, <4>1, <4>2 DEF In
    <3>3. QED
      BY <2>2, <3>1, <3>2
  <2>4. QED
    BY <2>1, <2>2, <2>3 DEF In
<1>2. q \o r \in Seq(S) /\ ~In(x, q \o r)
  BY <1>1
<1>3. ~In(x, q \o r \o s)
  BY <1>1, <1>2
<1>4. QED
  BY <1>3 DEF In
\* The write of a post puts its item at the end of what is pending.
LEMMA WriteIsPost ==
  ASSUME NEW t \in Users, CoreInv, ItemsApart, PostWrite(t)
  PROVE  AbstractMailbox!Post(item[t]) /\ item[t] \in Jobs
<1> USE DEF CoreInv
<1>1. /\ CoreInv'
      /\ \A k \in 1 .. count + 1 : buf'[front][k] = IF k = count + 1 THEN item[t] ELSE buf[front][k]
      /\ buf'[1 - front] = buf[1 - front]
  BY WriteCore
<1>2. /\ front' = front /\ count' = count + 1 /\ n' = n /\ i' = i /\ delivered' = delivered
      /\ Delivering' = Delivering /\ pp[t] = "write" /\ front \in {0, 1}
  BY DEF PostWrite, PostStep, drainVars, Delivering, DispatchTypeOK
<1> DEFINE old == buf[front]
           new == buf'[front]
           S == Jobs \cup {Vacant}
<1>3. /\ old \in Seq(S) /\ new \in Seq(S) /\ count \in Nat
      /\ count <= Len(old) /\ count + 1 <= Len(new)
  <2>1. (CoreInv => /\ buf[front] \in Seq(Jobs \cup {Vacant}) /\ Len(buf[front]) \in Nat
                    /\ count \in Nat /\ count <= Len(buf[front]))'
    BY PendingRange, PTL
  <2>2. QED
    BY <1>1, <1>2, <2>1, PendingRange
<1>4. item[t] \in Jobs /\ new[count + 1] = item[t]
  <2>1. posts \in Nat /\ MaxPosts \in Nat /\ posts <= MaxPosts /\ item[t] \in 1 .. posts
    BY <1>2, DispatchAssumption DEF HasItem, DispatchTypeOK
  <2>2. QED
    BY <1>1, <1>3, <2>1 DEF Jobs
<1>5. Pending' = Append(Pending, item[t])
  <2>1. Pending \in Seq(Jobs) /\ Pending = SubSeq(old, 1, count) /\ Pending' = SubSeq(new, 1, count + 1)
    <3>1. Pending' = SubSeq(new, 1, count + 1)
      BY <1>2 DEF Pending
    <3>2. QED
      BY <3>1, Queues
  <2>2. SubSeq(new, 1, count + 1) = SubSeq(new, 1, count) \o <<item[t]>>
    <3>1. 1 \in 1 .. Len(new) /\ count + 1 \in 1 .. Len(new) /\ count + 1 - 1 = count
      BY <1>3, LenProperties
    <3>2. SubSeq(new, 1, count + 1) = SubSeq(new, 1, count + 1 - 1) \o <<new[count + 1]>>
      BY <1>3, <3>1, SubSeqRecursiveSecond
    <3>3. QED
      BY <1>4, <3>1, <3>2
  <2>3. SubSeq(new, 0 + 1, count) = SubSeq(old, 0 + 1, count)
    <3>1. \A k \in 0 + 1 .. count : new[k] = old[k]
      BY <1>1, <1>3
    <3>2. count <= Len(old) /\ count <= Len(new) /\ 0 \in Nat
      BY <1>3, LenProperties
    <3>3. QED
      BY <1>3, <3>1, <3>2, SameRange
  <2>4. Append(Pending, item[t]) = Pending \o <<item[t]>>
    BY <1>4, <2>1, AppendIsConcat
  <2>5. QED
    BY <2>1, <2>2, <2>3, <2>4
<1>6. Active' = Active
  BY <1>1, <1>2 DEF Active
<1>7. \A k \in DOMAIN AbstractMailbox!Posted : AbstractMailbox!Posted[k] # item[t]
  <2>1. ~InMailbox(item[t])
    BY <1>2 DEF ItemsApart
  <2>2. ~In(item[t], Pending) /\ ~In(item[t], Active) /\ ~In(item[t], delivered)
    BY <2>1 DEF InMailbox, In
  <2>3. Pending \in Seq(Jobs) /\ Active \in Seq(Jobs) /\ delivered \in Seq(Jobs)
    BY Queues
  <2>4. QED
    BY <2>2, <2>3, NotInConcat DEF AbstractMailbox!Posted
<1>8. QED
  BY <1>2, <1>4, <1>5, <1>6, <1>7 DEF AbstractMailbox!Post

\* The exchange takes what is pending, unless there is nothing.
LEMMA SwapIsTake ==
  ASSUME NEW t \in Users, CoreInv, CoreInv', Swap(t)
  PROVE  AbstractMailbox!Take \/ UNCHANGED <<Pending, Active, delivered>>
<1>1. /\ buf' = buf /\ count' = 0 /\ delivered' = delivered /\ count \in Nat
      /\ front' = (IF count # 0 THEN 1 - front ELSE front) /\ front \in {0, 1}
      /\ Delivering = {} /\ t \in Delivering' /\ n'[t] = count /\ i'[t] = 0
  BY SwapEffect, PendingRange
<1>2. Active = <<>> /\ Pending = SubSeq(buf[front], 1, count)
  BY <1>1, Queues
<1>3. /\ Pending' = SubSeq(buf'[front'], 1, 0)
      /\ Active' = SubSeq(buf'[1 - front'], i'[t] + 1, n'[t])
  <2>1. (CoreInv => \A u \in Delivering : Active = SubSeq(buf[1 - front], i[u] + 1, n[u]))'
    BY ActiveIs, PTL
  <2>2. QED
    BY <1>1, <2>1 DEF Pending
<1>4. Pending' = <<>>
  BY <1>3, SubSeqEmpty
<1>5. CASE count = 0
  <2>1. Pending = <<>>
    BY <1>2, <1>5, SubSeqEmpty
  <2>2. Active' = <<>>
    BY <1>1, <1>3, <1>5, SubSeqEmpty
  <2>3. QED
    BY <1>1, <1>2, <1>4, <2>1, <2>2
<1>6. CASE count # 0
  <2>1. 1 - front' = front
    BY <1>1, <1>6
  <2>2. Active' = Pending
    BY <1>1, <1>2, <1>3, <2>1
  <2>3. QED
    BY <1>1, <1>2, <1>4, <2>2 DEF AbstractMailbox!Take
<1>7. QED
  BY <1>5, <1>6
\* An invocation of the handler delivers the first item of the batch.
LEMMA InvokeIsDeliver ==
  ASSUME NEW t \in Users, CoreInv, CoreInv', Invoke(t)
  PROVE  AbstractMailbox!Deliver
<1> DEFINE taken == buf[1 - front]
<1>1. /\ buf' = buf /\ count' = count /\ front' = front /\ n' = n /\ i'[t] = i[t] + 1
      /\ t \in Delivering /\ t \in Delivering' /\ i[t] < n[t]
      /\ delivered' = Append(delivered, taken[i[t] + 1])
  BY DEF CoreInv, Invoke, DrainStep, boxVars, Delivering, DispatchTypeOK
<1>2. Active = SubSeq(taken, i[t] + 1, n[t])
  BY <1>1, ActiveIs
<1>3. Active' = SubSeq(taken, i[t] + 2, n[t])
  <2>1. (CoreInv => \A u \in Delivering : Active = SubSeq(buf[1 - front], i[u] + 1, n[u]))'
    BY ActiveIs, PTL
  <2>2. Active' = SubSeq(taken, i'[t] + 1, n[t])
    BY <1>1, <2>1
  <2>3. i[t] + 1 + 1 = i[t] + 2
    <3>1. i[t] \in Nat
      BY <1>1, BatchRange
    <3>2. QED
      BY <3>1
  <2>4. QED
    BY <1>1, <2>2, <2>3
<1>4. /\ taken \in Seq(Jobs \cup {Vacant})
      /\ i[t] + 1 \in 1 .. Len(taken) /\ n[t] \in i[t] + 1 .. Len(taken) /\ i[t] + 1 + 1 = i[t] + 2
  <2>1. /\ taken \in Seq(Jobs \cup {Vacant}) /\ Len(taken) \in Nat
        /\ i[t] \in Nat /\ n[t] \in Nat /\ n[t] <= Len(taken)
    BY <1>1, BatchRange
  <2>2. QED
    BY <1>1, <2>1
<1>5. Head(Active) = taken[i[t] + 1] /\ Tail(Active) = SubSeq(taken, i[t] + 2, n[t])
  <2>1. /\ Head(SubSeq(taken, i[t] + 1, n[t])) = taken[i[t] + 1]
        /\ Tail(SubSeq(taken, i[t] + 1, n[t])) = SubSeq(taken, i[t] + 1 + 1, n[t])
    BY <1>4, HeadTailOfSubSeq
  <2>2. QED
    BY <1>2, <1>4, <2>1
<1>6. Active # <<>>
  <2>1. Active = <<taken[i[t] + 1]>> \o SubSeq(taken, i[t] + 1 + 1, n[t])
    BY <1>2, <1>4, SubSeqRecursiveFirst
  <2>2. \A k \in i[t] + 1 .. n[t] : taken[k] \in Jobs \cup {Vacant}
    BY <1>4, ElementOfSeq, LenProperties
  <2>3. i[t] \in Nat /\ n[t] \in Nat /\ i[t] + 1 \in Int /\ n[t] \in Int
    BY <1>1, BatchRange
  <2>4. Len(Active) = n[t] - i[t]
    <3>1. Len(SubSeq(taken, i[t] + 1, n[t]))
            = IF i[t] + 1 <= n[t] THEN n[t] - (i[t] + 1) + 1 ELSE 0
      BY <2>2, <2>3, SubSeqProperties
    <3>2. QED
      BY <1>1, <1>2, <2>3, <3>1
  <2>5. Len(<<>>) = 0 /\ n[t] - i[t] # 0
    BY <1>1, <2>3
  <2>6. QED
    BY <2>4, <2>5
<1>7. Pending' = Pending
  BY <1>1 DEF Pending
<1>8. QED
  BY <1>1, <1>3, <1>5, <1>6, <1>7 DEF AbstractMailbox!Deliver

\* Nothing else changes what is pending, taken or delivered.
LEMMA OtherwiseStutters ==
  ASSUME NEW t \in Users, CoreInv, CoreInv', PostCall(t) \/ Post(t) \/ Drain(t) \/ FreeBox(t),
         ~PostWrite(t), ~Swap(t), ~Invoke(t)
  PROVE  UNCHANGED <<Pending, Active, delivered>>
<1> USE DEF CoreInv
<1>1. CASE PostGrow(t)
  <2>1. /\ \A k \in 1 .. Len(buf[front]) : buf'[front][k] = buf[front][k]
        /\ Len(buf'[front]) = Doubled(Len(buf[front]))
        /\ buf'[1 - front] = buf[1 - front]
    BY <1>1, GrowCore
  <2>2. /\ front' = front /\ count' = count /\ Delivering' = Delivering
        /\ n' = n /\ i' = i /\ delivered' = delivered
    BY <1>1 DEF PostGrow, PostStep, drainVars, Delivering
  <2>3. /\ buf[front] \in Seq(Jobs \cup {Vacant}) /\ buf'[front] \in Seq(Jobs \cup {Vacant})
        /\ count \in Nat /\ 0 \in Nat /\ count <= Len(buf[front]) /\ count <= Len(buf'[front])
    BY <2>2, LenProperties DEF DispatchTypeOK
  <2>4. \A k \in 0 + 1 .. count : buf'[front][k] = buf[front][k]
    BY <2>1, <2>3, LenProperties
  <2>5. SubSeq(buf'[front], 0 + 1, count) = SubSeq(buf[front], 0 + 1, count)
    BY <2>3, <2>4, SameRange
  <2>6. Pending' = Pending
    <3>1. 0 + 1 = 1
      OBVIOUS
    <3>2. QED
      BY <2>2, <2>5, <3>1 DEF Pending
  <2>7. Active' = Active
    BY <2>1, <2>2 DEF Active
  <2>8. QED
    BY <2>2, <2>6, <2>7
<1>2. CASE DrainEnd(t)
  <2>1. /\ t \in Delivering /\ Delivering' = {} /\ i[t] = n[t] /\ i[t] \in Nat
        /\ UNCHANGED <<buf, front, count, delivered>>
    BY <1>2 DEF DrainEnd, DrainStep, Delivering, OneDrain, DispatchTypeOK, boxVars
  <2>2. Active = SubSeq(buf[1 - front], i[t] + 1, n[t])
    BY <2>1, ActiveIs
  <2>3. Active = <<>>
    BY <2>1, <2>2, SubSeqEmpty
  <2>4. Active' = <<>>
    BY <2>1 DEF Active
  <2>5. QED
    BY <2>1, <2>3, <2>4 DEF Pending
<1>3. CASE ~PostGrow(t) /\ ~DrainEnd(t)
  <2>1. UNCHANGED <<buf, front, count, n, i, delivered>>
    BY <1>3 DEF PostCall, Post, Drain, FreeBox, PostLock, PostBusy, PostGrowFails, PostUnlock, PostEnd,
         DrainClaim, DrainLock, DrainBusy, DrainUnlock, DrainUnlocked, Invoked, boxVars, drainVars
  <2>2. Delivering' = Delivering
    BY <1>3 DEF PostCall, Post, Drain, FreeBox, PostLock, PostBusy, PostGrowFails, PostUnlock, PostEnd,
         DrainClaim, DrainLock, DrainBusy, DrainUnlock, DrainUnlocked, Invoked, boxVars, drainVars,
         DrainStep, DispatchTypeOK, Delivering
  <2>3. QED
    BY <2>1, <2>2 DEF Pending, Active
<1>4. QED
  BY <1>1, <1>2, <1>3

\* The mailbox implements Mailbox: whatever is posted is delivered once and in order,
\* and a drain delivers what was pending when it exchanged the buffers, for every
\* set of threads and every capacity.
THEOREM MailboxImplements == DispatchSpec => ImplementsMailbox
<1>1. DispatchInit => AbstractMailbox!Init
  <2> SUFFICES ASSUME DispatchInit PROVE AbstractMailbox!Init
    OBVIOUS
  <2>1. Pending = <<>>
    <3>1. Pending = SubSeq(<<>>, 1, 0)
      BY DEF DispatchInit, Pending
    <3>2. QED
      BY <3>1, SubSeqEmpty
  <2>2. Active = <<>>
    BY DEF DispatchInit, Active, Delivering
  <2>3. QED
    BY <2>1, <2>2 DEF DispatchInit, AbstractMailbox!Init
<1>2. DispatchInv /\ DispatchInv' /\ [DispatchNext]_dispatchVars
        => [AbstractMailbox!Next]_<<Pending, Active, delivered>>
  <2> SUFFICES ASSUME DispatchInv, DispatchInv', [DispatchNext]_dispatchVars
               PROVE  [AbstractMailbox!Next]_<<Pending, Active, delivered>>
    OBVIOUS
  <2>1. CoreInv /\ CoreInv' /\ ItemsApart
    BY DEF DispatchInv, CoreInv, HasItem, ItemsApart
  <2>2. CASE UNCHANGED dispatchVars
    <3>1. Delivering' = Delivering
      BY <2>2 DEF dispatchVars, Delivering
    <3>2. QED
      BY <2>2, <3>1 DEF dispatchVars, Pending, Active
  <2>3. ASSUME NEW t \in Users, PostCall(t) \/ Post(t) \/ Drain(t) \/ FreeBox(t)
        PROVE  [AbstractMailbox!Next]_<<Pending, Active, delivered>>
    <3>1. CASE PostWrite(t)
      BY <2>1, <3>1, WriteIsPost DEF AbstractMailbox!Next
    <3>2. CASE Swap(t)
      BY <2>1, <3>2, SwapIsTake DEF AbstractMailbox!Next
    <3>3. CASE Invoke(t)
      BY <2>1, <3>3, InvokeIsDeliver DEF AbstractMailbox!Next
    <3>4. CASE ~PostWrite(t) /\ ~Swap(t) /\ ~Invoke(t)
      BY <2>1, <2>3, <3>4, OtherwiseStutters
    <3>5. QED
      BY <3>1, <3>2, <3>3, <3>4
  <2>4. QED
    BY <2>2, <2>3 DEF DispatchNext
<1>3. QED
  BY <1>1, <1>2, MailboxInvariant, PTL DEF DispatchSpec, ImplementsMailbox, AbstractMailbox!Spec

-----------------------------------------------------------------------------
(* Registry: the thread registry of atomic/registry.c                       *)

\* A probe starts at a slot and goes on to a slot.
LEMMA SlotRange ==
  /\ \A t \in Tids : Home(t) \in Slots
  /\ \A s \in Slots : (s + 1) % TableSize = IF s + 1 = TableSize THEN 0 ELSE s + 1
<1>1. TableSize \in Nat /\ TableSize > 0 /\ \A t \in Tids : t \in Nat
  BY RegistryAssumption
<1>2. ASSUME NEW t \in Tids
      PROVE  t % TableSize \in 0 .. TableSize - 1
  BY <1>1, t \in Nat
<1>3. \A s \in Slots : s + 1 # TableSize => s + 1 \in 0 .. TableSize - 1
  BY <1>1 DEF Slots
<1>4. \A s \in 0 .. TableSize - 1 : s % TableSize = s
  BY <1>1
<1>5. TableSize % TableSize = 0
  BY <1>1
<1>6. QED
  BY <1>1, <1>2, <1>3, <1>4, <1>5 DEF Slots, Home

\* What stands before a slot: nothing before the first, the slot left behind when a
\* probe goes on; and of two slots one stands before the other.
LEMMA Path ==
  ASSUME NEW t \in Tids
  PROVE  /\ Before(t, Home(t)) = {}
         /\ \A s \in Slots : Before(t, s) \subseteq Slots /\ s \notin Before(t, s)
         /\ \A s \in Slots : Before(t, (s + 1) % TableSize) \subseteq Before(t, s) \union {s}
         /\ \A s, r \in Slots : s # r => r \in Before(t, s) \/ s \in Before(t, r)
<1>1. Home(t) \in Slots /\ TableSize \in Nat /\ TableSize > 0
  BY SlotRange, RegistryAssumption
<1>2. Before(t, Home(t)) = {}
  BY <1>1 DEF Before, Slots
<1>3. \A s \in Slots : Before(t, s) \subseteq Slots /\ s \notin Before(t, s)
  BY <1>1 DEF Before, Slots
<1>4. ASSUME NEW s \in Slots
      PROVE  Before(t, (s + 1) % TableSize) \subseteq Before(t, s) \union {s}
  <2>1. CASE s + 1 = TableSize
    <3>1. (s + 1) % TableSize = 0
      BY <2>1, SlotRange
    <3>2. Before(t, 0) \subseteq Before(t, s) \union {s}
      BY <1>1, <2>1 DEF Before, Slots
    <3>3. QED
      BY <3>1, <3>2
  <2>2. CASE s + 1 # TableSize
    <3>1. (s + 1) % TableSize = s + 1
      BY <2>2, SlotRange
    <3>2. Before(t, s + 1) \subseteq Before(t, s) \union {s}
      BY <1>1, <2>2 DEF Before, Slots
    <3>3. QED
      BY <3>1, <3>2
  <2>3. QED
    BY <2>1, <2>2
<1>5. \A s, r \in Slots : s # r => r \in Before(t, s) \/ s \in Before(t, r)
  BY <1>1 DEF Before, Slots
<1>6. QED
  BY <1>2, <1>3, <1>4, <1>5

\* An id stands in one slot.
LEMMA OneSlotEach ==
  ASSUME RegistryTypeOK, ProbesComeAcross, NEW t \in Tids, NEW s \in Slots, NEW r \in Slots,
         table[s] = t, table[r] = t
  PROVE  s = r
BY Path DEF ProbesComeAcross

\* A new table is empty and nobody is in a call.
LEMMA RegistryStart == RegistryInit => RegistryInv
<1> SUFFICES ASSUME RegistryInit PROVE RegistryInv
  OBVIOUS
<1> USE DEF RegistryInit
<1>1. \A t \in Tids : t # 0
  BY RegistryAssumption
<1>2. RegistryTypeOK
  BY DEF RegistryTypeOK
<1>3. ProbesComeAcross /\ RolesHaveSlots /\ SlotsAreOwned
  BY <1>1 DEF ProbesComeAcross, RolesHaveSlots, SlotsAreOwned
<1>4. QED
  BY <1>2, <1>3 DEF RegistryInv

\* A step that looks at a slot, and changes no slot.
LEMMA LookKeeps ==
  ASSUME RegistryInv, NEW t \in Tids, Look(t) \/ Probe(t)
  PROVE  RegistryInv'
<1> USE DEF RegistryInv, Answer, NextSlot
<1>1. UNCHANGED <<table, roles, plays>> /\ OutOfCall \notin Slots
  BY DEF Look, Probe, OutOfCall, Slots
<1>2. at[t] # OutOfCall => at[t] \in Slots /\ (at[t] + 1) % TableSize \in Slots
  <2>1. at[t] # OutOfCall => at[t] \in Slots
    BY DEF RegistryTypeOK
  <2>2. \A s \in Slots : (s + 1) % TableSize \in Slots
    BY SlotRange, RegistryAssumption DEF Slots
  <2>3. QED
    BY <2>1, <2>2
<1>3. RegistryTypeOK'
  BY <1>1, <1>2, SlotRange DEF Look, Probe, RegistryTypeOK, Home
<1>4. \A u \in Tids \ {t} : at'[u] = at[u] /\ owns'[u] = owns[u] /\ (u \in claiming' <=> u \in claiming)
  BY DEF Look, Probe, RegistryTypeOK
<1>5. at'[t] # OutOfCall => \A r \in Before(t, at'[t]) : table[r] \notin {0, t}
  <2>1. CASE Look(t)
    <3>1. at'[t] = Home(t)
      BY <2>1 DEF Look, RegistryTypeOK, Home
    <3>2. QED
      BY <3>1, Path
  <2>2. CASE Probe(t) /\ at'[t] = at[t]
    BY <2>2 DEF Probe, ProbesComeAcross
  <2>3. CASE Probe(t) /\ at'[t] # at[t] /\ at'[t] # OutOfCall
    <3>1. at[t] # OutOfCall /\ table[at[t]] \notin {0, t} /\ at'[t] = (at[t] + 1) % TableSize
      BY <2>3 DEF Probe, RegistryTypeOK
    <3>2. Before(t, at'[t]) \subseteq Before(t, at[t]) \union {at[t]}
      BY <1>2, <3>1, Path
    <3>3. QED
      BY <3>1, <3>2 DEF ProbesComeAcross
  <2>4. QED
    BY <2>1, <2>2, <2>3
<1>6. t \in claiming' => at'[t] # OutOfCall /\ \A s \in Slots : table[s] # t
  <2> SUFFICES ASSUME t \in claiming' PROVE at'[t] # OutOfCall /\ \A s \in Slots : table[s] # t
    OBVIOUS
  <2>1. at[t] # OutOfCall
    BY DEF Look, Probe, ProbesComeAcross
  <2>2. Probe(t) /\ table[at[t]] = 0 /\ at'[t] = at[t]
    BY <2>1 DEF Look, Probe, ProbesComeAcross
  <2>3. ASSUME NEW s \in Slots, table[s] = t PROVE FALSE
    <3>1. t # 0 /\ s # at[t] /\ at[t] \in Slots
      BY <1>2, <2>1, <2>2, <2>3, RegistryAssumption
    <3>2. at[t] \in Before(t, s) \/ s \in Before(t, at[t])
      BY <3>1, Path
    <3>3. QED
      BY <2>1, <2>2, <2>3, <3>2 DEF ProbesComeAcross
  <2>4. QED
    BY <2>1, <2>2, <2>3
<1>7. ProbesComeAcross'
  <2> SUFFICES ASSUME NEW u \in Tids
               PROVE  /\ \A s \in Slots : table[s] = u => \A r \in Before(u, s) : table[r] \notin {0, u}
                      /\ at'[u] # OutOfCall => \A r \in Before(u, at'[u]) : table[r] \notin {0, u}
                      /\ u \in claiming' => at'[u] # OutOfCall /\ \A s \in Slots : table[s] # u
    BY <1>1 DEF ProbesComeAcross, Before, Home
  <2>1. CASE u = t
    BY <1>5, <1>6, <2>1 DEF ProbesComeAcross
  <2>2. CASE u # t
    BY <1>4, <2>2 DEF ProbesComeAcross
  <2>3. QED
    BY <2>1, <2>2
<1>8. owns'[t] = owns[t] \/ (table[at[t]] = t /\ at[t] \in Slots /\ owns'[t] = at[t])
  BY <1>2 DEF Look, Probe, RegistryTypeOK
<1>9. owns[t] # OutOfCall => owns'[t] = owns[t]
  BY <1>8, OneSlotEach DEF SlotsAreOwned, RegistryTypeOK
<1>10. RolesHaveSlots'
  BY <1>1, <1>4, <1>9 DEF RolesHaveSlots
<1>11. SlotsAreOwned'
  BY <1>1, <1>4, <1>8, <1>9 DEF SlotsAreOwned, RolesHaveSlots
<1>12. QED
  BY <1>3, <1>7, <1>10, <1>11

\* The compare-and-swap on the slot that was found empty.
LEMMA ClaimKeeps ==
  ASSUME RegistryInv, NEW t \in Tids, Claim(t)
  PROVE  RegistryInv'
<1> USE DEF RegistryInv, Answer, NextSlot
<1>1. /\ t \in claiming /\ at[t] \in Slots /\ at[t] # OutOfCall /\ t # 0
      /\ \A s \in Slots : table[s] # t
      /\ UNCHANGED <<roles, plays>> /\ OutOfCall \notin Slots
  BY RegistryAssumption DEF Claim, ProbesComeAcross, RegistryTypeOK, OutOfCall, Slots
<1>2. owns[t] = OutOfCall /\ plays[t] = 0
  BY <1>1 DEF SlotsAreOwned, RolesHaveSlots, RegistryTypeOK
<1>3. \A u \in Tids \ {t} : at'[u] = at[u] /\ owns'[u] = owns[u] /\ (u \in claiming' <=> u \in claiming)
  BY DEF Claim, RegistryTypeOK
<1>4. t \notin claiming'
  BY DEF Claim
<1>5. CASE table[at[t]] = 0
  <2>1. /\ table' = [table EXCEPT ![at[t]] = t]
        /\ at'[t] = OutOfCall /\ owns'[t] = at[t]
    BY <1>5 DEF Claim, RegistryTypeOK
  <2>2. RegistryTypeOK'
    BY <1>1, <1>5 DEF Claim, RegistryTypeOK
  <2>3. ProbesComeAcross'
    <3> SUFFICES ASSUME NEW u \in Tids
                 PROVE  /\ \A s \in Slots : table'[s] = u => \A r \in Before(u, s) : table'[r] \notin {0, u}
                        /\ at'[u] # OutOfCall => \A r \in Before(u, at'[u]) : table'[r] \notin {0, u}
                        /\ u \in claiming' => at'[u] # OutOfCall /\ \A s \in Slots : table'[s] # u
      BY DEF ProbesComeAcross, Before, Home
    <3>1. \A s \in Slots : Before(u, s) \subseteq Slots
      BY Path
    <3>2. CASE u = t
      <4>1. \A s \in Slots : table'[s] = t => s = at[t]
        BY <1>1, <2>1 DEF RegistryTypeOK
      <4>2. \A r \in Before(t, at[t]) : r \in Slots /\ r # at[t] /\ table[r] \notin {0, t}
        BY <1>1, Path DEF ProbesComeAcross
      <4>3. QED
        BY <1>1, <1>4, <2>1, <3>2, <4>1, <4>2 DEF RegistryTypeOK
    <3>3. CASE u # t
      <4>1. \A r \in Slots : table[r] \notin {0, u} => table'[r] \notin {0, u}
        BY <1>1, <2>1, <3>3 DEF RegistryTypeOK
      <4>2. \A s \in Slots : table'[s] = u => table[s] = u
        BY <1>1, <2>1, <3>3 DEF RegistryTypeOK
      <4>3. at[u] \in Slots \union {OutOfCall}
        BY DEF RegistryTypeOK
      <4>4. QED
        BY <1>3, <3>1, <3>3, <4>1, <4>2, <4>3 DEF ProbesComeAcross
    <3>4. QED
      BY <3>2, <3>3
  <2>4. RolesHaveSlots'
    BY <1>1, <1>2, <1>3 DEF RolesHaveSlots
  <2>5. \A s, r \in Slots : \A u \in Tids : table'[s] = u /\ table'[r] = u => s = r
    <3>1. \A u \in Tids : \A s \in Slots : table'[s] = u => \A r \in Before(u, s) : table'[r] # u
      BY <2>3 DEF ProbesComeAcross, Before, Home
    <3>2. QED
      BY <3>1, Path
  <2>6. SlotsAreOwned'
    <3>1. table'[owns'[t]] = t /\ plays'[t] = 0
      BY <1>1, <1>2, <2>1 DEF RegistryTypeOK
    <3>2. \A u \in Tids \ {t} : owns[u] # OutOfCall => owns[u] \in Slots /\ owns[u] # at[t]
      BY <1>5, RegistryAssumption DEF SlotsAreOwned, RegistryTypeOK
    <3>3. \A u \in Tids \ {t} : owns'[u] # OutOfCall => table'[owns'[u]] = u
      BY <1>3, <2>1, <3>2 DEF SlotsAreOwned, RegistryTypeOK
    <3>4. \A u \in Tids \ {t} : plays'[u] # 0 => roles'[owns'[u]] = plays'[u]
      BY <1>1, <1>3 DEF SlotsAreOwned
    <3>5. QED
      BY <2>5, <3>1, <3>3, <3>4 DEF SlotsAreOwned
  <2>7. QED
    BY <2>2, <2>3, <2>4, <2>6
<1>6. CASE table[at[t]] # 0
  <2>1. UNCHANGED <<table, owns>> /\ at' = [at EXCEPT ![t] = (@ + 1) % TableSize]
    BY <1>6 DEF Claim
  <2>2. (at[t] + 1) % TableSize \in Slots
    BY <1>1, SlotRange, RegistryAssumption DEF Slots
  <2>3. RegistryTypeOK'
    BY <1>1, <2>1, <2>2 DEF Claim, RegistryTypeOK
  <2>4. \A r \in Before(t, at'[t]) : table[r] \notin {0, t}
    <3>1. at'[t] = (at[t] + 1) % TableSize
      BY <2>1 DEF RegistryTypeOK
    <3>2. Before(t, at'[t]) \subseteq Before(t, at[t]) \union {at[t]}
      BY <1>1, <3>1, Path
    <3>3. QED
      BY <1>1, <1>6, <3>2 DEF ProbesComeAcross
  <2>5. ProbesComeAcross'
    <3> SUFFICES ASSUME NEW u \in Tids
                 PROVE  /\ \A s \in Slots : table[s] = u => \A r \in Before(u, s) : table[r] \notin {0, u}
                        /\ at'[u] # OutOfCall => \A r \in Before(u, at'[u]) : table[r] \notin {0, u}
                        /\ u \in claiming' => at'[u] # OutOfCall /\ \A s \in Slots : table[s] # u
      BY <2>1 DEF ProbesComeAcross, Before, Home
    <3>1. CASE u = t
      BY <1>4, <2>4, <3>1 DEF ProbesComeAcross
    <3>2. CASE u # t
      BY <1>3, <3>2 DEF ProbesComeAcross
    <3>3. QED
      BY <3>1, <3>2
  <2>6. RolesHaveSlots' /\ SlotsAreOwned'
    BY <1>1, <2>1 DEF RolesHaveSlots, SlotsAreOwned
  <2>7. QED
    BY <2>3, <2>5, <2>6
<1>7. QED
  BY <1>5, <1>6

\* A role set on the slot that the thread owns, and a thread that ends.
LEMMA RoleKeeps ==
  ASSUME RegistryInv, NEW t \in Tids, SetRole(t) \/ Succeed(t)
  PROVE  RegistryInv'
<1> USE DEF RegistryInv
<1>1. UNCHANGED <<table, at, claiming>> /\ owns[t] # OutOfCall
  BY DEF SetRole, Succeed
<1>2. RegistryTypeOK'
  BY DEF SetRole, Succeed, RegistryTypeOK
<1>3. ProbesComeAcross'
  BY <1>1 DEF ProbesComeAcross, Before, Home
<1>4. CASE SetRole(t)
  <2>1. PICK role \in Roles : roles' = [roles EXCEPT ![owns[t]] = role] /\ plays' = [plays EXCEPT ![t] = role]
    BY <1>4 DEF SetRole
  <2>2. owns' = owns /\ owns[t] \in Slots /\ table[owns[t]] = t
    BY <1>1, <1>4 DEF SetRole, SlotsAreOwned, RegistryTypeOK
  <2>3. \A u \in Tids \ {t} : plays'[u] = plays[u] /\ (owns[u] # OutOfCall => owns[u] # owns[t])
    BY <2>1, <2>2 DEF SlotsAreOwned, RegistryTypeOK
  <2>4. RolesHaveSlots'
    BY <1>1, <2>2, <2>3 DEF RolesHaveSlots
  <2>5. \A u \in Tids : plays'[u] # 0 => roles'[owns[u]] = plays'[u]
    <3>1. roles'[owns[t]] = role /\ plays'[t] = role
      BY <2>1, <2>2 DEF RegistryTypeOK
    <3>2. \A u \in Tids \ {t} : plays[u] # 0 => owns[u] \in Slots /\ owns[u] # owns[t]
      BY <2>3 DEF RolesHaveSlots, RegistryTypeOK
    <3>3. \A u \in Tids \ {t} : plays[u] # 0 => roles'[owns[u]] = roles[owns[u]]
      BY <2>1, <2>2, <3>2 DEF RegistryTypeOK
    <3>4. QED
      BY <2>3, <3>1, <3>3 DEF SlotsAreOwned
  <2>6. SlotsAreOwned'
    BY <1>1, <2>2, <2>5 DEF SlotsAreOwned
  <2>7. QED
    BY <1>2, <1>3, <2>4, <2>6
<1>5. CASE Succeed(t)
  BY <1>1, <1>2, <1>3, <1>5 DEF Succeed, RolesHaveSlots, SlotsAreOwned, RegistryTypeOK
<1>6. QED
  BY <1>4, <1>5

\* A slot belongs to one thread, who finds it and its role there as often as it asks,
\* however many ids collide and come and go.  ThreadRegistry_index, ThreadRegistry_setRole.
THEOREM SlotsStayOwned == RegistrySpec => []SlotsAreOwned
<1>1. RegistryInv /\ [RegistryNext]_registryVars => RegistryInv'
  <2> SUFFICES ASSUME RegistryInv, [RegistryNext]_registryVars PROVE RegistryInv'
    OBVIOUS
  <2>1. CASE UNCHANGED registryVars
    BY <2>1 DEF registryVars, RegistryInv, RegistryTypeOK, ProbesComeAcross, RolesHaveSlots,
                SlotsAreOwned, Before, Home
  <2>2. QED
    BY <2>1, LookKeeps, ClaimKeeps, RoleKeeps DEF RegistryNext, FindSlot
<1>2. RegistryInv => SlotsAreOwned
  BY DEF RegistryInv
<1>3. QED
  BY <1>1, <1>2, RegistryStart, PTL DEF RegistrySpec
=============================================================================
