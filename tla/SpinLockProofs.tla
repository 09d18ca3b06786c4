--------------------------- MODULE SpinLockProofs ---------------------------
(***************************************************************************)
(* SpinLock excludes, for every set of threads: with threads that unlock   *)
(* what they do not own, as long as such a thread shares its ticket with   *)
(* no other.                                                               *)
(***************************************************************************)
EXTENDS SpinLock, TLAPS

\* ticket() never produces 0, the word of a free lock.
LEMMA TicketNonZero ==
  ASSUME NEW t \in Threads
  PROVE  Ticket(t) \in Nat /\ Ticket(t) # 0
<1>1. Tid[t] % IdMod \in Nat
  BY LockAssumption
<1>2. QED
  BY <1>1 DEF Ticket

\* The lock starts free.
LEMMA LockInitInv == LockInit => LockInv
<1> SUFFICES ASSUME LockInit PROVE LockInv
  OBVIOUS
<1>1. LockTypeOK
  BY DEF LockInit, LockTypeOK
<1>2. MutualExclusion /\ WordIsOwner
  BY DEF LockInit, MutualExclusion, WordIsOwner, Owns
<1>3. QED
  BY <1>1, <1>2 DEF LockInv

\* A thread that takes a free word becomes its only owner.  The steps that
\* take the lock differ only in where the thread comes from.
LEMMA TakeInv ==
  ASSUME NEW t \in Threads, LockInv,
         word = 0, word' = Ticket(t), Goto(t, "in")
  PROVE  LockInv'
<1> USE DEF LockInv, LockTypeOK, MutualExclusion, WordIsOwner, Owns, Goto
<1>1. \A s \in Threads : ~Owns(s)
  BY TicketNonZero
<1>2. LockTypeOK'
  OBVIOUS
<1>3. \A s \in Threads : Owns(s)' => s = t
  BY <1>1
<1>4. Owns(t)'
  OBVIOUS
<1>5. (MutualExclusion /\ WordIsOwner)'
  BY <1>3, <1>4
<1>6. QED
  BY <1>2, <1>5

\* A thread that moves without touching the word, and owns the lock after if
\* and only if it did before, disturbs nobody.
LEMMA MoveInv ==
  ASSUME NEW t \in Threads, LockInv,
         NEW to \in {"out", "spin", "timed", "in", "rel"}, Goto(t, to),
         UNCHANGED word, Owns(t)' <=> Owns(t)
  PROVE  LockInv'
<1> USE DEF LockInv, LockTypeOK, MutualExclusion, WordIsOwner, Owns, Goto
<1>1. \A s \in Threads : Owns(s)' <=> Owns(s)
  OBVIOUS
<1>2. LockTypeOK'
  OBVIOUS
<1>3. (MutualExclusion /\ WordIsOwner)'
  BY <1>1
<1>4. QED
  BY <1>2, <1>3

\* Unlocking: only the owner finds its ticket, a stray is turned away.
LEMMA UnlockLoadInv ==
  ASSUME NEW t \in Threads, LockInv, UnlockLoad(t)
  PROVE  LockInv'
<1> USE DEF LockInv, LockTypeOK, WordIsOwner, Owns
<1>1. CASE lk[t] = "in"
  <2>1. word = Ticket(t) /\ word # 0
    BY <1>1, TicketNonZero
  <2>2. Goto(t, "rel") /\ UNCHANGED word
    BY <2>1 DEF UnlockLoad
  <2>3. Owns(t)' /\ Owns(t)
    BY <1>1, <2>2 DEF Goto
  <2>4. QED
    BY <2>2, <2>3, MoveInv
<1>2. CASE lk[t] = "out" /\ t \in Strays
  <2>1. word # 0 => word # Ticket(t)
    BY <1>2, LockAssumption
  <2>2. Goto(t, "out") /\ UNCHANGED word
    BY <2>1 DEF UnlockLoad
  <2>3. ~Owns(t)' /\ ~Owns(t)
    BY <1>2, <2>2 DEF Goto
  <2>4. QED
    BY <2>2, <2>3, MoveInv
<1>3. QED
  BY <1>1, <1>2 DEF UnlockLoad

\* The releasing store leaves the lock free and without an owner.
LEMMA UnlockStoreInv ==
  ASSUME NEW t \in Threads, LockInv, UnlockStore(t)
  PROVE  LockInv'
<1> USE DEF LockInv, LockTypeOK, MutualExclusion, WordIsOwner, Owns, Goto, UnlockStore
<1>1. LockTypeOK'
  OBVIOUS
<1>2. \A s \in Threads : ~Owns(s)'
  OBVIOUS
<1>3. QED
  BY <1>1, <1>2

\* Every step of the lock keeps its invariant.
LEMMA LockStepInv == LockInv /\ [LockNext]_lockVars => LockInv'
<1> SUFFICES ASSUME LockInv, [LockNext]_lockVars PROVE LockInv'
  OBVIOUS
<1>1. ASSUME NEW t \in Threads, Lock(t) \/ TimedLock(t) \/ TimedExpire(t)
      PROVE  LockInv'
  <2> USE DEF LockInv, LockTypeOK, Lock, TimedLock, TimedExpire, Goto
  <2>1. PICK to \in {"out", "spin", "timed"} : Goto(t, to) /\ UNCHANGED word
    BY <1>1
  <2>2. ~Owns(t)' /\ ~Owns(t)
    BY <1>1, <2>1 DEF Owns
  <2>3. QED
    BY <2>1, <2>2, MoveInv
<1>2. ASSUME NEW t \in Threads, Spin(t) \/ TryLock(t) \/ TimedTake(t)
      PROVE  LockInv'
  BY <1>2, TakeInv DEF Spin, TryLock, TimedTake
<1>3. ASSUME NEW t \in Threads, UnlockLoad(t)
      PROVE  LockInv'
  BY <1>3, UnlockLoadInv
<1>4. ASSUME NEW t \in Threads, UnlockStore(t)
      PROVE  LockInv'
  BY <1>4, UnlockStoreInv
<1>5. CASE UNCHANGED lockVars
  BY <1>5 DEF lockVars, LockInv, LockTypeOK, MutualExclusion, WordIsOwner, Owns
<1>6. QED
  BY <1>1, <1>2, <1>3, <1>4, <1>5 DEF LockNext

\* Mutual exclusion of the spin lock, for all its operations together.
THEOREM SpinLockExcludes == LockSpec => []LockInv
<1>1. LockInit => LockInv
  BY LockInitInv
<1>2. LockInv /\ [LockNext]_lockVars => LockInv'
  BY LockStepInv
<1>3. QED
  BY <1>1, <1>2, PTL DEF LockSpec

\* Unlock fails closed (spin.c:130): no step but the owner's frees the word.
THEOREM UnlockFailsClosed == LockSpec => OnlyOwnerFrees
<1> DEFINE Frees ==
      word # 0 /\ word' = 0 => \E t \in Threads : Owns(t) /\ ~Owns(t)'
<1>1. LockInv /\ [LockNext]_lockVars => [Frees]_lockVars
  <2> SUFFICES ASSUME LockInv, LockNext, word # 0, word' = 0
               PROVE  \E t \in Threads : Owns(t) /\ ~Owns(t)'
    OBVIOUS
  <2>1. PICK t \in Threads : UnlockStore(t)
    BY TicketNonZero
    DEF LockNext, Lock, Spin, TryLock, TimedLock, TimedTake, TimedExpire, UnlockLoad
  <2>2. Owns(t) /\ ~Owns(t)'
    BY <2>1 DEF UnlockStore, Owns, Goto, LockInv, LockTypeOK
  <2>3. QED
    BY <2>2
<1>2. QED
  BY <1>1, SpinLockExcludes, PTL DEF LockSpec, OnlyOwnerFrees
=============================================================================
