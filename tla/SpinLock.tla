------------------------------ MODULE SpinLock ------------------------------
(***************************************************************************)
(* atomic/spin.c: a spin lock in one atomic word.  The word is 0 when the  *)
(* lock is free and otherwise the ticket of the thread that took it: the   *)
(* low 30 bits of its pthread_self(), shifted left, with the low bit set.  *)
(*                                                                         *)
(* Each step below is one atomic access of the word.  A failed             *)
(* compare-and-swap changes nothing and is a stuttering step, so the       *)
(* spinning loop is the step that gets through.                            *)
(***************************************************************************)
EXTENDS Naturals

CONSTANTS
  Threads,   \* the threads that use the lock
  Tid,       \* Tid[t] is the value of pthread_self() on thread t
  IdMod,     \* the thread ids a ticket can tell apart: 2^30 in the code
  Strays     \* the threads that may call unlock without owning the lock

\* ticket(): odd, hence never the 0 of a free lock.
Ticket(t) == (Tid[t] % IdMod) * 2 + 1

\* Tickets keep 30 bits of the thread id, so two threads may share one.  That
\* is harmless unless one of them unlocks what it does not own.
ASSUME LockAssumption ==
  /\ IdMod \in Nat \ {0}
  /\ Tid \in [Threads -> Nat]
  /\ Strays \subseteq Threads
  /\ \A s \in Strays, t \in Threads : Ticket(s) = Ticket(t) => s = t

VARIABLES
  word,   \* SpinLock.word
  lk      \* where each thread is in the lock's functions

lockVars == <<word, lk>>

LockInit ==
  /\ word = 0
  /\ lk = [t \in Threads |-> "out"]

Goto(t, to) == lk' = [lk EXCEPT ![t] = to]

\* SpinLock_lock is entered ...
Lock(t) ==
  /\ lk[t] = "out"
  /\ Goto(t, "spin")
  /\ UNCHANGED word

\* ... and its compare-and-swap succeeds.
Spin(t) ==
  /\ lk[t] = "spin"
  /\ word = 0
  /\ word' = Ticket(t)
  /\ Goto(t, "in")

\* SpinLock_tryLock: one compare-and-swap; when it fails nothing changes.
TryLock(t) ==
  /\ lk[t] = "out"
  /\ word = 0
  /\ word' = Ticket(t)
  /\ Goto(t, "in")

\* SpinLock_tryLockTimeout is entered ...
TimedLock(t) ==
  /\ lk[t] = "out"
  /\ Goto(t, "timed")
  /\ UNCHANGED word

\* ... one of its attempts succeeds ...
TimedTake(t) ==
  /\ lk[t] = "timed"
  /\ word = 0
  /\ word' = Ticket(t)
  /\ Goto(t, "in")

\* ... or one fails with the deadline behind it, and the call returns false.
TimedExpire(t) ==
  /\ lk[t] = "timed"
  /\ word # 0
  /\ Goto(t, "out")
  /\ UNCHANGED word

\* SpinLock_unlock reads the word and refuses unless it holds its own ticket.
UnlockLoad(t) ==
  /\ \/ lk[t] = "in"
     \/ lk[t] = "out" /\ t \in Strays
  /\ Goto(t, IF word # 0 /\ word = Ticket(t) THEN "rel" ELSE "out")
  /\ UNCHANGED word

\* The store that frees the lock.
UnlockStore(t) ==
  /\ lk[t] = "rel"
  /\ word' = 0
  /\ Goto(t, "out")

LockNext ==
  \E t \in Threads :
    \/ Lock(t) \/ Spin(t)
    \/ TryLock(t)
    \/ TimedLock(t) \/ TimedTake(t) \/ TimedExpire(t)
    \/ UnlockLoad(t) \/ UnlockStore(t)

LockSpec == LockInit /\ [][LockNext]_lockVars

-----------------------------------------------------------------------------
\* A thread owns the lock from its compare-and-swap to its releasing store.
Owns(t) == lk[t] \in {"in", "rel"}

LockTypeOK ==
  /\ word \in {0} \cup {Ticket(t) : t \in Threads}
  /\ lk \in [Threads -> {"out", "spin", "timed", "in", "rel"}]

\* At most one thread is between a successful lock call and the store of its
\* unlock, whatever the others spin on, give up on or unlock without owning.
MutualExclusion ==
  \A s, t \in Threads : Owns(s) /\ Owns(t) => s = t

\* The word is the ticket of the owner, and 0 when there is none.
WordIsOwner ==
  /\ \A t \in Threads : Owns(t) => word = Ticket(t)
  /\ word # 0 => \E t \in Threads : Owns(t)

LockInv == LockTypeOK /\ MutualExclusion /\ WordIsOwner

\* Fail closed: only the step of a thread that owns the lock frees it.
OnlyOwnerFrees ==
  [][word # 0 /\ word' = 0 => \E t \in Threads : Owns(t) /\ ~Owns(t)']_lockVars
=============================================================================
