------------------------------ MODULE Dispatch ------------------------------
(***************************************************************************)
(* deferred/dispatch.c: the mailbox through which a thread hands work to   *)
(* another one.  Both operations take the lock with a single try and give  *)
(* up when it is held.  A post appends to the buffer `items`, grown by     *)
(* doubling; a drain, which the flag `draining` admits one at a time,      *)
(* exchanges it with the reusable buffer `batch` and delivers what it took *)
(* outside the lock.  A handler may itself post, drain or free.            *)
(*                                                                         *)
(* The lock is atomic/spin.c's (SpinLock).  The two allocations are the    *)
(* buffers 0 and 1, which only the exchange tells apart.                   *)
(***************************************************************************)
EXTENDS Naturals, Sequences

CONSTANTS
  Users,        \* the threads that use the mailbox
  UserTid,      \* their thread ids
  UserMod,      \* the thread ids a ticket can tell apart
  Posters,      \* the threads that post outside a handler
  Drainers,     \* the threads that drain
  MaxPosts,     \* bound: the posts begun
  InitialCap,   \* the first capacity of a buffer: 8 in the code
  MaxCap,       \* the capacity that SIZE_MAX allows
  Vacant        \* what an unused slot holds

ASSUME DispatchAssumption ==
  /\ Posters \subseteq Users
  /\ Drainers \subseteq Users
  /\ UserTid \in [Users -> Nat]
  /\ UserMod \in Nat \ {0}
  /\ MaxPosts \in Nat
  /\ InitialCap \in Nat \ {0}
  /\ MaxCap \in Nat
  /\ Vacant \notin 1 .. MaxPosts

\* An item is known by the number of the post that was given it.
Jobs == 1 .. MaxPosts

VARIABLES
  boxWord, boxLk, \* Dispatch.lock, and where each thread is in its functions
  buf,            \* the two buffers' slots
  front,          \* items is buf[front], batch is buf[1 - front]
  count,          \* Dispatch.count
  pendingCount, drainedCount,
  draining,       \* Dispatch.draining
  released,          \* the mailbox is released
  pp, item,       \* where each thread is in Dispatch_post, and with what
  pd, n, i,       \* where each thread is in Dispatch_drain, and its locals
  posts,          \* the posts begun
  granted, refused,   \* auxiliary: the posts that returned true, and false
  delivered       \* auxiliary: the items whose handler was invoked, in order

Box == INSTANCE SpinLock WITH Threads <- Users, Tid <- UserTid, IdMod <- UserMod, Strays <- {},
                              word <- boxWord, lk <- boxLk

boxVars == <<buf, front, count, pendingCount, released>>
postVars == <<pp, item, posts, granted, refused>>
drainVars == <<pd, n, i, draining, drainedCount, delivered>>
dispatchVars == <<boxWord, boxLk, buf, front, count, pendingCount, drainedCount, draining,
          released, pp, item, pd, n, i, posts, granted, refused, delivered>>

\* Dispatch_0
DispatchInit ==
  /\ Box!LockInit
  /\ buf = [k \in {0, 1} |-> <<>>]
  /\ front = 0
  /\ count = 0
  /\ pendingCount = 0 /\ drainedCount = 0
  /\ draining = FALSE
  /\ released = FALSE
  /\ pp = [t \in Users |-> "idle"]
  /\ item = [t \in Users |-> Vacant]
  /\ pd = [t \in Users |-> "idle"]
  /\ n = [t \in Users |-> 0]
  /\ i = [t \in Users |-> 0]
  /\ posts = 0
  /\ granted = {} /\ refused = {}
  /\ delivered = <<>>

-----------------------------------------------------------------------------
(* Dispatch_post, from a poster or from a handler.                          *)

PostStep(t, from, to) ==
  /\ pp[t] = from
  /\ pp' = [pp EXCEPT ![t] = to]

PostCall(t) ==
  /\ \/ t \in Posters /\ pd[t] = "idle"
     \/ pd[t] = "handler"
  /\ ~released /\ posts < MaxPosts
  /\ PostStep(t, "idle", "try")
  /\ posts' = posts + 1
  /\ item' = [item EXCEPT ![t] = posts + 1]
  /\ UNCHANGED <<granted, refused>>
  /\ UNCHANGED <<boxWord, boxLk, boxVars, drainVars>>

\* The post returns.
PostReturns(t, from, answer) ==
  /\ PostStep(t, from, "idle")
  /\ item' = [item EXCEPT ![t] = Vacant]
  /\ granted' = IF answer THEN granted \cup {item[t]} ELSE granted
  /\ refused' = IF answer THEN refused ELSE refused \cup {item[t]}
  /\ UNCHANGED posts

\* The single try succeeds.
PostLock(t) ==
  /\ PostStep(t, "try", IF count = Len(buf[front]) THEN "grow" ELSE "write")
  /\ Box!TryLock(t)
  /\ UNCHANGED <<item, posts, granted, refused>>
  /\ UNCHANGED <<boxVars, drainVars>>

\* The lock is held: the post returns false.
PostBusy(t) ==
  /\ boxWord # 0
  /\ PostReturns(t, "try", FALSE)
  /\ UNCHANGED <<boxWord, boxLk, boxVars, drainVars>>

Doubled(cap) == IF cap = 0 THEN InitialCap ELSE cap * 2

PostGrow(t) ==
  LET cap == Len(buf[front]) IN
  /\ Doubled(cap) <= MaxCap
  /\ PostStep(t, "grow", "write")
  /\ buf' = [buf EXCEPT ![front] =
       [s \in 1 .. Doubled(cap) |-> IF s <= cap THEN @[s] ELSE Vacant]]
  /\ UNCHANGED <<front, count, pendingCount, released, item, posts, granted, refused>>
  /\ UNCHANGED <<boxWord, boxLk, drainVars>>

\* The capacity would overflow, or realloc fails: unlock and return false.
PostGrowFails(t) ==
  /\ PostStep(t, "grow", "fail")
  /\ UNCHANGED <<item, posts, granted, refused>>
  /\ UNCHANGED <<boxWord, boxLk, boxVars, drainVars>>

PostWrite(t) ==
  /\ PostStep(t, "write", "done")
  /\ buf' = [buf EXCEPT ![front][count + 1] = item[t]]
  /\ count' = count + 1
  /\ pendingCount' = count + 1
  /\ UNCHANGED <<front, released, item, posts, granted, refused>>
  /\ UNCHANGED <<boxWord, boxLk, drainVars>>

\* Unlock, which loads the word and then stores it, and return the answer.
PostUnlock(t) ==
  /\ pp[t] \in {"fail", "done"}
  /\ Box!UnlockLoad(t)
  /\ UNCHANGED <<boxVars, postVars, drainVars>>

\* A variant for checking: a post that could not grow the buffer returns true.
PostEndTrue(t) ==
  /\ Box!UnlockStore(t)
  /\ PostReturns(t, "done", TRUE) \/ PostReturns(t, "fail", TRUE)
  /\ UNCHANGED <<boxVars, drainVars>>

PostEnd(t) ==
  /\ Box!UnlockStore(t)
  /\ PostReturns(t, "done", TRUE) \/ PostReturns(t, "fail", FALSE)
  /\ UNCHANGED <<boxVars, drainVars>>

Post(t) ==
  \/ PostLock(t) \/ PostBusy(t) \/ PostGrow(t) \/ PostGrowFails(t)
  \/ PostWrite(t) \/ PostUnlock(t) \/ PostEnd(t)

-----------------------------------------------------------------------------
(* Dispatch_drain.  A handler that posts is waited for.                     *)

DrainStep(t, from, to) ==
  /\ pd[t] = from
  /\ pp[t] = "idle"
  /\ pd' = [pd EXCEPT ![t] = to]
  /\ UNCHANGED postVars

\* A variant for checking: a drain does not find another one under way.
DrainClaimUnguarded(t) ==
  /\ t \in Drainers /\ ~released
  /\ DrainStep(t, "idle", "try")
  /\ draining' = TRUE
  /\ UNCHANGED <<n, i, drainedCount, delivered>>
  /\ UNCHANGED <<boxWord, boxLk, boxVars>>

\* The compare-and-swap of draining.  When another drain is under way, a nested
\* call from a handler included, it fails and the drain returns false.
DrainClaim(t) ==
  /\ t \in Drainers /\ ~released
  /\ ~draining
  /\ DrainStep(t, "idle", "try")
  /\ draining' = TRUE
  /\ UNCHANGED <<n, i, drainedCount, delivered>>
  /\ UNCHANGED <<boxWord, boxLk, boxVars>>

DrainLock(t) ==
  /\ DrainStep(t, "try", "swap")
  /\ Box!TryLock(t)
  /\ UNCHANGED <<n, i, draining, drainedCount, delivered>>
  /\ UNCHANGED boxVars

\* A variant for checking: the drain that gives up leaves the flag set.
DrainBusyKeepsFlag(t) ==
  /\ DrainStep(t, "try", "idle")
  /\ boxWord # 0
  /\ UNCHANGED <<draining, n, i, drainedCount, delivered>>
  /\ UNCHANGED <<boxWord, boxLk, boxVars>>

\* The lock is held: clear the flag and return false.
DrainBusy(t) ==
  /\ DrainStep(t, "try", "idle")
  /\ boxWord # 0
  /\ draining' = FALSE
  /\ UNCHANGED <<n, i, drainedCount, delivered>>
  /\ UNCHANGED <<boxWord, boxLk, boxVars>>

\* Exchange the buffers, unless nothing is pending.
Swap(t) ==
  /\ DrainStep(t, "swap", "unlock")
  /\ n' = [n EXCEPT ![t] = count]
  /\ i' = [i EXCEPT ![t] = 0]
  /\ front' = IF count # 0 THEN 1 - front ELSE front
  /\ count' = 0
  /\ pendingCount' = 0
  /\ UNCHANGED <<buf, released, draining, drainedCount, delivered>>
  /\ UNCHANGED <<boxWord, boxLk>>

DrainUnlock(t) ==
  /\ pd[t] = "unlock"
  /\ Box!UnlockLoad(t)
  /\ UNCHANGED <<boxVars, postVars, drainVars>>

DrainUnlocked(t) ==
  /\ DrainStep(t, "unlock", "loop")
  /\ Box!UnlockStore(t)
  /\ UNCHANGED <<n, i, draining, drainedCount, delivered>>
  /\ UNCHANGED boxVars

\* The handler of the next item is invoked; i counts the ones invoked.
Invoke(t) ==
  /\ DrainStep(t, "loop", "handler")
  /\ i[t] < n[t]
  /\ delivered' = Append(delivered, buf[1 - front][i[t] + 1])
  /\ i' = [i EXCEPT ![t] = @ + 1]
  /\ UNCHANGED <<n, draining, drainedCount>>
  /\ UNCHANGED <<boxWord, boxLk, boxVars>>

\* It returns.
Invoked(t) ==
  /\ DrainStep(t, "handler", "loop")
  /\ drainedCount' = drainedCount + 1
  /\ UNCHANGED <<n, i, draining, delivered>>
  /\ UNCHANGED <<boxWord, boxLk, boxVars>>

DrainEnd(t) ==
  /\ DrainStep(t, "loop", "idle")
  /\ i[t] = n[t]
  /\ draining' = FALSE
  /\ UNCHANGED <<n, i, drainedCount, delivered>>
  /\ UNCHANGED <<boxWord, boxLk, boxVars>>

Drain(t) ==
  \/ DrainClaim(t) \/ DrainLock(t) \/ DrainBusy(t) \/ Swap(t)
  \/ DrainUnlock(t) \/ DrainUnlocked(t)
  \/ Invoke(t) \/ Invoked(t) \/ DrainEnd(t)

\* Dispatch_free, with the other callers excluded as its header asks, but
\* perhaps from a handler: it is refused while a drain is under way.
FreeBox(t) ==
  /\ ~released
  /\ t \in Drainers /\ pd[t] \in {"idle", "handler"} /\ pp[t] = "idle"
  /\ \A u \in Users \ {t} : pp[u] = "idle" /\ pd[u] = "idle"
  /\ ~draining
  /\ released' = TRUE
  /\ UNCHANGED <<buf, front, count, pendingCount>>
  /\ UNCHANGED <<boxWord, boxLk, postVars, drainVars>>

DispatchNext == \E t \in Users : PostCall(t) \/ Post(t) \/ Drain(t) \/ FreeBox(t)

DispatchSpec == DispatchInit /\ [][DispatchNext]_dispatchVars

\* A thread inside a post goes on, a handler returns, and the consumer drains
\* again and again, as the host does on its own thread; nobody has to post.
DispatchFairness == \A t \in Users : WF_dispatchVars(Post(t)) /\ WF_dispatchVars(Drain(t))

DispatchFairSpec == DispatchSpec /\ DispatchFairness

-----------------------------------------------------------------------------
\* The values the variables take; in particular items are within their buffer.
DispatchTypeOK ==
  /\ Box!LockTypeOK
  /\ buf \in [{0, 1} -> Seq(Jobs \cup {Vacant})]
  /\ \A k \in {0, 1} : Len(buf[k]) <= MaxCap
  /\ front \in {0, 1}
  /\ count \in 0 .. Len(buf[front])
  /\ pendingCount \in Nat /\ drainedCount \in Nat
  /\ draining \in BOOLEAN /\ released \in BOOLEAN
  /\ pp \in [Users -> {"idle", "try", "grow", "write", "fail", "done"}]
  /\ pd \in [Users -> {"idle", "try", "swap", "unlock", "loop", "handler"}]
  /\ item \in [Users -> Jobs \cup {Vacant}]
  /\ n \in [Users -> Nat] /\ i \in [Users -> Nat]
  /\ posts \in 0 .. MaxPosts
  /\ granted \subseteq Jobs /\ refused \subseteq Jobs
  /\ delivered \in Seq(Jobs)

Delivering == {t \in Users : pd[t] \in {"unlock", "loop", "handler"}}

\* What is pending, and what the drain under way still has to deliver.
Pending == SubSeq(buf[front], 1, count)
Active ==
  IF Delivering = {} THEN <<>>
  ELSE LET t == CHOOSE t \in Delivering : TRUE
       IN SubSeq(buf[1 - front], i[t] + 1, n[t])

\* Every post that gets through is delivered exactly once and in order, by one
\* drain at a time, and a drain delivers what was pending when it took the lock:
\* posts made from a handler or by another thread meanwhile neither join the
\* batch nor disturb the slots it is read from.
AbstractMailbox == INSTANCE Mailbox WITH Items <- Jobs, pending <- Pending, active <- Active
ImplementsMailbox == AbstractMailbox!Spec

InMailbox(x) ==
  \E s \in {Pending, Active, delivered} : \E k \in DOMAIN s : s[k] = x

\* The buffers are not released under a post or a drain that goes on to use them.
NoUseAfterFree ==
  released => \A t \in Users : pp[t] = "idle" /\ pd[t] = "idle"

\* A post is answered truly: true when the item is in the mailbox or delivered,
\* false when it is not and never will be, so that the caller keeps it.
AnswersAreTrue ==
  /\ \A x \in granted : InMailbox(x)
  /\ \A x \in refused : ~InMailbox(x)

\* Who is in the lock: the posts and drains between their try and their unlock.
BoxHeld ==
  /\ Box!LockInv
  /\ \A t \in Users : boxLk[t] \in
       IF pp[t] \in {"grow", "write"} \/ pd[t] = "swap" THEN {"in"}
       ELSE IF pp[t] \in {"fail", "done"} \/ pd[t] = "unlock" THEN {"in", "rel"}
       ELSE {"out"}

\* The flag is set while a drain is under way, one drain at a time; a thread in a
\* drain posts from a handler only.
OneDrain ==
  /\ draining <=> \E t \in Users : pd[t] # "idle"
  /\ \A s, t \in Users : pd[s] # "idle" /\ pd[t] # "idle" => s = t
  /\ \A t \in Users : pp[t] # "idle" => pd[t] \in {"idle", "handler"}

\* What is pending and what a drain took are posted items, in separate buffers,
\* a post that writes has room, and the counters that others read are right.
BatchApart ==
  /\ \A t \in Users : /\ pp[t] = "write" => count < Len(buf[front])
                      /\ pp[t] = "grow" => count = Len(buf[front])
  /\ \A k \in 1 .. count : buf[front][k] \in Jobs
  /\ \A t \in Delivering :
       /\ i[t] <= n[t] /\ n[t] <= Len(buf[1 - front])
       /\ \A k \in i[t] + 1 .. n[t] : buf[1 - front][k] \in Jobs
  /\ pendingCount = count
  /\ Len(delivered) = drainedCount + IF \E t \in Users : pd[t] = "handler" THEN 1 ELSE 0

\* The post of a thread is its own: nobody else has its item or knows its answer,
\* and the item is in the mailbox once it is written, not before.
ItemsApart ==
  /\ granted \cup refused \subseteq 1 .. posts
  /\ \A x \in Jobs : InMailbox(x) => x <= posts
  /\ \A s, t \in Users : pp[s] # "idle" /\ pp[t] # "idle" /\ item[s] = item[t] => s = t
  /\ \A t \in Users : pp[t] # "idle" =>
       /\ item[t] \in 1 .. posts
       /\ item[t] \notin granted \cup refused
       /\ InMailbox(item[t]) <=> pp[t] = "done"

\* Buffers that outlive their users, counters within them, and true answers, with
\* the facts that these rest on.
DispatchInv ==
  /\ DispatchTypeOK /\ NoUseAfterFree /\ AnswersAreTrue
  /\ BoxHeld /\ OneDrain /\ BatchApart /\ ItemsApart

Delivered(x) == \E k \in DOMAIN delivered : delivered[k] = x

\* An accepted item is delivered as long as the consumer keeps draining, even
\* though every try of the lock may fail.
AcceptedIsDelivered ==
  \A x \in Jobs : x \in granted ~> Delivered(x) \/ released
=============================================================================
