--------------------------- MODULE ReactiveThread ---------------------------
(***************************************************************************)
(* thread/reactive.c: the shared worker that drains reactive boxes.  A     *)
(* wake queues a box at most once: under s_lock it looks the box up in the *)
(* set s_queued and adds it, and only the caller that added it submits it  *)
(* to the worker, outside the lock, and takes it out again when the worker *)
(* refuses.  The worker takes a box out of the set before it drains it.    *)
(*                                                                         *)
(* A section under s_lock is one step, and so are a push and a pop of the  *)
(* worker's ring (RingBuffer).  One controller starts the worker, stops    *)
(* and reruns it, and shuts it down.  Stores that race with the shutdown   *)
(* itself are left out: they use the worker while it is being released.    *)
(***************************************************************************)
EXTENDS Reactive, Sequences, FiniteSets

CONSTANTS
  QueueCapacity,   \* the worker's ring: 2048 in the code
  Releasable,      \* the boxes that are adopted and released
  MaxStarts,       \* bound: the starts
  MaxStops         \* bound: the stops that are followed by a rerun

ASSUME ReactiveThreadAssumption ==
  /\ QueueCapacity \in Nat \ {0}
  /\ Releasable \subseteq Boxes
  /\ MaxStarts \in Nat \ {0}
  /\ MaxStops \in Nat

VARIABLES
  default,   \* the process default delivery is deliverToReactiveThread
  bound,     \* each box's delivery: inherit the default, own hook, or none
  live,      \* s_core is not null
  state,     \* Thread.state of the worker
  ring,      \* its queue
  queued,    \* s_queued
  ctl,       \* where the controller is
  starts, stops,
  refused    \* auxiliary: some wake has been refused

threadVars == <<default, bound, live, state, ring, queued, ctl, starts, stops, refused>>
vars == <<value, dirty, shadow, at, target, stores, dpc, dbox, dvalue, dold,
          default, bound, live, state, ring, queued, ctl, starts, stops, refused>>
ctlVars == <<default, live, state, ctl, starts, stops>>

\* Before ReactiveThread_start.
Init ==
  /\ CellInit
  /\ dpc = "none"
  /\ default = FALSE
  /\ bound = [b \in Boxes |-> "inherit"]
  /\ live = FALSE
  /\ state = 0
  /\ ring = <<>>
  /\ queued = {}
  /\ ctl = "idle"
  /\ starts = 0
  /\ stops = 0
  /\ refused = FALSE

-----------------------------------------------------------------------------
(* A store and the wake its hook makes.                                     *)

\* Boot first, store later.
Store(a, b, w) ==
  /\ live
  /\ StoreValue(a, b, w)
  /\ UNCHANGED threadVars

MarkDirty(a) == StoreDirty(a) /\ UNCHANGED threadVars

Delivers(b) == bound[b] = "own" \/ (bound[b] = "inherit" /\ default)

\* The hook of the box, its own or the default, is deliverToReactiveThread ...
Hook(a) ==
  /\ At(a, "hook", "wake")
  /\ Delivers(target[a])
  /\ UNCHANGED <<target, stores>>
  /\ UNCHANGED <<cellVars, drainVars, threadVars>>

\* ... or the box has none.
HookNone(a) ==
  /\ Returns(a, "hook")
  /\ ~Delivers(target[a])
  /\ UNCHANGED <<cellVars, drainVars, threadVars>>

\* A variant for checking: the wake does not ask whether the box is queued.
QueueAgain(a) ==
  /\ At(a, "wake", "submit")
  /\ queued' = queued \cup {target[a]}
  /\ UNCHANGED <<target, stores, bound, ring, refused>>
  /\ UNCHANGED <<cellVars, drainVars, ctlVars>>

\* queueBox under s_lock: the box is not in s_queued and is put there.
Queue(a) ==
  /\ At(a, "wake", "submit")
  /\ target[a] \notin queued
  /\ queued' = queued \cup {target[a]}
  /\ UNCHANGED <<target, stores, bound, ring, refused>>
  /\ UNCHANGED <<cellVars, drainVars, ctlVars>>

\* It is there already: the wake returns true.
AlreadyQueued(a) ==
  /\ Returns(a, "wake")
  /\ target[a] \in queued
  /\ UNCHANGED <<cellVars, drainVars, threadVars>>

\* Thread_submit: the worker is running ...
SubmitCheck(a) ==
  /\ state = 1
  /\ At(a, "submit", "push")
  /\ UNCHANGED <<target, stores>>
  /\ UNCHANGED <<cellVars, drainVars, threadVars>>

\* ... and its ring has room: the wake returns true.
Push(a) ==
  /\ Len(ring) < QueueCapacity
  /\ Returns(a, "push")
  /\ ring' = Append(ring, target[a])
  /\ UNCHANGED <<bound, queued, refused>>
  /\ UNCHANGED <<cellVars, drainVars, ctlVars>>

\* The worker is stopped, or its ring is full.
Refuse(a) ==
  /\ \/ state # 1 /\ At(a, "submit", "rollback")
     \/ Len(ring) = QueueCapacity /\ At(a, "push", "rollback")
  /\ refused' = TRUE
  /\ UNCHANGED <<target, stores, bound, ring, queued>>
  /\ UNCHANGED <<cellVars, drainVars, ctlVars>>

\* A variant for checking: the refused wake leaves its box in s_queued.
RollbackForgotten(a) ==
  /\ Returns(a, "rollback")
  /\ UNCHANGED <<bound, ring, queued, refused>>
  /\ UNCHANGED <<cellVars, drainVars, ctlVars>>

\* Roll back under s_lock, so that a later wake retries.
Rollback(a) ==
  /\ Returns(a, "rollback")
  /\ queued' = queued \ {target[a]}
  /\ UNCHANGED <<bound, ring, refused>>
  /\ UNCHANGED <<cellVars, drainVars, ctlVars>>

Deliver(a) ==
  \/ MarkDirty(a) \/ Hook(a) \/ HookNone(a)
  \/ Queue(a) \/ AlreadyQueued(a)
  \/ SubmitCheck(a) \/ Push(a) \/ Refuse(a) \/ Rollback(a)

-----------------------------------------------------------------------------
(* The worker: platform_main with the job reactive_job.                     *)

WorkerStep(from, to) ==
  /\ dpc = from
  /\ dpc' = to
  /\ UNCHANGED <<storeVars, cellVars, ctlVars, dvalue, dold, bound, refused>>

GoOn == state = 1 /\ WorkerStep("check", "pop") /\ UNCHANGED <<dbox, ring, queued>>

Exit == state # 1 /\ WorkerStep("check", "exit") /\ UNCHANGED <<dbox, ring, queued>>

Pop ==
  /\ ring # <<>>
  /\ WorkerStep("pop", "forget")
  /\ dbox' = Head(ring)
  /\ ring' = Tail(ring)
  /\ UNCHANGED queued

\* The ring is empty: sleep, and look again.
Idle == ring = <<>> /\ WorkerStep("pop", "check") /\ UNCHANGED <<dbox, ring, queued>>

\* A variant for checking: the worker leaves the box in s_queued.
ForgetKeeps == WorkerStep("forget", "exchange") /\ UNCHANGED <<dbox, ring, queued>>

\* The box leaves s_queued before the drain, so that a store made meanwhile
\* queues it for the next pass.
Forget ==
  /\ WorkerStep("forget", "exchange")
  /\ queued' = queued \ {dbox}
  /\ UNCHANGED <<dbox, ring>>

Drain ==
  /\ DrainClean("check") \/ DrainDirty \/ DrainLoad \/ DrainLatch \/ DrainEnd("check")
  /\ UNCHANGED threadVars

Worker == GoOn \/ Exit \/ Pop \/ Idle \/ Forget \/ Drain

-----------------------------------------------------------------------------
(* The controller.                                                          *)

CtlStep(from, to) ==
  /\ ctl = from
  /\ ctl' = to
  /\ UNCHANGED <<storeVars, cellVars, dbox, dvalue, dold, bound, refused>>

\* ReactiveThread_start: a fresh worker, running, and the default bound to it.
Start ==
  /\ CtlStep("idle", "idle")
  /\ ~live /\ starts < MaxStarts
  /\ starts' = starts + 1
  /\ live' = TRUE
  /\ state' = 1
  /\ dpc' = "check"
  /\ ring' = <<>>
  /\ default' = TRUE
  /\ UNCHANGED <<queued, stops>>

\* ReactiveThread_stop of the shared worker: clear the flag and join.
StopWorker ==
  /\ CtlStep("idle", "stop")
  /\ live /\ state = 1 /\ stops < MaxStops
  /\ stops' = stops + 1
  /\ state' = 0
  /\ UNCHANGED <<dpc, default, live, ring, queued, starts>>

StopJoin ==
  /\ CtlStep("stop", "idle")
  /\ dpc = "exit"
  /\ UNCHANGED <<dpc, default, live, state, ring, queued, starts, stops>>

\* Thread_run of it: the ring is as it was left.
Rerun ==
  /\ CtlStep("idle", "idle")
  /\ live /\ state = 0
  /\ state' = 1
  /\ dpc' = "check"
  /\ UNCHANGED <<default, live, ring, queued, starts, stops>>

\* ReactiveThread_shutdown: unbind the default, forget and stop the worker.
Shutdown ==
  /\ CtlStep("idle", "shutdown")
  /\ live
  /\ \A a \in Actors : at[a] = "idle"
  /\ default' = FALSE
  /\ live' = FALSE
  /\ state' = 0
  /\ UNCHANGED <<dpc, ring, queued, starts, stops>>

\* Join it and release it and its ring; s_queued is left as it is.
ShutdownFree ==
  /\ CtlStep("shutdown", "idle")
  /\ dpc = "exit"
  /\ dpc' = "none"
  /\ ring' = <<>>
  /\ UNCHANGED <<default, live, state, queued, starts, stops>>

\* ReactiveThread_adopt, at the box's owner's pleasure.
Adopt(b) ==
  /\ bound[b] # "own"
  /\ bound' = [bound EXCEPT ![b] = "own"]
  /\ UNCHANGED <<storeVars, cellVars, drainVars, ctlVars, ring, queued, refused>>

\* ReactiveThread_release: unbind, and drop the box from s_queued.
Release(b) ==
  /\ bound[b] = "own"
  /\ bound' = [bound EXCEPT ![b] = "none"]
  /\ queued' = queued \ {b}
  /\ UNCHANGED <<storeVars, cellVars, drainVars, ctlVars, ring, refused>>

Controller ==
  \/ Start \/ StopWorker \/ StopJoin \/ Rerun \/ Shutdown \/ ShutdownFree
  \/ \E b \in Releasable : Adopt(b) \/ Release(b)

Next ==
  \/ \E a \in Actors : Deliver(a) \/ \E b \in Boxes, w \in Words : Store(a, b, w)
  \/ Worker
  \/ Controller

Spec == Init /\ [][Next]_vars

\* Threads that are inside a call are not suspended for ever; nobody has to
\* store, stop or restart anything.
Fairness ==
  /\ \A a \in Actors : WF_vars(Deliver(a))
  /\ WF_vars(Worker)
  /\ WF_vars(StopJoin \/ ShutdownFree)

FairSpec == Spec /\ Fairness

-----------------------------------------------------------------------------
\* The values the variables take.
TypeOK ==
  /\ CellTypeOK
  /\ at \in [Actors -> {"idle", "dirty", "hook", "wake", "submit", "push", "rollback"}]
  /\ dpc \in {"none", "check", "pop", "forget", "exchange", "load", "onset", "changed", "exit"}
  /\ default \in BOOLEAN /\ live \in BOOLEAN /\ refused \in BOOLEAN
  /\ bound \in [Boxes -> {"inherit", "own", "none"}]
  /\ state \in {0, 1}
  /\ ring \in Seq(Boxes) /\ Len(ring) <= QueueCapacity
  /\ queued \subseteq Boxes
  /\ ctl \in {"idle", "stop", "shutdown"}
  /\ starts \in 0 .. MaxStarts /\ stops \in 0 .. MaxStops

\* Who is where: an actor has a box while it is in a store, and the worker from its
\* pop to the end of the drain; no worker is started or run again over one that has
\* not left its loop.
EachInPlace ==
  /\ \A a \in Actors : at[a] = "idle" <=> target[a] = NoBox
  /\ dpc \in {"forget", "exchange", "load", "onset", "changed"} <=> dbox # NoBox
  /\ ~live /\ ctl = "idle" => dpc = "none"
  /\ live /\ state = 0 /\ ctl = "idle" => dpc = "exit"
  /\ state = 1 => live /\ ctl = "idle"
  /\ ctl = "stop" => live
  /\ ctl = "shutdown" => ~live

\* The three hands a queued box is in: the ring of the worker, a wake that put it
\* in s_queued and has not returned, the worker between its pop and its removal.
InRing(b) == {k \in DOMAIN ring : ring[k] = b}
Waking(b) == {a \in Actors : target[a] = b /\ at[a] \in {"submit", "push", "rollback"}}
Popped(b) == dbox = b /\ dpc = "forget"

\* A box is queued at most once, however many threads store to it, and is not
\* submitted again while a wake of it waits, is refused or rolls back.  (A box
\* that is released while it is in the ring and adopted again may be there twice.)
QueuedAtMostOnce ==
  \A b \in Boxes \ Releasable :
    Cardinality(InRing(b)) + Cardinality(Waking(b)) + (IF Popped(b) THEN 1 ELSE 0) <= 1

\* The same hand by hand, and that a box in a hand is in s_queued.
HeldOnce(b) ==
  /\ InRing(b) # {} \/ Waking(b) # {} \/ Popped(b) => b \in queued
  /\ \A i, j \in InRing(b) : i = j
  /\ \A a, c \in Waking(b) : a = c
  /\ InRing(b) = {} \/ Waking(b) = {}
  /\ Popped(b) => InRing(b) = {} /\ Waking(b) = {}
OneHand == \A b \in Boxes \ Releasable : HeldOnce(b)

\* The types, a ring within its bound, and no box in it twice.
ReactiveInv == TypeOK /\ QueuedAtMostOnce

CellsInv == TypeOK /\ EachInPlace /\ DrainIsCurrent /\ ObserversSawTheWord

\* No store is lost: while the worker runs and as long as no wake was refused,
\* the word of a box that inherits the default reaches its observers.
StoreIsDelivered ==
  \A b \in Boxes \ Releasable :
    dirty[b] /\ state = 1 /\ ~refused ~> ~dirty[b] \/ state = 0 \/ refused

\* No box stays in s_queued for ever, which would silence it: every later store
\* would find it queued and submit nothing.
QueuedIsDrained ==
  \A b \in Boxes : b \in queued /\ state = 1 ~> b \notin queued \/ state = 0
=============================================================================
