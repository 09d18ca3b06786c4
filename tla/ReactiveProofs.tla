--------------------------- MODULE ReactiveProofs ---------------------------
(***************************************************************************)
(* Reactive boxes and the worker that drains them (reactive/reactive.c,    *)
(* thread/reactive.c), for every set of boxes, words and writers, every    *)
(* capacity of the worker's ring and every number of stops and restarts.   *)
(***************************************************************************)
EXTENDS ReactiveThread, FiniteSetTheorems, SequenceTheorems, TLAPS

\* What the theorems know of the constants.
LEMMA Constants ==
  /\ NoBox \notin Boxes /\ FirstWord \in Words /\ Owner \in Actors
  /\ MaxStores \in Nat /\ QueueCapacity \in Nat /\ QueueCapacity > 0
  /\ MaxStarts \in Nat /\ MaxStops \in Nat
BY ReactiveAssumption, ReactiveThreadAssumption DEF FirstWord, Actors

\* At first nobody stores and no worker runs.
LEMMA CellsStart == Init => CellsInv
<1> SUFFICES ASSUME Init PROVE CellsInv
  OBVIOUS
<1> USE DEF Init, CellInit
<1>1. <<>> \in Seq(Boxes) /\ Len(<<>>) = 0
  BY EmptySeq
<1>2. CellTypeOK
  BY Constants DEF CellTypeOK
<1>3. /\ ring \in Seq(Boxes) /\ Len(ring) <= QueueCapacity
      /\ at \in [Actors -> {"idle", "dirty", "hook", "wake", "submit", "push", "rollback"}]
      /\ bound \in [Boxes -> {"inherit", "own", "none"}]
      /\ starts \in 0 .. MaxStarts /\ stops \in 0 .. MaxStops
  BY <1>1, Constants
<1>4. TypeOK
  BY <1>2, <1>3 DEF TypeOK
<1>5. EachInPlace /\ DrainIsCurrent /\ ObserversSawTheWord
  BY DEF EachInPlace, DrainIsCurrent, ObserversSawTheWord
<1>6. QED
  BY <1>4, <1>5 DEF CellsInv

-----------------------------------------------------------------------------
(* Types and places *)

\* A store, its hook and its wake.
LEMMA StoreKeepsTypes ==
  ASSUME TypeOK, EachInPlace, NEW a \in Actors,
         Deliver(a) \/ \E b \in Boxes, w \in Words : Store(a, b, w)
  PROVE  TypeOK' /\ EachInPlace'
<1> USE DEF At, Returns, cellVars, drainVars, threadVars, ctlVars
<1>1. UNCHANGED <<shadow, dpc, dbox, dvalue, dold, default, bound, live, state, ctl, starts, stops>>
  BY DEF Deliver, MarkDirty, StoreDirty, Hook, HookNone, Queue, AlreadyQueued, SubmitCheck, Push, Refuse,
         Rollback, Store, StoreValue
<1>2. /\ at' \in [Actors -> {"idle", "dirty", "hook", "wake", "submit", "push", "rollback"}]
      /\ target' \in [Actors -> Boxes \union {NoBox}]
      /\ \A c \in Actors : at'[c] = "idle" <=> target'[c] = NoBox
  <2>1. CASE \E b \in Boxes, w \in Words : Store(a, b, w)
    BY <2>1, Constants DEF Store, StoreValue, TypeOK, CellTypeOK, EachInPlace
  <2>2. CASE Deliver(a)
    BY <2>2 DEF Deliver, MarkDirty, StoreDirty, Hook, HookNone, Queue, AlreadyQueued, SubmitCheck, Push, Refuse,
         Rollback, TypeOK, CellTypeOK, EachInPlace
  <2>3. QED
    BY <2>1, <2>2
<1>3. value' \in [Boxes -> Words] /\ stores' \in 0 .. MaxStores
  BY Constants DEF Deliver, MarkDirty, StoreDirty, Hook, HookNone, Queue, AlreadyQueued, SubmitCheck, Push, Refuse,
         Rollback, Store, StoreValue, TypeOK, CellTypeOK
<1>4. dirty' \in [Boxes -> BOOLEAN]
  BY DEF Deliver, MarkDirty, StoreDirty, Hook, HookNone, Queue, AlreadyQueued, SubmitCheck, Push, Refuse,
         Rollback, Store, StoreValue, TypeOK, CellTypeOK
<1>5. queued' \subseteq Boxes /\ refused' \in BOOLEAN
  <2>1. at[a] # "idle" => target[a] \in Boxes
    BY DEF EachInPlace, TypeOK, CellTypeOK
  <2>2. QED
    BY <2>1 DEF Deliver, MarkDirty, StoreDirty, Hook, HookNone, Queue, AlreadyQueued, SubmitCheck, Push, Refuse,
         Rollback, Store, StoreValue, TypeOK
<1>6. ring' \in Seq(Boxes) /\ Len(ring') <= QueueCapacity
  <2>1. CASE Push(a)
    <3>1. target[a] \in Boxes /\ ring \in Seq(Boxes) /\ Len(ring) \in Nat
      BY <2>1, LenProperties DEF Push, EachInPlace, TypeOK, CellTypeOK
    <3>2. Append(ring, target[a]) \in Seq(Boxes) /\ Len(Append(ring, target[a])) = Len(ring) + 1
      BY <3>1, AppendProperties
    <3>3. QED
      BY <2>1, <3>1, <3>2, Constants DEF Push
  <2>2. CASE ~Push(a)
    BY <2>2 DEF Deliver, MarkDirty, StoreDirty, Hook, HookNone, Queue, AlreadyQueued, SubmitCheck, Refuse,
         Rollback, Store, StoreValue, TypeOK
  <2>3. QED
    BY <2>1, <2>2
<1>7. TypeOK'
  BY <1>1, <1>2, <1>3, <1>4, <1>5, <1>6 DEF TypeOK, CellTypeOK
<1>8. EachInPlace'
  BY <1>1, <1>2 DEF EachInPlace
<1>9. QED
  BY <1>7, <1>8

\* A step of the worker.
LEMMA WorkerKeepsTypes ==
  ASSUME TypeOK, EachInPlace, Worker
  PROVE  TypeOK' /\ EachInPlace'
<1> USE DEF cellVars, storeVars, ctlVars, threadVars
<1>1. UNCHANGED <<value, at, target, stores, default, bound, live, state, ctl, starts, stops, refused>>
  BY DEF Worker, GoOn, Exit, Pop, Idle, Forget, Drain, WorkerStep, DrainStep, DrainClean, DrainDirty,
         DrainLoad, DrainLatch, DrainEnd
<1>2. CASE Drain
  <2>1. UNCHANGED <<ring, queued>> /\ dbox \in Boxes /\ dpc \in {"exchange", "load", "onset", "changed"}
    BY <1>2 DEF Drain, DrainStep, DrainClean, DrainDirty, DrainLoad, DrainLatch, DrainEnd, EachInPlace,
                TypeOK, CellTypeOK
  <2>2. TypeOK'
    <3>1. dirty' \in [Boxes -> BOOLEAN] /\ shadow' \in [Boxes -> Words]
      BY <1>2, <2>1 DEF Drain, DrainStep, DrainClean, DrainDirty, DrainLoad, DrainLatch, DrainEnd, TypeOK, CellTypeOK
    <3>2. dbox' \in Boxes \union {NoBox} /\ dvalue' \in Words /\ dold' \in Words
      BY <1>2, <2>1, Constants
         DEF Drain, DrainStep, DrainClean, DrainDirty, DrainLoad, DrainLatch, DrainEnd, TypeOK, CellTypeOK
    <3>3. dpc' \in {"check", "exchange", "load", "onset", "changed"}
      BY <1>2 DEF Drain, DrainStep, DrainClean, DrainDirty, DrainLoad, DrainLatch, DrainEnd
    <3>4. QED
      BY <1>1, <2>1, <3>1, <3>2, <3>3 DEF TypeOK, CellTypeOK
  <2>3. dpc' \in {"forget", "exchange", "load", "onset", "changed"} <=> dbox' # NoBox
    BY <1>2, <2>1, Constants DEF Drain, DrainStep, DrainClean, DrainDirty, DrainLoad, DrainLatch, DrainEnd
  <2>4. ~(~live /\ ctl = "idle") /\ ~(live /\ state = 0 /\ ctl = "idle")
    BY <2>1 DEF EachInPlace
  <2>5. EachInPlace'
    BY <1>1, <2>3, <2>4 DEF EachInPlace
  <2>6. QED
    BY <2>2, <2>5
<1>3. CASE ~Drain
  <2>1. UNCHANGED <<value, dirty, shadow, dvalue, dold>>
        /\ dpc \notin {"none", "exit"}
    BY <1>3 DEF Worker, GoOn, Exit, Pop, Idle, Forget, WorkerStep
  <2>2. ring' \in Seq(Boxes) /\ Len(ring') <= QueueCapacity /\ dbox' \in Boxes \union {NoBox}
        /\ (dpc' \in {"forget", "exchange", "load", "onset", "changed"} <=> dbox' # NoBox)
    <3>1. CASE Pop
      <4>1. ring \in Seq(Boxes) /\ ring # <<>>
        BY <3>1 DEF Pop, TypeOK
      <4>2. Head(ring) \in Boxes /\ Tail(ring) \in Seq(Boxes) /\ Len(Tail(ring)) = Len(ring) - 1
            /\ Len(ring) \in Nat
        BY <4>1, HeadTailProperties, LenProperties
      <4>3. QED
        BY <3>1, <4>2, Constants DEF Pop, WorkerStep, TypeOK
    <3>2. CASE ~Pop
      BY <1>3, <3>2 DEF Worker, GoOn, Exit, Idle, Forget, WorkerStep, TypeOK, CellTypeOK, EachInPlace
    <3>3. QED
      BY <3>1, <3>2
  <2>3. dpc' \in {"none", "check", "pop", "forget", "exchange", "load", "onset", "changed", "exit"}
        /\ queued' \subseteq Boxes
    BY <1>3 DEF Worker, GoOn, Exit, Pop, Idle, Forget, WorkerStep, TypeOK
  <2>4. TypeOK'
    BY <1>1, <2>1, <2>2, <2>3 DEF TypeOK, CellTypeOK
  <2>5. EachInPlace'
    BY <1>1, <2>1, <2>2 DEF EachInPlace
  <2>6. QED
    BY <2>4, <2>5
<1>4. QED
  BY <1>2, <1>3

\* A step of the controller.
LEMMA ControllerKeepsTypes ==
  ASSUME TypeOK, EachInPlace, Controller
  PROVE  TypeOK' /\ EachInPlace'
<1> USE DEF cellVars, storeVars, ctlVars, drainVars
<1>1. UNCHANGED <<value, dirty, shadow, at, target, stores, dbox, dvalue, dold, refused>>
  BY DEF Controller, Start, StopWorker, StopJoin, Rerun, Shutdown, ShutdownFree, Adopt, Release, CtlStep
<1>2. ring' = ring \/ ring' = <<>>
  BY DEF Controller, Start, StopWorker, StopJoin, Rerun, Shutdown, ShutdownFree, Adopt, Release, CtlStep
<1>3. ring' \in Seq(Boxes) /\ Len(ring') <= QueueCapacity
  <2>1. <<>> \in Seq(Boxes) /\ Len(<<>>) = 0
    BY EmptySeq
  <2>2. CASE ring' = ring
    BY <2>2 DEF TypeOK
  <2>3. CASE ring' = <<>>
    <3>1. 0 <= QueueCapacity
      BY Constants
    <3>2. QED
      BY <2>1, <2>3, <3>1
  <2>4. QED
    BY <1>2, <2>2, <2>3
<1>4. bound' \in [Boxes -> {"inherit", "own", "none"}] /\ queued' \subseteq Boxes
  BY ReactiveThreadAssumption
     DEF Controller, Start, StopWorker, StopJoin, Rerun, Shutdown, ShutdownFree, Adopt, Release, CtlStep, TypeOK
<1>5. starts' \in 0 .. MaxStarts /\ stops' \in 0 .. MaxStops
  BY Constants
     DEF Controller, Start, StopWorker, StopJoin, Rerun, Shutdown, ShutdownFree, Adopt, Release, CtlStep, TypeOK
<1>6. dpc' \in {"none", "check", "pop", "forget", "exchange", "load", "onset", "changed", "exit"}
  BY DEF Controller, Start, StopWorker, StopJoin, Rerun, Shutdown, ShutdownFree, Adopt, Release, CtlStep, TypeOK
<1>7. default' \in BOOLEAN /\ live' \in BOOLEAN /\ state' \in {0, 1}
  BY DEF Controller, Start, StopWorker, StopJoin, Rerun, Shutdown, ShutdownFree, Adopt, Release, CtlStep, TypeOK
<1>8. ctl' \in {"idle", "stop", "shutdown"}
  BY DEF Controller, Start, StopWorker, StopJoin, Rerun, Shutdown, ShutdownFree, Adopt, Release, CtlStep, TypeOK
<1>9. TypeOK'
  BY <1>1, <1>3, <1>4, <1>5, <1>6, <1>7, <1>8 DEF TypeOK, CellTypeOK
<1>10. EachInPlace'
  BY <1>1 DEF Controller, Start, StopWorker, StopJoin, Rerun, Shutdown, ShutdownFree, Adopt, Release, CtlStep,
       TypeOK, EachInPlace
<1>11. QED
  BY <1>9, <1>10

-----------------------------------------------------------------------------
(* What the observers have seen *)

\* A store, its hook and its wake: from the store of the word to the mark the box is due.
LEMMA StoreKeepsCells ==
  ASSUME CellsInv, NEW a \in Actors,
         Deliver(a) \/ \E b \in Boxes, w \in Words : Store(a, b, w)
  PROVE  DrainIsCurrent' /\ ObserversSawTheWord'
<1> USE DEF CellsInv, At, Returns, cellVars, drainVars, threadVars, ctlVars
<1>1. UNCHANGED <<shadow, dpc, dbox, dvalue, dold>>
  BY DEF Deliver, MarkDirty, StoreDirty, Hook, HookNone, Queue, AlreadyQueued, SubmitCheck, Push, Refuse,
         Rollback, Store, StoreValue
<1>2. \A b \in Boxes : Draining(b)' <=> Draining(b)
  BY <1>1 DEF Draining
<1>3. dpc \in {"onset", "changed"} => dbox \in Boxes
  BY DEF EachInPlace, TypeOK, CellTypeOK
<1>4. \A b \in Boxes : Due(b)' \/ (~Due(b) /\ value'[b] = value[b])
  <2>1. CASE \E b \in Boxes, w \in Words : Store(a, b, w)
    <3>1. PICK b \in Boxes, w \in Words : Store(a, b, w)
      BY <2>1
    <3>2. value' = [value EXCEPT ![b] = w] /\ dirty' = dirty /\ at[a] = "idle"
      BY <3>1 DEF Store, StoreValue
    <3>3. target'[a] = b /\ at'[a] = "dirty" /\ \A c \in Actors \ {a} : at'[c] = at[c] /\ target'[c] = target[c]
      BY <3>1 DEF Store, StoreValue, TypeOK, CellTypeOK
    <3>4. Due(b)'
      BY <3>3 DEF Due
    <3>5. \A d \in Boxes \ {b} : value'[d] = value[d] /\ (Due(d) => Due(d)')
      BY <3>2, <3>3 DEF Due, TypeOK, CellTypeOK
    <3>6. QED
      BY <3>4, <3>5
  <2>2. CASE MarkDirty(a)
    <3>1. target[a] \in Boxes /\ value' = value /\ target' = target
          /\ dirty' = [dirty EXCEPT ![target[a]] = TRUE]
          /\ \A c \in Actors \ {a} : at'[c] = at[c]
      BY <2>2 DEF MarkDirty, StoreDirty, EachInPlace, TypeOK, CellTypeOK
    <3>2. \A b \in Boxes : Due(b) => Due(b)'
      BY <3>1 DEF Due, TypeOK, CellTypeOK
    <3>3. QED
      BY <3>1, <3>2
  <2>3. CASE Deliver(a) /\ ~MarkDirty(a)
    <3>1. value' = value /\ dirty' = dirty /\ at[a] # "dirty" /\ at'[a] # "dirty"
          /\ \A c \in Actors \ {a} : at'[c] = at[c] /\ target'[c] = target[c]
      BY <2>3 DEF Deliver, Hook, HookNone, Queue, AlreadyQueued, SubmitCheck, Push, Refuse, Rollback,
                  TypeOK, CellTypeOK
    <3>2. \A b \in Boxes : Due(b) <=> Due(b)'
      BY <3>1 DEF Due
    <3>3. QED
      BY <3>1, <3>2
  <2>4. QED
    BY <2>1, <2>2, <2>3
<1>5. DrainIsCurrent'
  <2>1. dpc = "onset" => dold = shadow[dbox] /\ \A b \in Boxes : b = dbox => Due(b)' \/ dvalue = value'[b]
    BY <1>3, <1>4 DEF DrainIsCurrent
  <2>2. dpc = "changed" => \A b \in Boxes : b = dbox => Due(b)' \/ shadow[b] = value'[b]
    BY <1>3, <1>4 DEF DrainIsCurrent
  <2>3. QED
    BY <1>1, <1>3, <2>1, <2>2 DEF DrainIsCurrent, Due
<1>6. ObserversSawTheWord'
  <2>1. \A b \in Boxes : Due(b)' \/ Draining(b)' \/ shadow'[b] = value'[b]
    <3>1. \A b \in Boxes : Due(b) \/ Draining(b) \/ shadow[b] = value[b]
      BY DEF ObserversSawTheWord, Due
    <3>2. QED
      BY <1>1, <1>2, <1>4, <3>1
  <2>2. QED
    BY <2>1 DEF ObserversSawTheWord, Due
<1>7. QED
  BY <1>5, <1>6

\* A step of the drain.
LEMMA DrainKeepsCells ==
  ASSUME CellsInv, Drain
  PROVE  DrainIsCurrent' /\ ObserversSawTheWord'
<1> USE DEF CellsInv, cellVars, storeVars, threadVars
<1>1. UNCHANGED <<value, at, target>> /\ dbox \in Boxes
  BY DEF Drain, DrainStep, DrainClean, DrainDirty, DrainLoad, DrainLatch, DrainEnd, EachInPlace, TypeOK, CellTypeOK
<1>2. \A b \in Boxes : Due(b) \/ Draining(b) \/ shadow[b] = value[b]
  BY DEF ObserversSawTheWord, Due
<1>3. ASSUME \A b \in Boxes : Due(b)' \/ Draining(b)' \/ shadow'[b] = value'[b]
      PROVE  ObserversSawTheWord'
  BY <1>3 DEF ObserversSawTheWord, Due
<1>4. CASE DrainClean("check")
  <2>1. UNCHANGED <<dirty, shadow>> /\ dpc = "exchange" /\ dpc' = "check"
    BY <1>4 DEF DrainClean, DrainStep
  <2>2. \A b \in Boxes : ~Draining(b) /\ (Due(b)' <=> Due(b))
    BY <1>1, <2>1 DEF Draining, Due
  <2>3. QED
    BY <1>1, <1>2, <1>3, <2>1, <2>2 DEF DrainIsCurrent
<1>5. CASE DrainDirty
  <2>1. /\ shadow' = shadow /\ dbox' = dbox /\ dpc = "exchange" /\ dpc' = "load"
        /\ dirty' = [dirty EXCEPT ![dbox] = FALSE]
    BY <1>5 DEF DrainDirty, DrainStep
  <2>2. Draining(dbox)' /\ \A b \in Boxes \ {dbox} : ~Draining(b) /\ (Due(b)' <=> Due(b))
    BY <1>1, <2>1 DEF Draining, Due, TypeOK, CellTypeOK
  <2>3. \A b \in Boxes : Due(b)' \/ Draining(b)' \/ shadow'[b] = value'[b]
    BY <1>1, <1>2, <2>1, <2>2
  <2>4. QED
    BY <1>3, <2>1, <2>3 DEF DrainIsCurrent
<1>6. CASE DrainLoad
  <2>1. /\ shadow' = shadow /\ dbox' = dbox /\ dirty' = dirty /\ dpc = "load" /\ dpc' = "onset"
        /\ dvalue' = value[dbox] /\ dold' = shadow[dbox]
    BY <1>6 DEF DrainLoad, DrainStep
  <2>2. \A b \in Boxes : (Draining(b)' <=> Draining(b)) /\ (Due(b)' <=> Due(b))
    BY <1>1, <2>1 DEF Draining, Due
  <2>3. \A b \in Boxes : Due(b)' \/ Draining(b)' \/ shadow'[b] = value'[b]
    BY <1>1, <1>2, <2>1, <2>2
  <2>4. QED
    BY <1>1, <1>3, <2>1, <2>3 DEF DrainIsCurrent
<1>7. CASE DrainLatch
  <2>1. /\ dbox' = dbox /\ dirty' = dirty /\ dpc = "onset" /\ dpc' = "changed"
        /\ shadow' = [shadow EXCEPT ![dbox] = IF dvalue # dold THEN dvalue ELSE @]
    BY <1>7 DEF DrainLatch, DrainStep
  <2>2. \A b \in Boxes : (Draining(b)' <=> Draining(b)) /\ (Due(b)' <=> Due(b))
    BY <1>1, <2>1 DEF Draining, Due
  <2>3. dold = shadow[dbox] /\ (Due(dbox) \/ dvalue = value[dbox])
    BY <2>1 DEF DrainIsCurrent
  <2>4. shadow'[dbox] = dvalue
    BY <1>1, <2>1, <2>3 DEF TypeOK, CellTypeOK
  <2>5. \A b \in Boxes : IF b = dbox THEN Draining(b)' ELSE shadow'[b] = shadow[b]
    BY <1>1, <2>1 DEF Draining, TypeOK, CellTypeOK
  <2>6. \A b \in Boxes : Due(b)' \/ Draining(b)' \/ shadow'[b] = value'[b]
    BY <1>1, <1>2, <2>2, <2>5
  <2>7. \A b \in Boxes : b = dbox => Due(b)' \/ shadow'[b] = value'[b]
    BY <1>1, <2>2, <2>3, <2>4
  <2>8. DrainIsCurrent'
    BY <1>1, <2>1, <2>7 DEF DrainIsCurrent, Due
  <2>9. QED
    BY <1>3, <2>6, <2>8
<1>8. CASE DrainEnd("check")
  <2>1. UNCHANGED <<dirty, shadow>> /\ dpc = "changed" /\ dpc' = "check"
    BY <1>8 DEF DrainEnd, DrainStep
  <2>2. \A b \in Boxes : (Due(b)' <=> Due(b)) /\ (Draining(b) => b = dbox)
    BY <1>1, <2>1 DEF Draining, Due
  <2>3. Due(dbox) \/ shadow[dbox] = value[dbox]
    BY <2>1 DEF DrainIsCurrent
  <2>4. \A b \in Boxes : Due(b)' \/ Draining(b)' \/ shadow'[b] = value'[b]
    BY <1>1, <1>2, <2>1, <2>2, <2>3
  <2>5. QED
    BY <1>3, <2>1, <2>4 DEF DrainIsCurrent
<1>9. QED
  BY <1>4, <1>5, <1>6, <1>7, <1>8 DEF Drain

\* Outside a drain the worker, and the controller at any time, change no box and begin
\* or end no drain.
LEMMA OthersKeepCells ==
  ASSUME CellsInv, Worker \/ Controller, ~Drain
  PROVE  DrainIsCurrent' /\ ObserversSawTheWord'
<1> USE DEF CellsInv, cellVars, storeVars, ctlVars, drainVars
<1>1. UNCHANGED <<value, dirty, shadow, at, target, dvalue, dold>>
  BY DEF Worker, GoOn, Exit, Pop, Idle, Forget, WorkerStep,
         Controller, Start, StopWorker, StopJoin, Rerun, Shutdown, ShutdownFree, Adopt, Release, CtlStep
<1>2. (dpc' = dpc /\ dbox' = dbox)
        \/ (dpc' \notin {"load", "onset", "changed"} /\ dpc \notin {"load", "onset", "changed"})
  BY DEF Worker, GoOn, Exit, Pop, Idle, Forget, WorkerStep, EachInPlace,
         Controller, Start, StopWorker, StopJoin, Rerun, Shutdown, ShutdownFree, Adopt, Release, CtlStep, TypeOK
<1>3. \A b \in Boxes : Draining(b)' <=> Draining(b)
  BY <1>2 DEF Draining
<1>4. DrainIsCurrent'
  BY <1>1, <1>2 DEF DrainIsCurrent, Due
<1>5. ObserversSawTheWord'
  BY <1>1, <1>3 DEF ObserversSawTheWord
<1>6. QED
  BY <1>4, <1>5

LEMMA CellsStep == CellsInv /\ [Next]_vars => CellsInv'
<1> SUFFICES ASSUME CellsInv, [Next]_vars PROVE CellsInv'
  OBVIOUS
<1>1. CASE UNCHANGED vars
  BY <1>1 DEF vars, CellsInv, TypeOK, CellTypeOK, EachInPlace, DrainIsCurrent, Due, ObserversSawTheWord, Draining
<1>2. CASE Next
  <2>1. TypeOK' /\ EachInPlace'
    BY <1>2, StoreKeepsTypes, WorkerKeepsTypes, ControllerKeepsTypes DEF Next, CellsInv
  <2>2. DrainIsCurrent' /\ ObserversSawTheWord'
    BY <1>2, StoreKeepsCells, DrainKeepsCells, OthersKeepCells DEF Next
  <2>3. QED
    BY <2>1, <2>2 DEF CellsInv
<1>3. QED
  BY <1>1, <1>2

\* A box that is not dirty, not being stored to and not being drained has shown its
\* observers the word it holds, whatever stores, drains and observers that store come
\* between.  Reactive_store, Reactive_drain.
THEOREM ObserversConverge == Spec => []ObserversSawTheWord
<1>1. CellsInv => ObserversSawTheWord
  BY DEF CellsInv
<1>2. QED
  BY <1>1, CellsStart, CellsStep, PTL DEF Spec

-----------------------------------------------------------------------------
(* In how many hands a queued box is *)

\* A step that puts the box in no other hand, and takes it out of s_queued only with the
\* hand it was in.
LEMMA NoOtherHand ==
  ASSUME NEW b \in Boxes, HeldOnce(b),
         InRing(b)' \subseteq InRing(b), Waking(b)' \subseteq Waking(b), Popped(b)' => Popped(b),
         InRing(b)' # {} \/ Waking(b)' # {} \/ Popped(b)' => b \in queued'
  PROVE  HeldOnce(b)'
BY DEF HeldOnce

\* A store, its hook and its wake.
LEMMA StoreKeepsHands ==
  ASSUME TypeOK, EachInPlace, NEW a \in Actors, NEW b \in Boxes, HeldOnce(b),
         Deliver(a) \/ \E d \in Boxes, w \in Words : Store(a, d, w)
  PROVE  HeldOnce(b)'
<1> USE DEF At, Returns, cellVars, drainVars, threadVars, ctlVars
<1>1. UNCHANGED <<dpc, dbox>> /\ (Popped(b)' <=> Popped(b))
  BY DEF Deliver, MarkDirty, StoreDirty, Hook, HookNone, Queue, AlreadyQueued, SubmitCheck, Push, Refuse,
         Rollback, Store, StoreValue, Popped
<1>2. \A c \in Actors \ {a} : at'[c] = at[c] /\ target'[c] = target[c]
  BY DEF Deliver, MarkDirty, StoreDirty, Hook, HookNone, Queue, AlreadyQueued, SubmitCheck, Push, Refuse,
         Rollback, Store, StoreValue, TypeOK, CellTypeOK
<1>3. CASE MarkDirty(a) \/ Hook(a) \/ HookNone(a) \/ AlreadyQueued(a)
             \/ \E d \in Boxes, w \in Words : Store(a, d, w)
  <2>1. UNCHANGED <<ring, queued>> /\ at[a] \notin {"submit", "push", "rollback"}
        /\ at'[a] \notin {"submit", "push", "rollback"}
    BY <1>3 DEF MarkDirty, StoreDirty, Hook, HookNone, AlreadyQueued, Store, StoreValue, TypeOK
  <2>2. InRing(b)' = InRing(b) /\ Waking(b)' = Waking(b)
    BY <1>2, <2>1 DEF InRing, Waking
  <2>3. QED
    BY <1>1, <2>1, <2>2, NoOtherHand DEF HeldOnce
<1>4. CASE SubmitCheck(a) \/ Refuse(a)
  <2>1. UNCHANGED <<ring, queued, target>> /\ at[a] \in {"submit", "push", "rollback"}
        /\ at'[a] \in {"submit", "push", "rollback"}
    BY <1>4 DEF SubmitCheck, Refuse, TypeOK
  <2>2. InRing(b)' = InRing(b) /\ Waking(b)' = Waking(b)
    BY <1>2, <2>1 DEF InRing, Waking
  <2>3. QED
    BY <1>1, <2>1, <2>2, NoOtherHand DEF HeldOnce
<1>5. CASE Queue(a)
  <2>1. /\ ring' = ring /\ target' = target /\ target[a] \notin queued /\ queued' = queued \union {target[a]}
        /\ at[a] = "wake" /\ at'[a] = "submit"
    BY <1>5 DEF Queue, TypeOK
  <2>2. CASE target[a] = b
    <3>1. InRing(b) = {} /\ Waking(b) = {} /\ ~Popped(b)
      BY <2>1, <2>2 DEF HeldOnce
    <3>2. InRing(b)' = {} /\ Waking(b)' = {a} /\ ~Popped(b)'
      BY <1>1, <1>2, <2>1, <2>2, <3>1 DEF InRing, Waking
    <3>3. QED
      BY <2>1, <2>2, <3>2 DEF HeldOnce
  <2>3. CASE target[a] # b
    <3>1. InRing(b)' = InRing(b) /\ Waking(b)' = Waking(b)
      BY <1>2, <2>1, <2>3 DEF InRing, Waking
    <3>2. QED
      BY <1>1, <2>1, <3>1, NoOtherHand DEF HeldOnce
  <2>4. QED
    BY <2>2, <2>3
<1>6. CASE Push(a)
  <2>1. /\ ring' = Append(ring, target[a]) /\ queued' = queued
        /\ at[a] = "push" /\ at'[a] = "idle" /\ target'[a] = NoBox
    BY <1>6 DEF Push, TypeOK, CellTypeOK
  <2>2. target[a] \in Boxes /\ ring \in Seq(Boxes) /\ Len(ring) \in Nat
    BY <2>1, LenProperties DEF EachInPlace, TypeOK, CellTypeOK
  <2>3. /\ DOMAIN ring = 1 .. Len(ring) /\ DOMAIN ring' = 1 .. Len(ring) + 1
        /\ ring'[Len(ring) + 1] = target[a] /\ \A k \in DOMAIN ring : ring'[k] = ring[k]
    BY <2>1, <2>2, AppendProperties, LenProperties
  <2>4. CASE target[a] = b
    <3>1. a \in Waking(b)
      BY <2>1, <2>4 DEF Waking
    <3>2. InRing(b) = {} /\ ~Popped(b) /\ b \in queued /\ Waking(b) = {a}
      BY <3>1 DEF HeldOnce
    <3>3. InRing(b)' = {Len(ring) + 1}
      BY <2>2, <2>3, <2>4, <3>2 DEF InRing
    <3>4. Waking(b)' = {}
      BY <1>2, <2>1, <3>2 DEF Waking
    <3>5. QED
      BY <1>1, <2>1, <3>2, <3>3, <3>4 DEF HeldOnce
  <2>5. CASE target[a] # b
    <3>1. InRing(b)' = InRing(b)
      BY <2>2, <2>3, <2>5 DEF InRing
    <3>2. Waking(b)' = Waking(b)
      BY <1>2, <2>1, <2>5 DEF Waking
    <3>3. QED
      BY <1>1, <2>1, <3>1, <3>2, NoOtherHand DEF HeldOnce
  <2>6. QED
    BY <2>4, <2>5
<1>7. CASE Rollback(a)
  <2>1. /\ ring' = ring /\ queued' = queued \ {target[a]}
        /\ at[a] = "rollback" /\ at'[a] = "idle"
    BY <1>7 DEF Rollback, TypeOK
  <2>2. InRing(b)' = InRing(b) /\ Waking(b)' = Waking(b) \ {a}
    BY <1>2, <2>1 DEF InRing, Waking
  <2>3. CASE target[a] = b
    <3>1. a \in Waking(b)
      BY <2>1, <2>3 DEF Waking
    <3>2. InRing(b)' = {} /\ Waking(b)' = {} /\ ~Popped(b)'
      BY <1>1, <2>2, <3>1 DEF HeldOnce
    <3>3. QED
      BY <3>2 DEF HeldOnce
  <2>4. CASE target[a] # b
    BY <1>1, <2>1, <2>2, <2>4, NoOtherHand DEF HeldOnce
  <2>5. QED
    BY <2>3, <2>4
<1>8. QED
  BY <1>3, <1>4, <1>5, <1>6, <1>7 DEF Deliver

\* A step of the worker: the box goes from the ring to the worker, and out of s_queued.
LEMMA WorkerKeepsHands ==
  ASSUME TypeOK, EachInPlace, NEW b \in Boxes, HeldOnce(b), Worker
  PROVE  HeldOnce(b)'
<1> USE DEF WorkerStep, storeVars
<1>1. UNCHANGED <<at, target>>
  BY DEF Worker, GoOn, Exit, Pop, Idle, Forget, Drain, DrainStep, DrainClean, DrainDirty,
         DrainLoad, DrainLatch, DrainEnd
<1>2. Waking(b)' = Waking(b)
  BY <1>1 DEF Waking
<1>3. CASE Pop
  <2>1. /\ ring # <<>> /\ ring \in Seq(Boxes) /\ ring' = Tail(ring) /\ queued' = queued
        /\ dpc = "pop" /\ dpc' = "forget" /\ dbox' = Head(ring)
    BY <1>3 DEF Pop, ctlVars, TypeOK
  <2>2. /\ Len(ring) \in Nat /\ DOMAIN ring = 1 .. Len(ring) /\ 1 \in DOMAIN ring
        /\ DOMAIN ring' = 1 .. Len(ring) - 1
        /\ ring[1] = Head(ring) /\ \A k \in DOMAIN ring' : ring'[k] = ring[k + 1]
    BY <2>1, HeadTailProperties, LenProperties
  <2>3. \A k \in InRing(b)' : k \in Nat /\ k # 0 /\ k + 1 \in InRing(b)
    BY <2>2 DEF InRing
  <2>4. ~Popped(b) /\ (Popped(b)' <=> ring[1] = b)
    BY <2>1, <2>2 DEF Popped
  <2>5. CASE ring[1] = b
    <3>1. 1 \in InRing(b)
      BY <2>2, <2>5 DEF InRing
    <3>2. InRing(b)' = {} /\ Waking(b) = {} /\ b \in queued
      BY <2>3, <3>1 DEF HeldOnce
    <3>3. QED
      BY <1>2, <2>1, <3>2 DEF HeldOnce
  <2>6. CASE ring[1] # b
    <3>1. \A i, j \in InRing(b)' : i = j
      <4>1. \A i, j \in InRing(b)' : i + 1 = j + 1 /\ i \in Nat /\ j \in Nat
        BY <2>3 DEF HeldOnce
      <4>2. QED
        BY <4>1
    <3>2. InRing(b)' # {} => InRing(b) # {}
      BY <2>3
    <3>3. QED
      BY <1>2, <2>1, <2>4, <2>6, <3>1, <3>2 DEF HeldOnce
  <2>7. QED
    BY <2>5, <2>6
<1>4. CASE Forget
  <2>1. ring' = ring /\ queued' = queued \ {dbox} /\ dpc = "forget" /\ dpc' = "exchange" /\ dbox' = dbox
    BY <1>4 DEF Forget
  <2>2. InRing(b)' = InRing(b) /\ ~Popped(b)'
    BY <2>1 DEF InRing, Popped
  <2>3. b = dbox => Popped(b)
    BY <2>1 DEF Popped
  <2>4. QED
    BY <1>2, <2>1, <2>2, <2>3, NoOtherHand DEF HeldOnce
<1>5. CASE ~Pop /\ ~Forget
  <2>1. UNCHANGED <<ring, queued>> /\ dpc' # "forget" /\ dpc # "forget"
    BY <1>5 DEF Worker, GoOn, Exit, Idle, Drain, DrainStep, DrainClean, DrainDirty,
         DrainLoad, DrainLatch, DrainEnd, threadVars
  <2>2. InRing(b)' = InRing(b) /\ ~Popped(b)'
    BY <2>1 DEF InRing, Popped
  <2>3. QED
    BY <1>2, <2>1, <2>2, NoOtherHand DEF HeldOnce
<1>6. QED
  BY <1>3, <1>4, <1>5

\* A step of the controller: a shutdown empties the ring and leaves s_queued; only boxes
\* that may be released are taken out of it.
LEMMA ControllerKeepsHands ==
  ASSUME TypeOK, EachInPlace, NEW b \in Boxes \ Releasable, HeldOnce(b), Controller
  PROVE  HeldOnce(b)'
<1> USE DEF cellVars, storeVars, ctlVars, drainVars
<1>1. UNCHANGED <<at, target, dbox>>
  BY DEF Controller, Start, StopWorker, StopJoin, Rerun, Shutdown, ShutdownFree, Adopt, Release, CtlStep
<1>2. ring' = ring \/ ring' = <<>>
  BY DEF Controller, Start, StopWorker, StopJoin, Rerun, Shutdown, ShutdownFree, Adopt, Release, CtlStep
<1>3. b \in queued => b \in queued'
  BY DEF Controller, Start, StopWorker, StopJoin, Rerun, Shutdown, ShutdownFree, Adopt, Release, CtlStep
<1>4. dpc' = "forget" => dpc = "forget"
  BY DEF Controller, Start, StopWorker, StopJoin, Rerun, Shutdown, ShutdownFree, Adopt, Release, CtlStep
<1>5. Waking(b)' = Waking(b) /\ (Popped(b)' => Popped(b))
  BY <1>1, <1>4 DEF Waking, Popped
<1>6. InRing(b)' \subseteq InRing(b)
  <2>1. CASE ring' = ring
    BY <2>1 DEF InRing
  <2>2. CASE ring' = <<>>
    <3>1. DOMAIN <<>> = {}
      BY EmptySeq
    <3>2. QED
      BY <2>2, <3>1 DEF InRing
  <2>3. QED
    BY <1>2, <2>1, <2>2
<1>7. QED
  BY <1>3, <1>5, <1>6, NoOtherHand DEF HeldOnce

\* Of at most one hand there is at most one.
LEMMA CountHands ==
  ASSUME TypeOK, OneHand
  PROVE  QueuedAtMostOnce
<1> SUFFICES ASSUME NEW b \in Boxes \ Releasable
             PROVE  Cardinality(InRing(b)) + Cardinality(Waking(b)) + (IF Popped(b) THEN 1 ELSE 0) <= 1
  BY DEF QueuedAtMostOnce
<1>1. HeldOnce(b)
  BY DEF OneHand
<1>2. \A S : (\A x, y \in S : x = y) => (S = {} /\ Cardinality(S) = 0) \/ (S # {} /\ Cardinality(S) = 1)
  <2> SUFFICES ASSUME NEW S, \A x, y \in S : x = y, S # {}
               PROVE  Cardinality(S) = 1
    BY FS_EmptySet
  <2>1. PICK x \in S : S = {x}
    OBVIOUS
  <2>2. QED
    BY <2>1, FS_Singleton
<1>3. (InRing(b) = {} /\ Cardinality(InRing(b)) = 0) \/ (InRing(b) # {} /\ Cardinality(InRing(b)) = 1)
  BY <1>1, <1>2 DEF HeldOnce
<1>4. (Waking(b) = {} /\ Cardinality(Waking(b)) = 0) \/ (Waking(b) # {} /\ Cardinality(Waking(b)) = 1)
  BY <1>1, <1>2 DEF HeldOnce
<1>5. QED
  BY <1>1, <1>3, <1>4 DEF HeldOnce

\* A box is queued at most once, in the worker's ring, in a wake or in the worker's hand,
\* however many threads store to it, and the ring keeps within its bound.  queueBox,
\* Thread_submit, reactive_job.
THEOREM BoxesAreQueuedOnce == Spec => []ReactiveInv
<1>1. Init => OneHand
  <2> SUFFICES ASSUME Init PROVE OneHand
    OBVIOUS
  <2>1. DOMAIN ring = {} /\ dpc = "none" /\ \A a \in Actors : at[a] = "idle"
    BY EmptySeq DEF Init, CellInit
  <2>2. \A b \in Boxes : InRing(b) = {} /\ Waking(b) = {} /\ ~Popped(b)
    BY <2>1 DEF InRing, Waking, Popped
  <2>3. QED
    BY <2>2 DEF OneHand, HeldOnce
<1>2. CellsInv /\ OneHand /\ [Next]_vars => OneHand'
  <2> SUFFICES ASSUME CellsInv, OneHand, [Next]_vars, NEW b \in Boxes \ Releasable PROVE HeldOnce(b)'
    BY DEF OneHand
  <2>1. TypeOK /\ EachInPlace /\ HeldOnce(b)
    BY DEF CellsInv, OneHand
  <2>2. CASE UNCHANGED vars
    BY <2>1, <2>2 DEF vars, HeldOnce, InRing, Waking, Popped
  <2>3. CASE Next
    BY <2>1, <2>3, StoreKeepsHands, WorkerKeepsHands, ControllerKeepsHands DEF Next
  <2>4. QED
    BY <2>2, <2>3
<1>3. CellsInv /\ OneHand => ReactiveInv
  BY CountHands DEF CellsInv, ReactiveInv
<1>4. QED
  BY <1>1, <1>2, <1>3, CellsStart, CellsStep, PTL DEF Spec
=============================================================================
