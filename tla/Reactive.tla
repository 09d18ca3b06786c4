------------------------------ MODULE Reactive ------------------------------
(***************************************************************************)
(* reactive/reactive.c: a box holds one atomic word that any thread        *)
(* stores.  A store moves the word, marks the box dirty and calls its      *)
(* delivery hook, which schedules a drain on the owner's thread.  A drain  *)
(* consumes the dirty mark, loads the word and tells the observers: onSet  *)
(* of the word, and onChanged when it differs from the shadow, the word    *)
(* of the last drain that changed it.                                      *)
(*                                                                         *)
(* The boxes' observers run at the points "onset" and "changed" of the     *)
(* drain, where the owner may itself store.                                *)
(***************************************************************************)
EXTENDS Naturals

CONSTANTS
  Boxes,
  Words,       \* the words stored
  Writers,     \* the threads that store
  Owner,       \* the thread that drains
  MaxStores,   \* bound: the stores begun
  NoBox

ASSUME ReactiveAssumption ==
  /\ Owner \notin Writers
  /\ NoBox \notin Boxes
  /\ Words # {}
  /\ MaxStores \in Nat

Actors == Writers \cup {Owner}

VARIABLES
  value,     \* Reactive.value
  dirty,     \* Reactive.dirty
  shadow,    \* Reactive.shadow
  at,        \* where each actor is in Reactive_store and what it calls
  target,    \* the box each actor stores to
  stores,    \* the stores begun so far
  dpc,       \* where the owner is in its loop and in Reactive_drain
  dbox,      \* the box the owner drains
  dvalue, dold   \* its locals value and old

cellVars == <<value, dirty, shadow>>
storeVars == <<at, target, stores>>
drainVars == <<dpc, dbox, dvalue, dold>>

\* Words are only compared with each other, so that every box may start with
\* the same one; it is also what the owner's locals hold outside a drain.
FirstWord == CHOOSE w \in Words : TRUE

\* Reactive_init: the shadow starts equal, so that the first drain is silent.
CellInit ==
  /\ value = [b \in Boxes |-> FirstWord]
  /\ shadow = value
  /\ dirty = [b \in Boxes |-> FALSE]
  /\ at = [a \in Actors |-> "idle"]
  /\ target = [a \in Actors |-> NoBox]
  /\ stores = 0
  /\ dbox = NoBox
  /\ dvalue = FirstWord
  /\ dold = FirstWord

\* Actor a goes on to another point of its store.
At(a, from, to) ==
  /\ at[a] = from
  /\ at' = [at EXCEPT ![a] = to]

\* The store returns.
Returns(a, from) ==
  /\ At(a, from, "idle")
  /\ target' = [target EXCEPT ![a] = NoBox]
  /\ UNCHANGED stores

\* The owner stores from inside an observer only.
MayStore(a) == a = Owner => dpc \in {"onset", "changed"}

StoreValue(a, b, w) ==
  /\ MayStore(a)
  /\ stores < MaxStores
  /\ stores' = stores + 1
  /\ At(a, "idle", "dirty")
  /\ target' = [target EXCEPT ![a] = b]
  /\ value' = [value EXCEPT ![b] = w]
  /\ UNCHANGED <<dirty, shadow>>
  /\ UNCHANGED drainVars

StoreDirty(a) ==
  /\ At(a, "dirty", "hook")
  /\ dirty' = [dirty EXCEPT ![target[a]] = TRUE]
  /\ UNCHANGED <<value, shadow, target, stores>>
  /\ UNCHANGED drainVars

-----------------------------------------------------------------------------
(* Reactive_drain, on the owner's thread.  A callback that stores is waited *)
(* for before the drain goes on.                                            *)

DrainStep(from, to) ==
  /\ dpc = from
  /\ at[Owner] = "idle"
  /\ dpc' = to
  /\ UNCHANGED storeVars

\* atomic_exchange(dirty, false): nothing was written, the drain is over.
DrainClean(to) ==
  /\ DrainStep("exchange", to)
  /\ ~dirty[dbox]
  /\ dbox' = NoBox
  /\ UNCHANGED <<dvalue, dold>>
  /\ UNCHANGED cellVars

\* ... or the mark is consumed.
DrainDirty ==
  /\ DrainStep("exchange", "load")
  /\ dirty[dbox]
  /\ dirty' = [dirty EXCEPT ![dbox] = FALSE]
  /\ UNCHANGED <<value, shadow, dbox, dvalue, dold>>

DrainLoad ==
  /\ DrainStep("load", "onset")
  /\ dvalue' = value[dbox]
  /\ dold' = shadow[dbox]
  /\ UNCHANGED dbox
  /\ UNCHANGED cellVars

\* A variant for checking: the mark is cleared when the drain is done with onSet.
DrainLatchClears ==
  /\ DrainStep("onset", "changed")
  /\ shadow' = [shadow EXCEPT ![dbox] = IF dvalue # dold THEN dvalue ELSE @]
  /\ dirty' = [dirty EXCEPT ![dbox] = FALSE]
  /\ UNCHANGED <<value, dbox, dvalue, dold>>

\* onSet has run: latch the shadow before onChanged runs.
DrainLatch ==
  /\ DrainStep("onset", "changed")
  /\ shadow' = [shadow EXCEPT ![dbox] = IF dvalue # dold THEN dvalue ELSE @]
  /\ UNCHANGED <<value, dirty, dbox, dvalue, dold>>

\* onChanged and onNullptr have run.
DrainEnd(to) ==
  /\ DrainStep("changed", to)
  /\ dbox' = NoBox
  /\ dvalue' = FirstWord
  /\ dold' = FirstWord
  /\ UNCHANGED cellVars

Draining(b) == dbox = b /\ dpc \in {"load", "onset", "changed"}

CellTypeOK ==
  /\ value \in [Boxes -> Words] /\ shadow \in [Boxes -> Words]
  /\ dirty \in [Boxes -> BOOLEAN]
  /\ target \in [Actors -> Boxes \cup {NoBox}]
  /\ stores \in 0 .. MaxStores
  /\ dbox \in Boxes \cup {NoBox}
  /\ dvalue \in Words /\ dold \in Words

\* What the drain under way holds of its box: a word that a store or a mark not yet
\* consumed makes it come back for, or the word that the box holds.
Due(b) == dirty[b] \/ \E a \in Actors : target[a] = b /\ at[a] = "dirty"
DrainIsCurrent ==
  /\ dpc = "onset" => dold = shadow[dbox] /\ (Due(dbox) \/ dvalue = value[dbox])
  /\ dpc = "changed" => Due(dbox) \/ shadow[dbox] = value[dbox]

\* Observers converge: a box that is not dirty, that nobody is storing to and
\* that is not being drained has shown its observers the word it holds.
ObserversSawTheWord ==
  \A b \in Boxes :
    /\ ~dirty[b]
    /\ \A a \in Actors : ~(target[a] = b /\ at[a] = "dirty")
    /\ ~Draining(b)
    => shadow[b] = value[b]
=============================================================================
