--------------------------- MODULE MCContainers ---------------------------
(***************************************************************************)
(* The bit pool, shared by three threads with two slots and five tags, and *)
(* the containers that one thread uses: a behaviour is of the one that the *)
(* initial state picks, and the others keep their initial values.          *)
(***************************************************************************)
EXTENDS BitPool, Lists, Sets, Periphery, TLC

CONSTANTS t1, t2, t3, e1, e2, e3, e4, e5, e6

VARIABLE store

storeVars == <<store, vars, dequeVars, sparseVars, heapVars, indexVars, listVars, setVars, localVars, box, keymap, meta, edge>>

\* The threads of the pool are alike, and the observers of a box; nothing else knows them.
Symmetry == Permutations(Threads) \union Permutations(Observers)

MCLetters == [x |-> 1, y |-> 2]

\* e1 and e2 point to equal blocks, e3 to one of another type with the same bytes;
\* e4 is null, e5 points to no block and e6 is a number.
MCWord == e1 :> 5 @@ e2 :> 9 @@ e3 :> 8 @@ e4 :> 0 @@ e5 :> 7 @@ e6 :> 1
MCBlockOf(type, bytes) == [type |-> type, bytes |-> bytes]
MCBlock == [e \in {e1, e2} |-> MCBlockOf(1, <<1>>)] @@ e3 :> MCBlockOf(2, <<1>>)
             @@ [e \in {e4, e5, e6} |-> MCBlockOf(0, <<>>)]
MCFolded == "a" :> "A" @@ "?" :> NoName
MCStride == 0 :> 0 @@ 1 :> 4 @@ 2 :> 8

MCFnv == <<1>> :> 3
MCMix == 7 :> 7 @@ 1 :> 1

ContainersInit ==
  /\ store \in {"pool", "deque", "sparse set", "heap", "index", "list", "hash set", "locals", "box", "key map", "record", "edge"}
  /\ Init
  /\ DequeInit /\ (store = "deque" \/ (dqKind = "deque" /\ dqCount = 0)) /\ SparseInit /\ HeapInit /\ IndexInit
  /\ ListInit /\ (store = "list" \/ (shape = "stack" /\ coll.cap = ListCap)) /\ SetInit
  /\ LocalInit /\ BoxInit /\ KeyMapInit
  /\ MetaInit /\ (store = "record" \/ OfStruct)
  /\ EdgeInit /\ (store = "edge" \/ Is("deck"))

\* Every one but the chosen stands still.
OtherStores ==
  /\ IF store = "pool" THEN TRUE ELSE UNCHANGED vars
  /\ IF store = "deque" THEN TRUE ELSE UNCHANGED dequeVars
  /\ IF store = "sparse set" THEN TRUE ELSE UNCHANGED sparseVars
  /\ IF store = "heap" THEN TRUE ELSE UNCHANGED heapVars
  /\ IF store = "index" THEN TRUE ELSE UNCHANGED indexVars
  /\ IF store = "list" THEN TRUE ELSE UNCHANGED listVars
  /\ IF store = "hash set" THEN TRUE ELSE UNCHANGED setVars
  /\ IF store = "locals" THEN TRUE ELSE UNCHANGED localVars
  /\ IF store = "box" THEN TRUE ELSE UNCHANGED box
  /\ IF store = "key map" THEN TRUE ELSE UNCHANGED keymap
  /\ IF store = "record" THEN TRUE ELSE UNCHANGED meta
  /\ IF store = "edge" THEN TRUE ELSE UNCHANGED edge

ContainersNext ==
  /\ UNCHANGED store
  /\ \/ store = "pool" /\ Next
     \/ store = "deque" /\ DequeNext
     \/ store = "sparse set" /\ SparseNext
     \/ store = "heap" /\ HeapNext
     \/ store = "index" /\ IndexNext
     \/ store = "list" /\ ListNext
     \/ store = "hash set" /\ SetNext
     \/ store = "locals" /\ LocalNext
     \/ store = "box" /\ BoxNext
     \/ store = "key map" /\ KeyMapNext
     \/ store = "record" /\ MetaNext
     \/ store = "edge" /\ EdgeNext
  /\ OtherStores

ContainersSpec == ContainersInit /\ [][ContainersNext]_storeVars

\* The containers of struct/ keep what they were given: lists, stacks, arrays,
\* deques and queues answer every index as a sequence would, a table of
\* objects/local.c every thread id, a set holds each content
\* once, a heap yields a least entry of those it holds, and a sparse set finds
\* each member once with the component last written for it.  A query of the
\* segment index answers with the entries that match it, in the order in which
\* they were added, also when an add between them ran out of memory.  The observers
\* of a box are each called once by a walk, whatever the others do meanwhile;
\* a key map finds what is bound, and a record of reflection/ counts its rows.
ContainersKeepTheirWord ==
  /\ store = "list" => ListsHoldTheirElements
  /\ store = "hash set" => SetIsASet
  /\ store = "deque" => DequeIsASequence
  /\ store = "locals" => LocalsAnswer
  /\ store = "heap" => HeapYieldsLeast
  /\ store = "index" => QueryIsExact
  /\ store = "box" => ObserversAreCalled
  /\ store = "key map" => BindingsAnswer
  /\ store = "record" => RecordsAreWhole
  /\ store = "edge" => EdgesHold
  /\ store = "sparse set" => SparseTypeOK /\ ComponentsFollowEntities
=============================================================================
