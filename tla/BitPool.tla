------------------------------ MODULE BitPool ------------------------------
(***************************************************************************)
(* bit/bit.c: a fixed arena of equal slots whose free ones form a linked   *)
(* list.  Any thread allocates by popping the list's head and frees by     *)
(* pushing it, each with one compare-and-swap of a word that packs the     *)
(* head's address with a 16-bit tag, bumped by every success so that a     *)
(* head that was popped and pushed back in the meantime is not taken for   *)
(* the one that was read.                                                  *)
(*                                                                         *)
(* A slot is its number, and 0 is the null address.  The tag packed into   *)
(* a slot's own next word is never read, so next is the address alone; the *)
(* payload and the length stamp are left out.                              *)
(***************************************************************************)
EXTENDS Naturals, Sequences, FiniteSets

CONSTANTS
  Threads,
  Capacity,   \* BitPool.capacity, the slots of the arena
  TagMod,     \* the tags: 2^16 in the code
  TypeIds,    \* the type ids allocations stamp; the code does not rule 0 out
  NoThread

ASSUME PoolAssumption ==
  /\ Capacity \in Nat \ {0}
  /\ TagMod \in Nat \ {0, 1}
  /\ 0 \in TypeIds
  /\ NoThread \notin Threads

Slots == 1 .. Capacity
Address == 0 .. Capacity
Packed == [tag : 0 .. TagMod - 1, ptr : Address]

VARIABLES
  free_head,  \* BitPool.free_head, unpacked
  next,       \* the next word of every slot
  type_id,    \* the type stamp of every slot, 0 once it is freed
  pc,         \* where each thread is in BitPool_alloc or BitPool_free
  seen,       \* head_packed, the head the thread read last
  link,       \* alloc: new_ptr; free's scan: p
  slot,       \* free: the slot; alloc: the slot popped
  want,       \* alloc: the type id asked for
  steps,      \* free's scan: the nodes visited
  live,       \* the slots that callers hold
  solo,       \* the thread that frees a free slot, with nobody else calling
  age,        \* auxiliary: successful swaps by others since the thread read seen
  list        \* auxiliary: the free slots, first to be allocated first

vars == <<free_head, next, type_id, pc, seen, link, slot, want, steps,
          live, solo, age, list>>
locals == <<link, slot, want, steps>>

\* BitPool_2 threads the slots in address order, bumping the tag from 1.
Init ==
  /\ free_head = [tag |-> (1 + Capacity) % TagMod, ptr |-> 1]
  /\ next = [s \in Slots |-> IF s = Capacity THEN 0 ELSE s + 1]
  /\ type_id = [s \in Slots |-> 0]
  /\ pc = [t \in Threads |-> "idle"]
  /\ seen = [t \in Threads |-> [tag |-> 0, ptr |-> 0]]
  /\ link = [t \in Threads |-> 0]
  /\ slot = [t \in Threads |-> 0]
  /\ want = [t \in Threads |-> 0]
  /\ steps = [t \in Threads |-> 0]
  /\ live = {}
  /\ solo = NoThread
  /\ age = [t \in Threads |-> 0]
  /\ list = [i \in Slots |-> i]

\* A thread whose compare-and-swap depends on the head it read.
Pending(t) == pc[t] \in {"alloc_next", "alloc_swap", "free_link", "free_swap"}

\* The bound on scheduling under which a tag cannot come round: no thread
\* stays between its read of the head and its swap through TagMod swaps.
InWindow(t) == \A u \in Threads \ {t} : Pending(u) => age[u] < TagMod - 1

Goto(t, to) == pc' = [pc EXCEPT ![t] = to]

\* The call returns and its locals die.
Leave(t) ==
  /\ Goto(t, "idle")
  /\ seen' = [seen EXCEPT ![t] = [tag |-> 0, ptr |-> 0]]
  /\ link' = [link EXCEPT ![t] = 0]
  /\ slot' = [slot EXCEPT ![t] = 0]
  /\ want' = [want EXCEPT ![t] = 0]
  /\ steps' = [steps EXCEPT ![t] = 0]
  /\ age' = [age EXCEPT ![t] = 0]

\* (Re)load free_head, as the first read and a failed swap both do.
LoadHead(t) ==
  /\ seen' = [seen EXCEPT ![t] = free_head]
  /\ age' = [age EXCEPT ![t] = 0]

\* A variant for checking: the tag stays as it is.
BumpNothing(tag) == tag

\* (uint16_t)(tag + 1)
Bump(tag) == (tag + 1) % TagMod

\* A successful swap of the head: the others' reads grow old.
Swap(t, to) ==
  /\ free_head = seen[t]
  /\ InWindow(t)
  /\ free_head' = [tag |-> Bump(seen[t].tag), ptr |-> to]

Aged(t) ==
  [u \in Threads |-> IF u # t /\ Pending(u) THEN age[u] + 1 ELSE 0]

-----------------------------------------------------------------------------
(* BitPool_alloc *)

AllocCall(t, type) ==
  /\ pc[t] = "idle" /\ solo = NoThread
  /\ free_head.ptr # 0
  /\ Goto(t, "alloc_next")
  /\ LoadHead(t)
  /\ want' = [want EXCEPT ![t] = type]
  /\ UNCHANGED <<free_head, next, type_id, link, slot, steps, live, solo, list>>

AllocNext(t) ==
  /\ pc[t] = "alloc_next"
  /\ Goto(t, "alloc_swap")
  /\ link' = [link EXCEPT ![t] = next[seen[t].ptr]]
  /\ UNCHANGED <<free_head, next, type_id, seen, slot, want, steps, live, solo, age, list>>

AllocSwap(t) ==
  /\ pc[t] = "alloc_swap"
  /\ Swap(t, link[t])
  /\ Goto(t, "stamp")
  /\ slot' = [slot EXCEPT ![t] = seen[t].ptr]
  /\ age' = Aged(t)
  /\ list' = SubSeq(list, 2, Len(list))
  /\ UNCHANGED <<next, type_id, seen, link, want, steps, live, solo>>

\* A failed swap, spurious ones included: it reloads the head and tries again
\* or finds the pool exhausted.
AllocMiss(t) ==
  /\ pc[t] = "alloc_swap"
  /\ IF free_head.ptr = 0
     THEN Leave(t)
     ELSE Goto(t, "alloc_next") /\ LoadHead(t) /\ UNCHANGED locals
  /\ UNCHANGED <<free_head, next, type_id, live, solo, list>>

\* The slot is exclusively the caller's: the stamp is a plain store.
Stamp(t) ==
  /\ pc[t] = "stamp"
  /\ type_id' = [type_id EXCEPT ![slot[t]] = want[t]]
  /\ live' = live \cup {slot[t]}
  /\ Leave(t)
  /\ UNCHANGED <<free_head, next, solo, list>>

-----------------------------------------------------------------------------
(* BitPool_free *)

\* A variant for checking: no scan for a slot that is stamped 0.
EnterTrusting(t, s) ==
  /\ slot' = [slot EXCEPT ![t] = s]
  /\ Goto(t, "clear")
  /\ UNCHANGED <<free_head, next, type_id, seen, link, want, steps, age, list>>

\* A slot that is stamped 0 may be free already: scan the list for it first.
Enter(t, s) ==
  /\ slot' = [slot EXCEPT ![t] = s]
  /\ IF type_id[s] = 0
     THEN /\ Goto(t, "scan")
          /\ link' = [link EXCEPT ![t] = free_head.ptr]
     ELSE /\ Goto(t, "clear")
          /\ UNCHANGED link
  /\ UNCHANGED <<free_head, next, type_id, seen, want, steps, age, list>>

FreeCall(t, s) ==
  /\ pc[t] = "idle" /\ solo = NoThread
  /\ s \in live
  /\ live' = live \ {s}
  /\ Enter(t, s)
  /\ UNCHANGED solo

\* The misuse the code answers for (bit.c:176): a second free of a slot, with
\* no other call under way.
DoubleFreeCall(t, s) ==
  /\ \A u \in Threads : pc[u] = "idle"
  /\ s \notin live
  /\ solo' = t
  /\ Enter(t, s)
  /\ UNCHANGED live

Scanning(t) == link[t] # 0 /\ steps[t] <= Capacity + 1

ScanStep(t) ==
  /\ pc[t] = "scan" /\ Scanning(t) /\ link[t] # slot[t]
  /\ link' = [link EXCEPT ![t] = next[link[t]]]
  /\ steps' = [steps EXCEPT ![t] = @ + 1]
  /\ UNCHANGED <<free_head, next, type_id, pc, seen, slot, want, live, solo, age, list>>

\* A variant for checking: the scan misses the slot and goes on.
ScanFoundButGoesOn(t) ==
  /\ pc[t] = "scan" /\ Scanning(t) /\ link[t] = slot[t]
  /\ Goto(t, "clear")
  /\ UNCHANGED <<free_head, next, type_id, seen, link, slot, want, steps, live, solo, age, list>>

\* Already on the list: the second free is refused.
ScanFound(t) ==
  /\ pc[t] = "scan" /\ Scanning(t) /\ link[t] = slot[t]
  /\ Leave(t)
  /\ solo' = NoThread
  /\ UNCHANGED <<free_head, next, type_id, live, list>>

ScanEnd(t) ==
  /\ pc[t] = "scan" /\ ~Scanning(t)
  /\ Goto(t, "clear")
  /\ UNCHANGED <<free_head, next, type_id, seen, link, slot, want, steps, live, solo, age, list>>

Clear(t) ==
  /\ pc[t] = "clear"
  /\ type_id' = [type_id EXCEPT ![slot[t]] = 0]
  /\ Goto(t, "free_link")
  /\ LoadHead(t)
  /\ UNCHANGED <<free_head, next, live, solo, list>>
  /\ UNCHANGED locals

FreeLink(t) ==
  /\ pc[t] = "free_link"
  /\ next' = [next EXCEPT ![slot[t]] = seen[t].ptr]
  /\ Goto(t, "free_swap")
  /\ UNCHANGED <<free_head, type_id, seen, live, solo, age, list>>
  /\ UNCHANGED locals

FreeSwap(t) ==
  /\ pc[t] = "free_swap"
  /\ Swap(t, slot[t])
  /\ Goto(t, "idle")
  /\ seen' = [seen EXCEPT ![t] = [tag |-> 0, ptr |-> 0]]
  /\ link' = [link EXCEPT ![t] = 0]
  /\ slot' = [slot EXCEPT ![t] = 0]
  /\ steps' = [steps EXCEPT ![t] = 0]
  /\ age' = Aged(t)
  /\ list' = <<slot[t]>> \o list
  /\ solo' = NoThread
  /\ UNCHANGED <<next, type_id, want, live>>

FreeMiss(t) ==
  /\ pc[t] = "free_swap"
  /\ Goto(t, "free_link")
  /\ LoadHead(t)
  /\ UNCHANGED <<free_head, next, type_id, live, solo, list>>
  /\ UNCHANGED locals

Next ==
  \E t \in Threads :
    \/ \E type \in TypeIds : AllocCall(t, type)
    \/ AllocNext(t) \/ AllocSwap(t) \/ AllocMiss(t) \/ Stamp(t)
    \/ \E s \in Slots : FreeCall(t, s) \/ DoubleFreeCall(t, s)
    \/ ScanStep(t) \/ ScanFound(t) \/ ScanEnd(t)
    \/ Clear(t) \/ FreeLink(t) \/ FreeSwap(t) \/ FreeMiss(t)

Spec == Init /\ [][Next]_vars

-----------------------------------------------------------------------------
Freeing == {"scan", "clear", "free_link", "free_swap"}
PCs == {"idle", "alloc_next", "alloc_swap", "stamp"} \cup Freeing

\* The values the variables take.
TypeOK ==
  /\ free_head \in Packed
  /\ next \in [Slots -> Address]
  /\ type_id \in [Slots -> TypeIds]
  /\ pc \in [Threads -> PCs]
  /\ seen \in [Threads -> Packed]
  /\ link \in [Threads -> Address]
  /\ slot \in [Threads -> Address]
  /\ want \in [Threads -> TypeIds]
  /\ steps \in [Threads -> 0 .. Capacity + 2]
  /\ live \subseteq Slots
  /\ solo \in Threads \cup {NoThread}
  /\ age \in [Threads -> 0 .. TagMod - 1]
  /\ list \in Seq(Slots)

FreeSlots == {list[i] : i \in DOMAIN list}

\* The slot a call has taken from the list or from its caller.
Held(t) == IF pc[t] \in {"stamp"} \cup Freeing /\ solo # t THEN {slot[t]} ELSE {}

\* Every slot is in exactly one place: free, held by callers, or in the hands of
\* one call.  No slot is handed out twice, none leaks.
Conservation ==
  /\ \A i, j \in DOMAIN list : list[i] = list[j] => i = j
  /\ FreeSlots \cap live = {}
  /\ \A t \in Threads : Held(t) \cap (FreeSlots \cup live) = {}
  /\ \A t, u \in Threads : t # u => Held(t) \cap Held(u) = {}
  /\ Slots = FreeSlots \cup live \cup UNION {Held(t) : t \in Threads}

\* The words in the arena link the free slots in order, and end: neither a
\* stale link nor a cycle is ever reachable from the head.
ListIsLinked ==
  /\ free_head.ptr = IF list = <<>> THEN 0 ELSE list[1]
  /\ \A i \in DOMAIN list :
       next[list[i]] = IF i = Len(list) THEN 0 ELSE list[i + 1]

\* The pool between any two steps: its types, the slots in one place each, and
\* a list that holds exactly the free ones.
PoolInv == TypeOK /\ Conservation /\ ListIsLinked

\* What the tag is for: a swap that succeeds finds the list as its thread read
\* it, so the link it installs is still the link of the slot it pops.
NoABA ==
  \A t \in Threads : Pending(t) /\ free_head = seen[t] =>
    /\ age[t] = 0
    /\ pc[t] = "alloc_swap" => link[t] = next[seen[t].ptr]

\* What a call has read and taken is there while it uses it.
CallsInPlace ==
  \A t \in Threads :
    /\ pc[t] \in {"alloc_next", "alloc_swap"} => seen[t].ptr # 0
    /\ pc[t] \in {"stamp"} \cup Freeing => slot[t] # 0
    /\ pc[t] = "free_swap" => next[slot[t]] = seen[t].ptr
    /\ pc[t] = "idle" => steps[t] = 0

\* A free slot is stamped 0, so that a second free of it goes looking for it.
FreeIsUnstamped ==
  /\ \A s \in FreeSlots : type_id[s] = 0
  /\ \A t \in Threads : pc[t] \in {"free_link", "free_swap"} => type_id[slot[t]] = 0

\* The tag is ahead of the one a thread read by the swaps there were since.  Where
\* there was none, the head and the first link are as they were read.
TagCountsSwaps ==
  \A t \in Threads : Pending(t) =>
    /\ seen[t].tag + age[t] \in {free_head.tag, free_head.tag + TagMod}
    /\ age[t] = 0 => /\ seen[t] = free_head
                     /\ pc[t] = "alloc_swap" => link[t] = next[seen[t].ptr]

\* The scan of a second free has not passed the slot, and nobody moves the list.
SecondFreeWillFind ==
  solo # NoThread =>
    /\ pc[solo] = "scan"
    /\ \A u \in Threads \ {solo} : pc[u] = "idle"
    /\ \E j, k \in DOMAIN list :
         j <= k /\ list[k] = slot[solo] /\ link[solo] = list[j] /\ steps[solo] = j - 1

\* The scan of a first free runs through a list that others change under it, along
\* links of slots that have left it, and never comes to the slot: there are slots
\* without it, the free ones among them, that no link leads out of, nor one that a
\* call is about to write.
Enclosed(t, S) ==
  /\ FreeSlots \subseteq S
  /\ link[t] \in S \cup {0}
  /\ \A s \in S : next[s] \in S \cup {0}
  /\ \A u \in Threads : pc[u] = "free_link" /\ slot[u] \in S => seen[u].ptr \in S \cup {0}
FirstFreeWillMiss ==
  \A t \in Threads : pc[t] = "scan" /\ solo # t =>
    \E S \in SUBSET (Slots \ {slot[t]}) : Enclosed(t, S)

\* What each step preserves.
BitInv ==
  /\ PoolInv
  /\ CallsInPlace
  /\ FreeIsUnstamped
  /\ TagCountsSwaps
  /\ SecondFreeWillFind
  /\ FirstFreeWillMiss

\* A double free with no other call under way changes nothing.
DoubleFreeIsRefused ==
  [][solo # NoThread => UNCHANGED <<free_head, next, type_id, live>>]_vars
=============================================================================
