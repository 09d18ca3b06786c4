# Vexspoke in TLA+

Vexspoke is the CPU computation and behaviour library of the Vexgraph
ecosystem: about 28,000 lines of C23 in `src/src`, beside headers, tests and
platform bindings. Its core is what threads share: the lock, the ring, the slot
pool, the thread registry, the worker engine, the reactive cells and the thread
that delivers them, the deferred mailbox, the chunked list and the future. Around
it stand a websocket client, an HTTP client and server, the input of keys,
pointers and windows, and a large body of sequential code: containers, sorts,
spatial indices, parsers, digests and ciphers, and geometry.

The concurrent core is modelled step by step, checked, and its safety is proved
for all values of the constants. The sequential code is modelled as operators
that TLC compares with reference definitions over sample inputs, or as small
state machines where it keeps state. `PROJECT.json` lists every part of the
repository, modelled or not, the source lines of every definition, and the
hazards, each at its line.

## The system's parts

| part | state | operations | hard because |
|---|---|---|---|
| spin lock `atomic/spin.c` | one word | lock, tryLock, tryLockTimeout, unlock | the owner test of unlock is a load, then a store; tickets may collide |
| ring `atomic/ring.c` | head, tail, slots, a spin lock | push, pop | check, copy and publish are separate steps; counters wrap; early returns |
| registry `atomic/registry.c` | a table of thread ids, roles | index, setRole, role | threads whose ids fall on one slot race for it; ids are reused |
| bit pool `bit/bit.c` | a tagged head, a next word and a type stamp per slot | alloc, free | lock-free retry loops, ABA, a wrapping tag, a racy double-free scan |
| worker engine `thread/thread.c` | state, platformStarted, a ring, the loop | run, stop, free, submit | submit and stop race; the join; what a stop leaves in the ring |
| reactive cell `reactive/reactive.c` | value, dirty, shadow, delivery hook | store, drain, bind | the mark and the word move apart; observers store again |
| delivery thread `thread/reactive.c` | s_core, s_queued, the worker's ring | start, stop, rerun, shutdown, wake, adopt, release | queue-once over a lock, a ring and a map that disagree for moments |
| dispatch `deferred/dispatch.c` | two buffers, count, draining, a spin lock | post, drain, free | buffers swap under re-entrant posts and drains; a try-lock that may lose |
| future `objects/future.c` | isGiven, value | setDesiredValue, isGiven, get | the flag publishes the payload |
| chunked list `struct/chunked_list.c` | roots, inner nodes, leaves, committed rows | add, reserve, resolve, visit, free | readers descend without a lock while the root is replaced; refused memory |
| hash map `struct/map.c` | slots with states, activeCount | put, get, containsKey, remove, rehash | tombstones, wrapping probes, the load test, a refused rehash |
| other containers `struct/`, `objects/`, `algo/segment_index.c` | a buffer and its counts | add, remove, grow, query | wrap-around, growth, refused memory, the last element moved into a hole |
| input `input/*.c` | slots, event rings, listener rows, gesture slots | push, dispatch, resolve, attach | events and live state move apart; rows move while they are walked |
| websocket `net/websocket.c` | state, transport, partial message | open, poll, write, close | a peer that fragments, closes, stalls or breaks at any point |
| http `net/http.c` | a stream, a body, an accept thread | get, post, server start and stop | pieces of any size, chunks, cut streams, a stop during an accept |
| loop and clocks `engine/loop.c`, `time/*.c` | running, accumulator, scale, anchors | run, stop, tick, setScale, pause | a stop inside a pass; dropped backlog; truncation |
| edge parts (turntable, gesture, piano, driver hub, downloads, vex source, key store, random source, compute pool) | small records | see `Periphery` | the system refuses at any step |
| algorithms (sorts, regex, search, calc, Dijkstra, trees) | none | pure | boundaries, ties, fixed queues and stacks |
| json, png, url, text, dates, encodings | none or a caller's buffer | parse, write | buffers that are full to the last byte, wrapped lengths |
| security (digests, HMAC, HKDF, AEAD, Argon2, passwords, TOTP) | a block buffer, a state | update, final, seal, open, verify | block boundaries, order of checks, replayed codes |
| geometry (matrices, vectors, points, frames, rectangles) | caller's memory | pure, in place | a destination that is also a source |

How they meet: the ring and the mailbox each embed a spin lock; a worker owns a
ring; the delivery thread owns a worker, a map of what is queued and a spin lock
over it, and is called from the hook at the end of every `Reactive_store`; the
chunked list takes its gate with `tryLockTimeout`; the input modules push to
rings that a dispatch drains; the vex source polls a websocket and borrows its
buffer.

## Modules

| module | models | how |
|---|---|---|
| `SpinLock` | `atomic/spin.c` | one step per access of the word; extended by the modules whose code embeds the lock |
| `BoundedFifo` | what a ring promises | abstract: append, take the first, refuse when full or empty |
| `RingBuffer` | `atomic/ring.c` | push and pop, one step per load, copy, store and lock access |
| `Registry` | `atomic/registry.c` | one step per look at a slot and per compare-and-swap; threads end and ids come again |
| `BitPool` | `bit/bit.c` | alloc and free, one step per atomic access; auxiliary: the free slots in order and the age of every pending compare-and-swap |
| `WorkerThread` | `thread/thread.c` | one handle: a controller, submitters and up to `MaxSpawns` platform threads |
| `Reactive`, `ReactiveThread` | `reactive/reactive.c`, `thread/reactive.c` | store and drain with callbacks that may store; queue-once, the job, the life of the shared worker |
| `Mailbox` | what a dispatch promises | abstract: accept, take all that is pending, deliver one by one |
| `Dispatch` | `deferred/dispatch.c` | extends `SpinLock`; the two buffers, handlers that post, drain and free |
| `Future` | `objects/future.c` | the flag and the payload, one step each |
| `Dictionary`, `HashMap` | `struct/map.c` | abstract: a function and the call under way, which changes its own key and nothing else; a put is called, probes slot by slot and returns, a removal is called and returns, lookups are operators |
| `RowList`, `ChunkedList` | `struct/chunked_list.c` | abstract: rows that only grow and never move; one step per access that another thread can see |
| `MessageChannel`, `WebSocket` | `net/websocket.c` after the upgrade | abstract: whole messages in order; one step per call or frame, the peer as an environment |
| `Handshake` | `net/websocket.c` before it | URL, addresses, request, answer |
| `Lists` | list, stack, array, deque, queue, values by thread id; the observers of one reactive box, the bindings of a key map, the records of `reflection/` | state machines |
| `Sets` | hash set, sparse set, heap, segment index | state machines |
| `Input` | keys, the key map, mouse, touch, listener registries | pump and game loop, on one thread or two |
| `Timing` | the engine loop, the scaled clock, the timer | state machine |
| `Http` | client and micro server | a stream that comes in pieces |
| `Periphery` | the parts at the edge | one state machine of several kinds |
| `Sort`, `Spatial`, `Regex`, `Text`, `Json` | sorts and random choice; octree, k-d tree, BVH, round arrays, Dijkstra and its graphs, syntax tree; regular expressions; strings, exceptions, search, ranking, calc, dates, encodings, TOTP, URLs; JSON | operators and references |
| `Png`, `Digest`, `Secrets`, `Geometry` | image decoding; digests fed in pieces; HMAC to passwords; matrices, vectors, points, frames, in place or not | operators and references |
| `NumberProofs`, `SpinLockProofs`, `HandoffProofs`, `BitPoolProofs`, `ReactiveProofs`, `NetProofs`, `ChunkedListProofs`, `PartsProofs` | | theorems |
| `MCHandoff`, `MCContainers`, `MCParts`, `MCAlgorithms`, `MCChunkedList` | | compositions and values for TLC |

Variables carry the names of the fields they stand for (`head`, `tail`,
`free_head`, `dirty`, `shadow`, `s_queued` as `queued`); a program counter per
thread stands for the position in the call. Actions are named for the call and
the step in it: `PushLoad`, `PushCopy` and `PushStore` are three stretches of
`RingBuffer_push`. Definitions whose comment begins "A variant for checking" are
faulty forms of the next definition, which show that a property can fail; no
specification uses them.

What the actions abstract: payloads are model values; thread ids are numbers of
which a ticket keeps some; memory is sequentially consistent, one step per
atomic access, except where plain accesses race (`Input` with *racing*, `Future`),
where the outcomes are chosen freely. A failed weak compare-and-swap and a
failed spin are left to stutter when they change nothing. Logging, error texts
and formatting are left out unless a property is about them.

Composition by grain: `RingBuffer` implements `BoundedFifo` (proved), so
`WorkerThread`, `ReactiveThread` and the input rings make a push or a pop one
step. `ReactiveThread` likewise makes a section under `s_lock` one step.
`RingBuffer`, `Dispatch` and `ChunkedList` extend `SpinLock` and take its steps
themselves. The MC compositions put parts that share nothing side by side: the
initial state picks one, the others keep their initial values, so that the run
explores each in full without their product.

## Runs

`tlc -workers 2 -config <cfg> <module>`; each finishes in less than three minutes.

**handoff** (`MCHandoff`), work handed from thread to thread, in one of four ways.

- *ring*: three threads, capacity 2, counters modulo 4, two threads with one
  ticket. Capacity 2 gives full, half full and empty rings, and counters that
  wrap at twice the capacity, the smallest modulus at which full and empty still
  differ, go round several times. *RingInv*: a thread in its critical section owns
  the lock, its register is still the shared counter, the distance of the
  counters never exceeds the capacity. *ImplementsFifo*: read by its counters the
  slots are a bounded queue, every refusal exact at the moment it was decided.
  *LockReleased*: the lock comes free every time.
- *worker*: two submitters, three tasks, a ring of two, three spawns, core and
  ordinary handles, with and without idle ticks. Three spawns show a run after a
  stop twice. *WorkerInv*: one loop at a time, known to the controller.
  *QuietWhenStopped*, *AcceptedInOrder*; *QueuedIsRun*: a task in the ring of a
  worker that stays up is run.
- *mailbox*: one poster, two drainers whose handlers post, drain and free, four
  posts, buffers that grow from 1 to 2 (8 and on in the code), so that both
  buffers grow and a growth is refused. *DispatchInv*: one drain, its batch
  apart from the posts, true answers, no use after free.
  *ImplementsMailbox*, *AcceptedIsDelivered*.
- *registry*: three ids that all fall on one slot of three, the worst case of
  the probe, in a table that fills up. *SlotsAreOwned*.

*CallsReturn*: a stop returns, and so does a search for a slot while there are no
more ids than slots.

**containers** (`MCContainers`). The *pool*: three threads, two slots, five tags,
symmetric, type ids 0 and 1, of which 0 is the stamp of a freed slot. Two slots
suffice for ABA: one is popped, the other is popped, the first comes back.
*PoolInv*, *NoABA*, *DoubleFreeIsRefused* (a free of a free slot with nobody else
calling; the comment at `bit/bit.c:176-180` promises no more). The window of the
tag is a bound on scheduling (`InWindow`): no thread sleeps between its read of
the head and its swap through `TagMod - 1` swaps by others, four here and 65,535
in the code; with one more the tag would be the same again.
*ContainersKeepTheirWord* for the others (a state of the run is one of these parts
at work, 1.2 million in all, most of them of the box and the pool): lists, stacks
and arrays of capacity 2 to 4 with values too wide for a slot; a deque and a queue
that wrap and double from 2 to 4; tables by thread id that double from 2 to 8 for
ids 0, 1, 3 and 4; a hash set of 4 to 8 slots with elements that are equal by
content, by bits or not; a sparse set of 4 entities with 3 places; a heap of 5; a
segment index of two entries with names of up to four segments and one refused
allocation; a *box*, one reactive cell with two observers that register,
unregister, store, load and drain it while they are called (symmetric; three
registrations in a list that grows from 1 to 2, two stores, calls nested two
deep), so that a list is compacted under a walk and a walk meets the hole that an
unregistering observer left; a *key map*, whose table of bindings doubles from 1
to 4 while the last binding moves into the place of one that is unbound; a
*record* of `reflection/`, with its list of fields or methods, edited up to six
times, rows and lists refused among them; and the parts at the edge (2 hot cues,
playheads up to 3, 3 notes, two drivers, 4 random draws at most 2 at a time, 3
workers for 2 places, 3 buffers), whose system refuses at any step.

**reactive** (`MCReactiveThread`). Two boxes, two writers and the owner's
callbacks, three stores, a ring of one so that a wake is refused, one stop with
a rerun, one start, one box that may be adopted and released. Three stores are
what a lost update takes: one to queue the box, one during its drain, one from a
callback. *ObserversSawTheWord*: a box that is clean, with no store or drain of it
under way, has told its observers its word. *ReactiveInv*: a box that is not
released is in one hand at most. *StoreIsDelivered*: a dirty box becomes clean
while the worker runs and no wake was refused. *QueuedIsDrained*.

**chunked** (`MCChunkedList`). Two writers append and reserve up to 5 rows while a
reader walks; radix 2, a first root of one slot, so that the root is replaced
several times and a path has an inner level; orders that give chunks of one row
and of several, and constructor arguments that are clamped; a gate with no
budget and one that can wait. *ReadersSeeWholeRows*: whatever count a reader has
seen, its rows resolve through any root it may hold. *FreeReachesAll*: every
object is below the root exactly once, also what failed calls left.
*ImplementsRowList*, *WritersReturn*.

**websocket** (`MCWebSocket`). Three frames of the peer on a connection (a
fragment, a control frame between and the end), two in flight, messages of up to
two parts, text that is valid across a fragment boundary or not, payloads cut off;
the caller writes until two frames are out on a connection, and polls, closes and
opens again without bound. It writes and closes in any state, as
`VexWsSource_send` does (`vex_ws_source.c:148`); the code asks only for a
transport, and a close frame on a connection that has failed or was closed makes
it CLOSING again (`websocket.c:1024`). What is read then in the middle of a frame may be
anything (`amiss = "up"`). *ImplementsChannel* holds up to there and again from the next
open. *CloseIsLast*: while the connection is open no close and no part of a frame
has gone out, so a caller that does ask isOpen writes nothing after those; and
whatever the caller does, the client by itself answers no ping after its close
or part of a frame, unless it was brought up again. *HoldsWhatItNeeds*,
*CloseIsNoticed*.

**parts** (`MCParts`), parts that share nothing, one at a time.

- *map*: five keys with the hashes 3, 3, 0, 1, 7, tables of 4 and 8: two keys
  collide in the last slot, so probes wrap, one collides before the rehash only,
  and a rehash may be refused. *ImplementsDictionary*: the call is part of what is
  mapped, so a put that stored to another key or another value, or a rehash that
  lost an entry, would be no step of the dictionary.
- *keys*: a key and its modifier, bindings to a tap, a double tap, a hold and a
  modified tap, windows of 2 ticks, 4 ticks in all, three pushes, of which up to
  two race with a resolve. *GesturesAreCounted*, *InputIsHeard*.
- *pointer*: one button or one contact, a ring of two, four events, coordinates
  outside 16 bits. *routing*: two listeners and two windows, tables that grow
  from one, three changes (`MaxChanges`), made while a delivery walks them.
  *RegistrationsAreCalled*.
- *time*: frames of 2 ms, ten milliseconds, scales of a half, one and two, two
  changes of the settings. *TimeIsCounted*.
- *http*: a buffer of 3 and answers of 2, 3 and 4, chunked and plain, a server's
  box of 2 and requests of 0, 2 and 3, two clients, whole and cut, with lines that
  are too long. A size_t has 8 values (`SizeValues`, 2^64 in the code), and one answer
  announces a chunk of 6 after one of 2, whose sum wraps and passes the test of
  `http.c:287`. *ExchangesAreWhole* speaks of the answers that announce nothing so
  long (`Modest`).

*WhatBeginsEnds*: a put in a table with an empty slot, the taps of a bound key, a
stopped loop, a request and the stop of a server come to an end.

**algorithms** (`MCAlgorithms`). Sample inputs, drawn in the first step of a
behaviour, tens of thousands of them, each against a reference.

- *SearchesAgree*: octrees, k-d trees and BVHs with points on their faces; every
  graph of three nodes with four weights, built edge by edge in memory that runs
  out at different places, and Dijkstra's search in it; weighted draws; round
  arrays; syntax trees.
- *SortsAgree*: every array of up to five keys, every sort, partition and search.
- *JsonWritesAndReads*: symbols in place of bytes, depth 2, buffers of every size.
- *TextsAreReadAsWritten*: patterns of up to three nodes (at most three repeats and
  fourteen instructions) against a backtracking reference; SQL patterns of up to
  three signs; Spotlight's scores and ranks, with 2 characters of a query and 4 of
  a text kept (63 and 127); formulas; strings and their blocks with a word of 16,
  exceptions, URLs, and the handshake with 4-byte hosts, 3-byte paths, heads of 18
  words.
- *ConversionsAreExact*: dates around zero with small units, encodings and
  hexadecimal digits, bytes drawn from a generator, TOTP over a history of codes,
  PNG rows with bytes modulo 8 and images of up to 8 pixels, digests with blocks
  of 4 fed in two cuts, HMAC, HKDF, sealed messages, Argon2 (4 sync points,
  segments of 2 and 3, up to 3 lanes and passes), password records and otpauth
  links, matrices, vectors, points and rectangles over integers, each operation
  also into its own operand.

The bounds are the smallest at which each boundary of the code lies inside: a
block that is exactly full and one byte over, a buffer one short, a unit that
borrows, a median among equals.

Five runs show where the code does not do what its documentation says
(`PROJECT.json` quotes the lines):

- **reactive_restart**: `ReactiveThread_shutdown` leaves `s_queued` as it is. A box
  that was waiting is taken for queued after the next start, and no store to it
  is delivered any more.
- **future**: `Future_setDesiredValue` sets the flag before it stores the payload.
- **map_put**: once tombstones have used up the empty slots, `Map_put` of an absent
  key never returns.
- **json**: a decoded string that fills the scratch buffer, or all but one byte of
  it, is not terminated.
- **dijkstra**: a push on the full queue is dropped after `dist` and `prev` were set,
  so a reachable goal is answered as unreachable.

### Fairness

Weak fairness, but for one step, and only of steps that a thread takes once it is
inside a call or its loop: the code's threads are platform threads that the
scheduler does not suspend for ever. No call has to be made, with two exceptions
that are the owner's part of a contract: the consumer of a mailbox goes on
draining (*AcceptedIsDelivered*), and the caller of a websocket goes on polling
with a budget (*CloseIsNoticed*). `WebSocket_poll` tests its deadline before it
looks at the socket, so a budget of 0 never reads a frame; the steps that read one
are strongly fair (`SF_vars(Consume)`), for a caller whose budgets are not all up
by then. The spin of a lock is not fair to one thread (the code has no queue), so
*LockReleased* says that the lock comes free, not that a given thread gets it;
*WritersReturn* rests on the deadline of the gate instead. In the composed runs
fairness is that of the part at work.

### Deadlock

`CHECK_DEADLOCK FALSE` where the system really may stop: a freed handle or
mailbox, a worker after the last shutdown, a future whose callers have
returned, samples that were drawn, a stopped server, bounds that are used up.
The chunked list is checked for deadlock.

## Proofs

Eight modules, all checked by `tlapm` with no step left open. The theorems hold
for every value of the constants that satisfies the named assumptions, which
TLC evaluates in the runs. Each argument has the same shape: the initial states
satisfy an inductive invariant, one lemma per action (or per conjunct) says that
a step keeps it, and the temporal step combines them.

**`SpinLockProofs`.** *SpinLockExcludes*: `LockSpec => []LockInv`. The invariant adds
to mutual exclusion that the word is the ticket of the owner, which is what makes
the compare-and-swap and the owner test of unlock mean anything.
*UnlockFailsClosed*: a word that becomes 0 was freed by its owner. Assumed
(`LockAssumption`): threads that unlock what they do not own share their ticket
with nobody.

**`HandoffProofs`, the ring.** *RingInvariant*, *RingTypeCorrect*,
*RingMutualExclusion*: a thread in a critical step owns the lock and only owners
move the counters; therefore the register loaded at the start of the section is
still the counter at its end. *RingImplementsFifo*: `Spec => ImplementsFifo`.
RingInv alone does not map steps to steps: a full ring and an empty one have the
same slots, and a store at `tail % Capacity` must be shown to touch no slot
between head and tail. The lemmas on remainders show that a counter that wraps
modulo `IndexMod` falls on the slot it would have fallen on without the wrap,
because `Capacity` divides `IndexMod` (`RingAssumption`; in the code capacities
are powers of two), and that places less than a capacity apart have different
slots. `ItemsAreKept` adds what a call carries between its copy and its store.

**`HandoffProofs`, the registry.** *SlotsStayOwned*. The strengthening
`ProbesComeAcross` says that between the home slot of an id and its own, every
slot is taken by another; it holds because slots are never released, and it is why
a thread that finds an empty slot has none already. Any ids and table size, a full
table included.

**`HandoffProofs`, the worker.** *WorkerInvariant*, *StoppedIsQuiet*,
*AcceptedStayInOrder*. `ControlKnows` ties the live loop to the controller's place
in its call: a loop lives on from its creation to the join of a stop, and
`platformStarted` covers it.

**`HandoffProofs`, the mailbox.** *MailboxInvariant*: the invariant says who is in
the lock, that `draining` is up exactly during one drain, that the batch under way
and the posts lie in different buffers, and that every posted item is in one
place. *MailboxImplements*: with it every step is a post, a take, a delivery or a
stutter of `Mailbox`: the write of an item is its post, the swap the take.

**`BitPoolProofs`.** *PoolInvariant* (`PoolInv`), *NoSwapIsStale* (`NoABA`),
*SecondFreeIsRefused* (`DoubleFreeIsRefused`), for any threads, capacity, tag range
of at least two and type ids with 0 among them. What `BitInv` adds and why:

- `TagCountsSwaps`: the tag of the head is the tag a thread read plus the swaps
  since; inside the window equal tags mean no swap, so a head that compares equal
  is the head that was read. This is the whole of the argument against ABA.
- `CallsInPlace`: what a call has read and taken is there while it uses it.
- `FreeIsUnstamped`: a free slot is stamped 0, so a second free scans for it.
- `SecondFreeWillFind`: the scan of a second free is at the j-th slot of the list
  after j - 1 steps, and its slot lies at or behind the j-th; the bound of the
  scan is never met because the list is no longer than the arena.
- `FirstFreeWillMiss`: the scan of a *first* free of a slot that was stamped 0
  walks a list that others change under it, along links of slots that have left
  it. It must not come to its own slot, or the slot leaks. There is a set of
  slots without it, the free ones among them, that no link leads out of, nor one
  that a call is about to write; without that last clause a write of a link could
  open the set.

**`ReactiveProofs`.** *ObserversConverge*: `DrainIsCurrent` says that what a drain
holds is the word of its box, or that a mark or a store under way will make it
come back. *BoxesAreQueuedOnce*: `OneHand` says that a queued box is in exactly
one of the ring, a wake that has not returned, and the worker between its pop and
its removal from `s_queued`; the sum over those hands is what the code keeps
in three places that disagree for moments.

**`NetProofs`, websocket.** *NeedsAreHeld*, *CloseStaysLast* (`Spec =>
[]CloseIsLast`) and *MessagesComeWhole* (`Spec => ImplementsChannel`), for every
caller, and for any number of frames, writes and reopenings. A write after a
failure sends on, and a close frame after a failure brings a connection up again
whose stream is broken: the channel then goes on adrift (`GoOn`, `Adrift`) until
the next open. The refinement rests, up to there, on `InStep`: there are functions
on the frames in flight, the message under way and the number of messages
completed after each, that begin with the client's state and end with the peer's.
Reading a frame shifts them by one; the client's `messageOpcode` and buffer
therefore always are the peer's message as it was when it sent the frame read
last, which is what makes a delivered message the oldest one completed, for any
number of frames in flight.

**`NetProofs`, http.** *BodiesArriveWhole* (`HttpSpec => []ExchangesAreWhole`) for
any answers, lengths of requests, boxes and number of clients (`HttpAssumption`: a
chunk is not empty, for an empty one ends the body, and sizes are values of a
size_t). What the property says of a body is under the condition `Modest`: with it
the sum of `http.c:287` is below `SizeValues`, the remainder is the sum itself,
and the test means what it says. `HttpInv` says, for each place the call can be
in, what is still to come: what has arrived and what is under way (`Due`) is the
beginning of what the peer has left to send after what has been read, and all of
it while nothing broke (`Coming`). The network moves what is in `Due` and a peer
that closes cuts its end, so neither disturbs it, whenever they run; each read
takes as much off the front of `Due` as it adds to the body. The content of an
answer and its chunks on the wire are recursive functions of the sizes, and what
is left of them after k chunks follows from their equations (`NumberProofs`). For
the server, each call of the handler is true when it is made (`TrueCalls`), calls
and the one in hand are the connections, and the loop is off once a stop has
returned. A head with a line that is too long or late is excepted in the property
and not assumed away: the call goes on, and the invariant keeps what holds of the
boxes there.

**`ChunkedListProofs`.** *ListIsSound* (`ListInv`), *ReadersNeedNoLock*
(*ReadersSeeWholeRows*), *ListImplementsRowList* (`Spec => ImplementsRowList`) and
*FreeLosesNothing* (*FreeReachesAll*), for any number of readers and writers,
any fanout and any rows, and with memory refused at any allocation. A row is
found by its way: the directory entries from a root to a leaf. The invariant says
that a node that once hangs in the tree keeps its entries for good, so that the
way to a committed row never changes, and that the way from an older root is the
same but for the levels that were put on top of it. That is why a reader who
loaded the root before a growth still comes to the row that he asked for, and why
he may do so without the gate. Committed never runs ahead of what has been
linked, and each node hangs in one place only, which is what free walks.

**`PartsProofs`, the hash map.** *MapIsSound*, *KeysAreReachable*,
*SizeCountsKeys* and *MapImplementsDictionary* (`Spec => ImplementsDictionary`),
for any keys, values, hash and capacities (`HashMapAssumption`). `MapInv` says
that a key is in one slot at most, that no slot before it on its probe sequence is
empty (tombstones keep it so), that a put under way has passed neither an empty
slot nor its own key, and that the tombstone it remembers lies on its way. The
step that returns then changes what is found for the key of the call, to the value
of the call, and every other step nothing. A rehash is the recursive function over
the old slots, shown by induction to keep every entry; that it finds a free slot
each time is a counting argument, since fewer entries than slots have been placed.
Not proved, because it is not true: that a put in a full table returns (`map_put`,
below).

**`PartsProofs`, loop and clocks.** *TimeAddsUp* (`TimingSpec => []TimeIsCounted`),
for any positive frame (`TimingAssumption`) and any scales. The ticks and the
accumulator are the time that has passed since the loop began unless backlog was
dropped, a stop is followed by one tick at most, and a clock is behind the exact
product of time and scale by less than a unit for each scan.

**`PartsProofs`, listeners.** *RegistrationsReachTheirListeners* (`RouteSpec =>
[]RegistrationsAreCalled`), for any listeners, windows and first sizes
(`RouteAssumption`). `RegistriesOK` says that no two lists share a segment, except
those of one window in tables that a growth has left behind. `PassOK` says where
the pointer of a delivery leads, which may be such a table, and that the table is
the current one unless `moved`. `Served` says of each scope: as long as nobody
was unregistered, the list the loop walks is a beginning of the list there is now
and not shorter than when the delivery began; those in front of the loop's index
were called, once for each place; scopes behind the delivery were called to the
length they had, the others not at all. Without the claim about old tables the
invariant is not inductive: an attach during a call moves the table under the loop.

**`PartsProofs`, keys.** *InputReachesTheListeners* and *GesturesFireAsPressed*
(`KeySpec /\ PointerSpec => []InputIsHeard`, and `[]GesturesAreCounted`), for any
bindings, windows, capacities and times (`KeyAssumption`); the two halves of each
share no variable. For the keys, `ListenersWillKnow` says that the last event of a
key in the ring, or what the listeners know already if it has none there, is the
state of its slot, unless the pump is between its stores and its push or the ring
refused the event; this holds whoever stores in what order, so a resolve that
runs between the pump's stores is in it. The claim about gestures is for one
thread, as with two it is false (below). It is proved by an account: what a key
has fired, what its slot may still fire (`Credit`: its taps are one gesture, a hold
another unless it is the only tap) and the press being stored are together no
more than its presses. A resolve scans, then declines, then takes, and other
bindings are declined in between: `Reserved` says that the gesture it has found
stays paid for.

**`PartsProofs`, buttons, motions and touches.** The other half of the two theorems,
under `PointerAssumption`: buttons below `BUTTON_COUNT`, contacts below `TOUCH_MAX`,
modifiers of four bits. The range of the button is checked by
`Mouse_pushButtonEvent`; `Mouse_pushDragEvent` does not check it, and there it is a
promise of the pump. Lemmas on quotients and remainders say that a packed word,
taken apart, is the event: no button and modifier make the low half look like a
marker, no field runs into the next, a scroll beyond 16 bits arrives at the end of
the range and another coordinate wrapped. Then the ring and the list of what was
meant run in step (`Truthful`), `WillBeKnown` says of a button or contact what
`ListenersWillKnow` says of a key, and `ClicksInOrder` adds to the count of clicks that
a button once pressed remembers the modifiers of its last press.

**`NumberProofs`.** The library states induction with a theorem whose parameter
is an operator, which the installed provers cannot instantiate. `NumberProofs`
takes a set of numbers instead: a set without a least element is empty, hence
induction, hence recursion: a function defined by recursion on the numbers
satisfies its equation. Everything above that counts or folds uses it.

What stays with TLC, and why:

- every liveness property: fairness and `ENABLED` are beyond the prover;
- everything in `MCAlgorithms`: these are `RECURSIVE` operators, which switch the SMT
  backend off, and folds of the community modules, about which no theorem can be
  stated without an operator parameter;
- *ContainersKeepTheirWord* (a conjunction over a dozen small machines).

The inductive invariants that are not themselves run properties (`BitInv`,
`RegistryInv`, `CellsInv`, `OneHand`, `ItemsAreKept`, `MapInv`, `TimeInv`,
`RouteInv`, `KeyInv`, `PointerInv`, and `InStep` with its functions computed) were
checked with TLC on the instances of the runs or larger ones before they were
relied on: the pool with three slots and three tags, the websocket with three
frames in flight, the listeners with four changes. In `MapInv` the places of a
probe were bounded by twice the capacity for that.

## What the code does that a reader may not expect

Met while modelling; the models follow the code. None is behind a run of its own.

Concurrency and lifetimes

- `thread/reactive.c:87`: `ReactiveThread_core` creates the shared worker without a
  lock; two first calls at once may create two. `:128-135`: a second waker is told
  true although the first then rolls the box back.
- `reactive.c:316-317` takes a drain from inside a callback for a no-op; but onSet is
  called before the shadow is latched, so an onSet callback that stores and drains
  lets the inner drain tell onChanged first and the outer one latch the older
  value, on a cell that is clean. `Reactive` has no nested drains; the box in
  `Lists` has, and its invariant says that only a drain under an onSet observer
  leaves a shadow that is not the word of a clean box.
- `atomic/registry.c`: slots are never released; after 256 different ids a new
  thread probes for ever; a reused id inherits the slot and the role.
- `Loop_run` sets running itself, so an earlier stop is lost; what is beyond four
  steps is dropped. `clock.c` cuts each scaled interval to whole milliseconds.
- `SystemDiscovery_bootstrap` sets `s_bootstrapped` before its data is there.
- `ComputeThread_start` after a stop leaves the workers stopped and answers true.
- `objects/local.c` makes no promise about threads.
- `Struct_init` and `Class_init` on a record in use lose the list it had.
  `Field_setTypeId` keeps a size that an earlier type gave.

Input

- `key.c`: a delivery goes on through the row it read although an attach may have
  moved the table (comment near `key.c:184`); a removal moves the last listener into
  the hole and the delivery skips it, although `input/key.h:194` says global taps get
  every event. Rhythm mode merges several presses between two polls into one tap;
  on two threads a hold can fire twice, or a tap and a hold.
- `touch.c` dispatches with the live position. A drag packs its button unmasked.
- Turntable: a scratch back past the start leaves a negative playhead until the
  next tick, and a hot cue set then is "unset".

Network

- `websocket.c`: a failed open leaves FAILED where `websocket.h:121` promises CLOSED;
  reads are bounded one by one, so a poll can exceed its budget; several silent
  addresses each get the whole budget (comment `websocket.c:163-166`). `[h]:` is
  accepted with port 0 while `h:` is refused; Upgrade and Connection are compared by
  prefix, and "keep-alive, Upgrade" is refused.
- `websocket.c:397` calls a failed connection terminal and `websocket.h:52` says
  "no further frames", but the writes test only for a transport and go out, and
  `WebSocket_writeClose` sets CLOSING, from where poll reads on, in whatever state
  it was called (`:1004`, `:1024`). `vex_ws_source.c:148` writes without asking
  isOpen.
- A poll with a budget of 0 returns before it looks at the socket
  (`websocket.c:925-929`), and `vex_ws_source.c:132-137` passes a 0 on.
- `vex_ws_source.c`: a connect frees the buffer that `last` still shows.
- `http.c:287` adds a chunk's length to what is there in a size_t: for a length
  near 2^64 after a first chunk the sum wraps, passes the test, and the receive is
  given more room than the buffer has. That the body never exceeds the buffer
  holds only of answers that announce nothing of the kind.
- `http.c`: the CRLF behind a chunk is read by one receive of 2; a header line of 2048
  bytes or a timeout ends the head, and the rest is taken for the body; a plain
  body cut short answers ok; the server calls its handler after a cut head.
- `download.c`: a short fread answers true with fewer bytes.
- `Net_getJson` parses from a thread-local body.

Containers and algorithms

- `set.c`: an add probes for ever in a table without empty slots; `computeHash` hashes
  an empty block by its pointer though `elementsEqual` takes two of them for equal.
- `segment_index.c`: an add that fails midway leaves a row findable by the prefix it
  had posted. Octree children refused by memory at a split are dereferenced.
  `bvh.c`: a ray parallel to an axis misses a box's maximal face.
- `Queue_1`'s capacity of 16 is raised to 1024; `List_add` into slots wider than 8
  bytes writes 8; `chunked_list.c` starts every root at `VEX_CHUNKED_DIR_INIT`.
- `regex`: `(|a)+` differs from `(|a){1,}`; the closure's work stack is not checked on
  a push but never exceeded.
- `spotlight.c`: `Spotlight_rank` sorts the first texts that score, not the best ones,
  when there are more than it has room for; a query of more than 63 characters is
  looked for by its first 63, and its length then raises the score.
- `Dijkstra_addBiEdge` leaves one edge behind when the other is refused.
- `calc.c`: missing arguments of a call count as 0. `Calendar_dayOfWeek` is wrong for
  negative years. `totp.c` refuses the code of step 0 when 0 was the last accepted.
- `Json_writeString` refuses a text that would just fit; `Json_path` passes dots
  wherever they stand; the writer tests its depth after it wrote the bracket.

Security and geometry

- The key store deletes before it adds, so a refused add loses the old secret.
  `verifySha256` accepts any length of the expected hash from 1 to 32. A failed salt
  leaves `kdf` set and the code invalid. otpauth leaves no terminator when cut.
- `coord_frame.h:12`: six `*_DOWN_*` frames have the handedness their names deny; the
  view matrix is for row vectors, `lookAt` for column vectors; `Mat4_rotate` about no
  axis leaves its destination unwritten.
- `Choice_2` copies a struct with a flexible array by `sizeof(Choice)`.

## Not modelled

Weak memory beyond what is said above; concurrent first calls of
`ReactiveThread_core`; the forced free of core handles at system shutdown; the
growth of `s_workers`, which is not synchronised; stores that race with
`ReactiveThread_shutdown`; `valueOf`; interior pointers, which `BitPool_contains`
lets through; rounding of floats and what depends on NaN or infinity; the rounds
of the compression functions and ciphers, which are taken for injective; typed
facades over modelled parts; the string projections of reflection, annotations and
headers; platform bindings (Objective-C, OpenCL, audio output), TLS itself and
zlib, which are external. Each is listed in `PROJECT.json` with its reason.

## Plan

Still to prove: *DequeIsASequence* with the ring's lemmas on remainders.

Still to model: the delivery thread with observers that drain; characters and the
crossfade of the input; the index of segments built from a map.
