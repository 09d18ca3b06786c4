----------------------------- MODULE Periphery -----------------------------
(***************************************************************************)
(* What stands at the edge of the program, each driven by one caller: the   *)
(* turntable, the trackpad and the piano of input/, the hub to which drivers *)
(* attach (spoke/bespoke.c), the downloads that the curl program makes       *)
(* (net/download.c), the transport of a host over a websocket                *)
(* (net/vex_ws_source.c), the key store (security/keychain.c, as built for   *)
(* Apple), the random source (security/secure_random.c, as built for Linux)  *)
(* and the pool of compute workers (thread/compute.c).                       *)
(*                                                                          *)
(* What the system answers is chosen freely: it may refuse at every step.    *)
(***************************************************************************)
EXTENDS Integers, Sequences, FiniteSets

CONSTANTS
  HotCues,     \* the numbers of the hot cue buttons, 1 .. 8
  MaxHead,     \* bound: positions of the playhead
  ScaleMax,    \* the largest zoom, in units of the smallest
  Notes,       \* PIANO_MAX_NOTES notes
  OddNote,     \* a number above them
  Drivers,     \* graphics, networking, smth
  RandomMax,   \* bound: bytes of one draw
  MaxDraws,    \* bound: draws
  PoolMax,     \* COMPUTE_POOL_MAX
  WorkerRoom,  \* tasks that the ring of a worker holds
  MaxBuffers   \* bound: connections of the transport

VARIABLE edge  \* what is at work, and its state

Is(kind) == edge.kind = kind

-----------------------------------------------------------------------------
(* input/turntable.c: a position is a number of steps, before the record's  *)
(* start when negative; the motor's pull and its friction are any speed     *)
(* between the present one and theirs.                                       *)

Nominal == 1
Unset == -1
NewDeck == [kind |-> "deck", touched |-> FALSE, playing |-> FALSE, speed |-> 0, head |-> 0, cue |-> 0,
            hots |-> [i \in HotCues |-> Unset],
            marks |-> [i \in HotCues |-> Unset], \* history: where each was first pressed on the record
            ticked |-> FALSE]                    \* history: the last step was a tick

CueAt(d) == IF d.playing THEN [d EXCEPT !.head = d.cue, !.playing = FALSE] ELSE [d EXCEPT !.cue = d.head]

\* A variant for checking: a cue at the start counts as unset.
HotCueAfterStart(d, i) ==
  IF d.hots[i] <= 0
  THEN [d EXCEPT !.hots[i] = d.head, !.marks[i] = IF @ < 0 /\ d.head >= 0 THEN d.head ELSE @]
  ELSE [d EXCEPT !.head = d.hots[i]]

\* An unset one is saved, a saved one is jumped to.
HotCue(d, i) ==
  IF d.hots[i] < 0
  THEN [d EXCEPT !.hots[i] = d.head, !.marks[i] = IF @ < 0 /\ d.head >= 0 THEN d.head ELSE @]
  ELSE [d EXCEPT !.head = d.hots[i]]

\* TurntableState_processEvent: the motor first, then the cues, then the hand.
Processed(d, e) ==
  LET motor == [d EXCEPT !.touched = e.touched, !.playing = IF e.play THEN ~@ ELSE @, !.ticked = FALSE]
      cued == IF e.cue THEN CueAt(motor) ELSE motor
      hot == IF e.hot \in HotCues THEN HotCue(cued, e.hot) ELSE cued
  IN IF e.touched THEN [hot EXCEPT !.speed = e.delta, !.head = @ + e.delta]
     ELSE IF e.rim THEN [hot EXCEPT !.head = @ + e.delta] ELSE hot

DeckEvent ==
  /\ Is("deck")
  /\ \E e \in [touched : BOOLEAN, rim : BOOLEAN, delta : {-1, 1}, cue : BOOLEAN, play : BOOLEAN,
               hot : HotCues \union {0}] :
       LET next == Processed(edge, e) IN next.head \in -2 .. MaxHead /\ edge' = next

Between(a, b) == IF a <= b THEN a .. b ELSE b .. a
AtStart(head) == IF head < 0 THEN 0 ELSE head

\* TurntableState_tick.
DeckTick ==
  /\ Is("deck")
  /\ \E speed \in Between(edge.speed, IF edge.playing THEN Nominal ELSE 0) :
       LET turns == ~edge.touched /\ edge.playing
           head == AtStart(edge.head + (IF turns THEN speed ELSE 0))
       IN /\ head <= MaxHead
          /\ edge' = [edge EXCEPT !.speed = IF edge.touched THEN @ ELSE speed, !.head = head, !.ticked = TRUE]

\* A hot cue that was set on the record stays where it was set; before the
\* record's start, where the hand can turn it until the next tick, a press sets
\* none.  A tick brings the playhead back on the record.
CuesStay ==
  /\ \A i \in HotCues : IF edge.marks[i] < 0 THEN edge.hots[i] < 0 ELSE edge.hots[i] = edge.marks[i]
  /\ edge.ticked => edge.head >= 0

-----------------------------------------------------------------------------
(* input/gesture.c: a magnification doubles the scale, halves it or leaves  *)
(* it; the scale is in units of the smallest.                               *)

NewPad == [kind |-> "pad", pinching |-> FALSE, rotating |-> FALSE, scale |-> 2, rotation |-> 0, scroll |-> 0,
           begun |-> {}]   \* history: the ways in which the gesture under way began

Clamped(scale) == IF scale < 1 THEN 1 ELSE IF scale > ScaleMax THEN ScaleMax ELSE scale
Magnified(scale, m) == Clamped(CASE m = 1 -> 2 * scale [] m = -1 -> scale \div 2 [] OTHER -> scale)

\* A variant for checking: a gesture that is cancelled goes on.
EndsGestureUncancelled(phase) == phase = "ended"
EndsGesture(phase) == phase \in {"ended", "cancelled"}

\* GestureState_processEvent.
Gestured(g, phase, m, turn, scroll) ==
  CASE phase = "began" ->
         [g EXCEPT !.pinching = @ \/ m # 0, !.rotating = @ \/ turn # 0,
                   !.begun = @ \union (IF m # 0 THEN {"pinch"} ELSE {}) \union (IF turn # 0 THEN {"turn"} ELSE {})]
    [] phase = "changed" ->
         [g EXCEPT !.scale = Magnified(@, m), !.rotation = (@ + turn) % 3, !.scroll = scroll]
    [] phase = "momentum" -> [g EXCEPT !.scroll = scroll]
    [] phase \in {"ended", "cancelled"} ->
         [g EXCEPT !.pinching = IF EndsGesture(phase) THEN FALSE ELSE @,
                   !.rotating = IF EndsGesture(phase) THEN FALSE ELSE @, !.begun = {}]

PadEvent ==
  /\ Is("pad")
  /\ \E phase \in {"began", "changed", "momentum", "ended", "cancelled"}, m \in {-1, 0, 1}, turn \in {0, 1}, scroll \in 0 .. 2 :
       edge' = Gestured(edge, phase, m, turn, scroll)

\* GestureState_tick: friction, down to none.
PadTick == Is("pad") /\ \E v \in 0 .. edge.scroll : edge' = [edge EXCEPT !.scroll = v]

\* A pinch or a turn is under way from the beginning that showed it to the end or
\* the cancellation of its gesture, and the zoom stays within its limits.
GesturesEnd ==
  /\ edge.pinching <=> "pinch" \in edge.begun
  /\ edge.rotating <=> "turn" \in edge.begun
  /\ edge.scale \in 1 .. ScaleMax

-----------------------------------------------------------------------------
(* input/piano_key.c *)

NewPiano == [kind |-> "piano", velocities |-> [n \in Notes |-> 0], active |-> 0,
             held |-> {}]   \* history: the notes that are down

\* A variant for checking: a strike without velocity is taken as it comes.
StruckAsIs(velocity) == velocity
Struck(velocity) == IF velocity > 0 THEN velocity ELSE 2

IsNoteOn(p, n) == n \in Notes /\ p.velocities[n] > 0

\* PianoState_processEvent.
NoteEvent ==
  /\ Is("piano")
  /\ \E n \in Notes \union {OddNote}, down \in BOOLEAN, velocity \in {0, 1} :
       LET was == IsNoteOn(edge, n) IN
       edge' = IF n \notin Notes THEN edge
               ELSE IF down
               THEN [edge EXCEPT !.velocities[n] = Struck(velocity), !.held = @ \union {n},
                                 !.active = IF was THEN @ ELSE @ + 1]
               ELSE [edge EXCEPT !.velocities[n] = 0, !.held = @ \ {n},
                                 !.active = IF was /\ @ > 0 THEN @ - 1 ELSE @]

\* The notes that sound are those whose keys are down, however often a key is
\* struck or released again, and they are counted.
NotesAreCounted ==
  /\ {n \in Notes : IsNoteOn(edge, n)} = edge.held
  /\ edge.active = Cardinality(edge.held)

-----------------------------------------------------------------------------
(* spoke/bespoke.c: a driver may lack the hook that runs it or the one that *)
(* tells its state.                                                          *)

DriverStates == {"absent", "late", "ready", "running", "replaced", "stopped"}
NewHubs == [kind : {"hub"}, runs : SUBSET Drivers, asks : SUBSET Drivers,
            live : [Drivers -> {"late", "ready"}],       \* what each driver would tell: external
            state : {[d \in Drivers |-> "absent"]},
            doubled : {{}},                              \* history: drivers run while they ran
            refused : {{}},                              \* history: drivers that did not run when last called
            fresh : {FALSE}]                             \* history: a check has just been made

\* The run hooks of some are called, and those of them that are willing run.
Started(h, called, willing) ==
  [h EXCEPT !.live = [d \in Drivers |-> IF d \in called \intersect willing THEN "running" ELSE @[d]],
            !.refused = called \ willing,
            !.doubled = @ \union {d \in called : h.live[d] = "running"}]

\* Bespoke_bridge.
Bridge ==
  /\ Is("hub")
  /\ \E willing \in SUBSET Drivers :
       LET seen(d) == IF d \in edge.asks THEN edge.live[d] ELSE "ready"
           called == {d \in edge.runs : seen(d) = "ready"}
       IN edge' = [Started(edge, called, willing) EXCEPT
                     !.state = [d \in Drivers |->
                       IF d \notin edge.runs THEN "absent"
                       ELSE IF d \notin called THEN seen(d)
                       ELSE IF d \in willing THEN "running" ELSE "late"],
                     !.fresh = FALSE]

\* A variant for checking: only a driver that is ready is run.
NeedsRunOnce(live) == live = "ready"
NeedsRun(live) == live \in {"ready", "replaced"}

\* Bespoke_check: one without the hook that tells is taken to be as it was.
HubCheck ==
  /\ Is("hub")
  /\ \E willing \in SUBSET Drivers :
       LET seen(d) == IF d \in edge.asks THEN edge.live[d] ELSE edge.state[d]
           called == {d \in edge.runs : NeedsRun(seen(d))}
       IN edge' = [Started(edge, called, willing) EXCEPT
                     !.state = [d \in Drivers |->
                       IF d \notin edge.runs THEN @[d]
                       ELSE IF d \notin called THEN seen(d)
                       ELSE IF d \in willing THEN "running" ELSE @[d]],
                     !.fresh = TRUE]

\* A driver gets what it waits for, is replaced, stops or is taken away: external.
DriverChanges ==
  /\ Is("hub")
  /\ \E d \in Drivers, s \in DriverStates \ {"running"} :
       edge' = [edge EXCEPT !.live[d] = s, !.fresh = FALSE]

\* After a check the hub knows of every driver that tells its state: it is as it
\* was told or, when it waits to be run, also after it was replaced, it has been
\* called and has refused; and none that tells its state is run while it runs.
HubKnowsDrivers ==
  LET told == edge.runs \intersect edge.asks IN
  /\ edge.fresh => \A d \in told : IF edge.live[d] \in {"ready", "replaced"} THEN d \in edge.refused
                                   ELSE edge.state[d] = edge.live[d]
  /\ edge.doubled \intersect told = {}
-----------------------------------------------------------------------------
(* net/download.c, by the steps that may fail; what a call holds is given   *)
(* back by the exit it takes.  The cache of nio/ is external: it keeps the   *)
(* one url that is asked for, and may forget it.                             *)

NoData == -1
NewDownload == [kind |-> "download", pc |-> "idle", way |-> "memory", holds |-> {}, size |-> 0, data |-> NoData,
                kept |-> FALSE, answer |-> "none"]

Goes(d, pc, taken) == [d EXCEPT !.pc = pc, !.holds = @ \union taken]
Left(d, released, yes) == [d EXCEPT !.pc = "idle", !.holds = @ \ released, !.answer = IF yes THEN "yes" ELSE "no"]

AskDownload ==
  /\ Is("download") /\ edge.pc = "idle"
  /\ \E opens \in BOOLEAN :
       edge' = LET d == [edge EXCEPT !.answer = "none", !.way = "cached"] IN
               IF opens THEN Goes(d, "look", {"cache"}) ELSE Left(d, {}, FALSE)

\* Download_to_memory: what the response held is overwritten.
AskMemory ==
  /\ Is("download") /\ edge.pc = "idle"
  /\ edge' = Goes([edge EXCEPT !.answer = "none", !.way = "memory", !.data = NoData], "temp", {})

LookUp ==
  /\ Is("download") /\ edge.pc = "look"
  /\ \E fits \in BOOLEAN : edge' = IF edge.kept THEN Left(edge, {"cache"}, fits) ELSE Goes(edge, "temp", {})

MakeTemp ==
  /\ Is("download") /\ edge.pc = "temp"
  /\ \E made \in BOOLEAN : edge' = IF made THEN Goes(edge, "fetch", {"temp"}) ELSE Left(edge, {"cache"}, FALSE)

\* Download_to_file: curl is run and answers 0, or is not, or does not.
Fetch ==
  /\ Is("download") /\ edge.pc = "fetch"
  /\ \/ edge' = Left(edge, {"temp", "cache"}, FALSE)
     \/ \E n \in 0 .. 2 :
          edge' = Goes([edge EXCEPT !.size = n], IF edge.way = "memory" THEN "open" ELSE "put", {})

\* A variant for checking: the file that cannot be opened stays behind.
UnopenedKept(d) == Left(d, {}, FALSE)
Unopened(d) == Left(d, {"temp"}, FALSE)

OpenTemp ==
  /\ Is("download") /\ edge.pc = "open"
  /\ \E opens \in BOOLEAN : edge' = IF opens THEN Goes(edge, "read", {"file"}) ELSE Unopened(edge)

\* The size is asked for and the memory for it; what is read may be less.
ReadTemp ==
  /\ Is("download") /\ edge.pc = "read"
  /\ \/ edge' = Left(edge, {"temp", "file"}, FALSE)
     \/ \E n \in 0 .. edge.size : edge' = Left([edge EXCEPT !.data = n], {"temp", "file"}, TRUE)

PutInCache ==
  /\ Is("download") /\ edge.pc = "put"
  /\ \/ edge' = Left(edge, {"temp", "cache"}, FALSE)
     \/ \E fits \in BOOLEAN : edge' = Left([edge EXCEPT !.kept = TRUE], {"temp", "cache"}, fits)

CacheForgets ==
  Is("download") /\ edge.pc = "idle" /\ edge.kept /\ edge' = [edge EXCEPT !.kept = FALSE, !.answer = "none"]

DownloadNext ==
  AskDownload \/ AskMemory \/ LookUp \/ MakeTemp \/ Fetch \/ OpenTemp \/ ReadTemp \/ PutInCache \/ CacheForgets

\* Whatever step fails, a download that has ended leaves no file behind and no file
\* or cache open; the answer yes comes with the data, or with the url in the
\* cache, and the answer no without data.
DownloadsLeaveNothing ==
  edge.pc = "idle" =>
    /\ edge.holds = {}
    /\ edge.way = "memory" => (edge.answer = "yes" <=> edge.data # NoData) \/ edge.answer = "none"
    /\ edge.way = "cached" /\ edge.answer = "yes" => edge.kept

-----------------------------------------------------------------------------
(* net/vex_ws_source.c over a client of WebSocket.tla, of which it knows    *)
(* the state and the buffer, here the number of the connection that made it. *)

NewSource == [kind |-> "source", configured |-> FALSE, socket |-> "down", buf |-> 0, made |-> 0,
              last |-> "none", payload |-> 0, delivered |-> FALSE,
              reopened |-> FALSE]   \* history: connected since the last poll

\* WebSocket_open closes what is open; it fails with no buffer.
Connected(c, works) ==
  IF works THEN [c EXCEPT !.socket = "open", !.made = @ + 1, !.buf = c.made + 1, !.reopened = TRUE]
  ELSE [c EXCEPT !.socket = "down", !.buf = 0, !.last = "error", !.payload = 0]

\* VexWsSource_open; a target that does not fit changes nothing.
SourceOpen ==
  /\ Is("source") /\ edge.made < MaxBuffers
  /\ \E works \in BOOLEAN :
       edge' = Connected([edge EXCEPT !.configured = TRUE, !.last = "none", !.payload = 0, !.delivered = FALSE], works)

SourceConnect ==
  /\ Is("source") /\ edge.made < MaxBuffers
  /\ \E works \in BOOLEAN : edge' = IF edge.configured THEN Connected([edge EXCEPT !.delivered = FALSE], works) ELSE edge

\* What WebSocket_poll says in each state, and the state it leaves.
PollAnswers(socket) ==
  CASE socket = "open" -> {<<"none", "open">>, <<"text", "open">>, <<"binary", "open">>, <<"error", "failed">>, <<"close", "shut">>}
    [] socket = "shut" -> {<<"close", "shut">>}
    [] socket = "failed" -> {<<"error", "failed">>}
    [] socket = "down" -> {<<"error", "down">>}

IsMessage(kind) == kind \in {"text", "binary"}

SourcePoll ==
  /\ Is("source")
  /\ \E a \in PollAnswers(edge.socket) :
       edge' = [edge EXCEPT !.last = a[1], !.socket = a[2], !.payload = IF IsMessage(a[1]) THEN edge.buf ELSE 0,
                            !.delivered = IsMessage(a[1]), !.reopened = FALSE]

\* VexWsSource_send: a frame that cannot be written breaks the client.
SourceSend ==
  /\ Is("source") /\ edge.socket # "down"
  /\ \E writes \in BOOLEAN : edge' = [edge EXCEPT !.socket = IF writes THEN @ ELSE "failed", !.delivered = FALSE]

\* A variant for checking: the record keeps its payload.
ForgottenKept(c) == c
Forgotten(c) == [c EXCEPT !.payload = 0]

SourceClose ==
  Is("source") /\ edge' = Forgotten([edge EXCEPT !.socket = "down", !.buf = 0, !.delivered = FALSE])

SourceNext == SourceOpen \/ SourceConnect \/ SourcePoll \/ SourceSend \/ SourceClose

\* The payload that the last record shows is in the buffer of the client, and not
\* in one that was freed, as long as the host has not connected again since it
\* polled; a poll that counts a message shows it.
PayloadIsHeld ==
  /\ edge.payload # 0 /\ ~edge.reopened => edge.payload = edge.buf
  /\ edge.delivered => IsMessage(edge.last) /\ edge.payload # 0
-----------------------------------------------------------------------------
(* security/keychain.c, as built for Apple: one service and account; a       *)
(* secret is its length.                                                     *)

Lacking == 0
NewKeys == [kind |-> "keys", held |-> Lacking, code |-> "none", len |-> 0, dest |-> 0,
            willing |-> TRUE,   \* history: the system refused nothing in the last call
            want |-> Lacking]   \* history: the last secret accepted, if it was not removed since

\* SecItemDelete: external.
Deleted(k, willing) == IF willing THEN [k EXCEPT !.held = Lacking] ELSE k

\* A variant for checking: the old secret is not taken out.
ClearedFirstNot(k, willing) == k
ClearedFirst(k, willing) == Deleted(k, willing)

\* Keychain_store: a secret of the same name must be deleted for one to be added.
KeyStore ==
  /\ Is("keys")
  /\ \E v \in 1 .. 2, built, deletes, adds \in BOOLEAN :
       LET k == [edge EXCEPT !.len = 0, !.willing = built /\ deletes /\ adds]
           cleared == ClearedFirst(k, deletes)
       IN edge' = IF ~built THEN [k EXCEPT !.code = "full"]
                  ELSE IF adds /\ cleared.held = Lacking
                  THEN [cleared EXCEPT !.held = v, !.want = v, !.code = "ok"]
                  ELSE [cleared EXCEPT !.code = "denied"]

\* Keychain_load into a buffer of cap bytes.
KeyLoad ==
  /\ Is("keys")
  /\ \E cap \in 0 .. 2, reads \in BOOLEAN :
       LET k == [edge EXCEPT !.len = 0, !.willing = reads] IN
       edge' = CASE cap = 0 -> [k EXCEPT !.code = "invalid"]
                 [] cap > 0 /\ ~reads -> [k EXCEPT !.code = "denied"]
                 [] cap > 0 /\ reads /\ k.held = Lacking -> [k EXCEPT !.code = "absent"]
                 [] cap > 0 /\ reads /\ k.held > cap -> [k EXCEPT !.code = "too-small"]
                 [] cap > 0 /\ reads /\ k.held \in 1 .. cap -> [k EXCEPT !.code = "ok", !.dest = k.held, !.len = k.held]

\* Keychain_remove.
KeyRemove ==
  /\ Is("keys")
  /\ \E willing \in BOOLEAN :
       LET k == Deleted([edge EXCEPT !.len = 0, !.willing = willing], willing) IN
       edge' = [k EXCEPT !.code = IF ~willing THEN "denied" ELSE IF edge.held = Lacking THEN "absent" ELSE "ok",
                         !.want = IF willing THEN Lacking ELSE @]

KeysNext == KeyStore \/ KeyLoad \/ KeyRemove

\* The store holds the secret last accepted or, when one after it was refused,
\* none; a load gives that secret whole, and a length with nothing else; and no
\* store is denied by what is there already.
SecretsAreWhole ==
  /\ edge.held \in {edge.want, Lacking}
  /\ edge.len # 0 => edge.code = "ok" /\ edge.dest = edge.want /\ edge.len = edge.want
  /\ edge.willing => edge.code # "denied"
-----------------------------------------------------------------------------
(* security/secure_random.c, as built for Linux: getrandom gives some of     *)
(* what is asked for; once it fails the rest is read from a device.          *)

NewRandom == [kind |-> "random", pc |-> "idle", len |-> 0, base |-> 0, got |-> 0, fd |-> FALSE,
              draws |-> 0, answer |-> FALSE,
              filled |-> {}]   \* history: the bytes written

Answered(r, yes) ==
  [r EXCEPT !.pc = "idle", !.fd = FALSE, !.answer = yes, !.draws = IF yes THEN @ + 1 ELSE @]

\* SecureRandom_bytes; the first check of osFill.
Draw ==
  /\ Is("random") /\ edge.pc = "idle" /\ edge.draws < MaxDraws
  /\ \E len \in 0 .. RandomMax, null \in BOOLEAN :
       LET r == [edge EXCEPT !.len = len, !.base = 0, !.got = 0, !.answer = FALSE, !.filled = {}] IN
       edge' = IF len = 0 \/ null THEN Answered(r, len = 0) ELSE [r EXCEPT !.pc = "getrandom"]

\* n more bytes behind those there are; the loop ends with the last.
Received(r, n) ==
  LET from == r.base + r.got
      more == [r EXCEPT !.got = @ + n, !.filled = @ \union (from + 1 .. from + n)]
  IN IF more.got < more.len THEN more ELSE Answered(more, TRUE)

\* An interrupted call is made again.
GetRandom ==
  /\ Is("random") /\ edge.pc = "getrandom"
  /\ \E n \in 0 .. edge.len - edge.got : edge' = Received(edge, n)

\* A variant for checking: what is left goes to the beginning again.
RestAtStart(r) == [r EXCEPT !.got = 0, !.len = r.len - r.got]
Rest(r) == [r EXCEPT !.base = r.got, !.got = 0, !.len = r.len - r.got]

FallBack ==
  /\ Is("random") /\ edge.pc = "getrandom"
  /\ \E opens \in BOOLEAN :
       edge' = IF opens THEN [Rest(edge) EXCEPT !.pc = "read", !.fd = TRUE] ELSE Answered(edge, FALSE)

ReadDevice ==
  /\ Is("random") /\ edge.pc = "read"
  /\ \E n \in 0 .. edge.len - edge.got : edge' = IF n = 0 THEN Answered(edge, FALSE) ELSE Received(edge, n)

RandomNext == Draw \/ GetRandom \/ FallBack \/ ReadDevice

\* A draw that is answered has filled every byte asked for, from whichever source,
\* and none behind them; no descriptor stays open.
DrawsAreFilled ==
  /\ edge.filled \subseteq 1 .. edge.base + edge.len
  /\ edge.answer => edge.filled = 1 .. edge.base + edge.len
  /\ edge.pc = "idle" => ~edge.fd
-----------------------------------------------------------------------------
(* thread/compute.c over the workers of WorkerThread.tla: one runs or not    *)
(* and its ring holds some tasks.                                            *)

NoWorker == [there |-> FALSE, runs |-> FALSE, tasks |-> 0]
Seats == 0 .. PoolMax - 1
Turns == 6   \* a multiple of every count, for the cursor
NewPool == [kind |-> "compute", pool |-> [i \in Seats |-> NoWorker], count |-> 0, cursor |-> 0,
            missed |-> FALSE]   \* history: refused although a worker had room

Workers(p) == {i \in Seats : p.pool[i].there}

\* Thread_submit.
Takes(w) == w.there /\ w.runs /\ w.tasks < WorkerRoom

\* ComputeThread_start: those that are there stay as they are; the loop ends at
\* the first that cannot be made.
PoolStart ==
  /\ Is("compute")
  /\ \E asked \in 0 .. PoolMax + 1, limit \in 0 .. PoolMax, runs \in BOOLEAN :
       LET count == IF asked = 0 THEN 1 ELSE IF asked > PoolMax THEN PoolMax ELSE asked
           gaps == {i \in Seats : i < count /\ ~edge.pool[i].there}
           made == {i \in gaps : Cardinality({j \in gaps : j < i}) < limit}
       IN edge' = [edge EXCEPT
                     !.pool = [i \in Seats |-> IF i \in made THEN [NoWorker EXCEPT !.there = TRUE, !.runs = runs] ELSE @[i]],
                     !.count = Cardinality({j \in Seats : \E i \in made : j <= i} \union {j \in Seats : j < @}),
                     !.missed = FALSE]

\* A variant for checking: only the worker whose turn it is.
TriedOne(count) == {0}
Tried(count) == 0 .. count - 1

\* ComputeThread_submit.
PoolSubmit ==
  /\ Is("compute")
  /\ LET taking == {k \in Tried(edge.count) : Takes(edge.pool[(edge.cursor + k) % edge.count])}
         first == (edge.cursor + CHOOSE k \in taking : \A other \in taking : k <= other) % edge.count
     IN edge' = IF edge.count = 0 THEN edge
                ELSE [edge EXCEPT !.cursor = (@ + 1) % Turns,
                                  !.pool[IF taking = {} THEN 0 ELSE first].tasks = IF taking = {} THEN @ ELSE @ + 1,
                                  !.missed = taking = {} /\ \E i \in Seats : Takes(edge.pool[i])]

\* A worker runs a task: external.
TaskRuns ==
  /\ Is("compute")
  /\ \E i \in Workers(edge) :
       /\ edge.pool[i].runs /\ edge.pool[i].tasks > 0
       /\ edge' = [edge EXCEPT !.pool[i].tasks = @ - 1, !.missed = FALSE]

PoolStop ==
  Is("compute") /\ edge' = [edge EXCEPT !.pool = [i \in Seats |-> [@[i] EXCEPT !.runs = FALSE]], !.missed = FALSE]

PoolFree == Is("compute") /\ edge' = [edge EXCEPT !.pool = [i \in Seats |-> NoWorker], !.count = 0, !.missed = FALSE]

PoolNext == PoolStart \/ PoolSubmit \/ TaskRuns \/ PoolStop \/ PoolFree

\* The pool counts the workers it has, which sit side by side, also after one could
\* not be made; and it refuses a job only when no worker that runs has room.
PoolTakesWhatFits ==
  /\ Workers(edge) = {i \in Seats : i < edge.count}
  /\ ~edge.missed
-----------------------------------------------------------------------------
EdgeInit == edge \in {NewDeck, NewPad, NewPiano, NewDownload, NewSource, NewKeys, NewRandom, NewPool} \union NewHubs

EdgeNext ==
  \/ DeckEvent \/ DeckTick
  \/ PadEvent \/ PadTick
  \/ NoteEvent
  \/ Bridge \/ HubCheck \/ DriverChanges
  \/ DownloadNext \/ SourceNext \/ KeysNext \/ RandomNext \/ PoolNext

\* Each keeps its word.
EdgesHold ==
  /\ Is("deck") => CuesStay
  /\ Is("pad") => GesturesEnd
  /\ Is("piano") => NotesAreCounted
  /\ Is("hub") => HubKnowsDrivers
  /\ Is("download") => DownloadsLeaveNothing
  /\ Is("source") => PayloadIsHeld
  /\ Is("keys") => SecretsAreWhole
  /\ Is("random") => DrawsAreFilled
  /\ Is("compute") => PoolTakesWhatFits
=============================================================================
