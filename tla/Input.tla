--------------------------------- MODULE Input --------------------------------
(***************************************************************************)
(* input/key.c and input/key_map.c: the key slots, the event ring between  *)
(* the OS pump and the game loop, and the resolver that turns the slots    *)
(* into gestures.  The pump writes a slot field by field and then offers   *)
(* the event; the game loop drains the ring and, once a frame, scans its   *)
(* bindings against the same slots without a lock.                         *)
(*                                                                         *)
(* "racing" says whether the two run on two threads.  Their accesses to a  *)
(* slot are plain ones: the stores of one push reach the other thread in   *)
(* any order.  Without racing a push and a resolve are whole.  The four    *)
(* modifier families are one key, Shift, and time is a small counter.      *)
(*                                                                         *)
(* input/mouse.c and input/touch.c: the events of the OS pump packed into  *)
(* words, the rings that carry them to the game loop, the dispatch that    *)
(* tells by a word's bytes what it is, the click and touch slots that the  *)
(* pump keeps, and the positions.  A word is its 16-bit fields: low is     *)
(* bits 15..0, mid 31..16, high 47..32.  The lists of listeners and the    *)
(* windows come last.                                                      *)
(*                                                                         *)
(* One device is used in a behaviour.  A push is whole: the slots are read *)
(* between sent, as when pump and game loop share the main thread.       *)
(*                                                                         *)
(* The listener registries of input/key.c (input/mouse.c and input/touch.c *)
(* hold the same code) and the delivery of one event to them.  A registry  *)
(* is one segment of global listeners and a table of rows, one for each    *)
(* window, each with a segment of its own.  Segments and the table double  *)
(* into fresh memory; the old block stays readable.  One thread runs all   *)
(* of it, but a listener that is called may change the registries.         *)
(***************************************************************************)
EXTENDS Integers, Sequences, FiniteSets

CONSTANTS
  KeyCodes,
  Shift,          \* the key of KeyCodes that is a modifier
  Bindings,       \* the bindings of the key map, [key, mods, mode], in order
  Window,         \* tapWindowNanos
  Hold,           \* longPressNanos, 0 for none
  QueueCapacity,  \* QUEUE_CAPACITY
  MaxTime,        \* bound: the clock stops here
  MaxPushes,      \* bound: the events the OS sends
  MaxRacing       \* bound: those of them it sends while the threads race

ASSUME KeyAssumption ==
  /\ Shift \in KeyCodes
  /\ Bindings \in Seq([key : KeyCodes, mods : Nat, mode : 0 .. 3])
  /\ Window \in Nat /\ Hold \in Nat
  /\ QueueCapacity \in Nat
  /\ MaxTime \in Nat

VARIABLES
  racing,
  multiTap,   \* multiTapEnabled of the key map
  clock,
  slot,       \* s_slots
  pump,       \* the push under way: the stores still to make, then the offer
  queue,      \* s_queue
  view,       \* what a listener has been told of each key
  resolver,   \* the resolve under way
  pushes, presses, fires, longs, lastTap, dropped  \* the history the properties speak of

keyVars == <<racing, multiTap, clock, slot, pump, queue, view, resolver,
             pushes, presses, fires, longs, lastTap, dropped>>

Modes == [tap |-> 0, double |-> 1, triple |-> 2, long |-> 3]

FreshSlot == [pressTime |-> 0, lastRelease |-> 0, pendingUntil |-> 0, taps |-> 0,
              lastTapMods |-> 0, longPressFired |-> FALSE]

NoPush == [todo |-> {}, key |-> Shift, to |-> FreshSlot, event |-> <<>>]
NoResolve == [pc |-> "idle", i |-> 1, best |-> 0, mods |-> 0, hold |-> 0]

KeyInit ==
  /\ racing = FALSE /\ multiTap = TRUE /\ clock = 1
  /\ slot = [k \in KeyCodes |-> FreshSlot]
  /\ pump = NoPush /\ resolver = NoResolve
  /\ queue = <<>> /\ view = [k \in KeyCodes |-> FALSE]
  /\ pushes = 0 /\ presses = [k \in KeyCodes |-> 0] /\ fires = [k \in KeyCodes |-> 0]
  /\ longs = [k \in KeyCodes |-> <<>>] /\ lastTap = [k \in KeyCodes |-> 0]
  /\ dropped = [k \in KeyCodes |-> FALSE]

IsDown(k) == slot[k].pressTime # 0
ModifierMask == IF IsDown(Shift) THEN 1 ELSE 0

PumpIdle == pump.todo = {} /\ pump.event = <<>>

\* How the program is run and KeyMap_setMultiTapEnabled, before the first event.
Configure(two, taps) ==
  /\ pushes = 0 /\ clock = 1 /\ resolver = NoResolve
  /\ racing' = two /\ multiTap' = taps
  /\ UNCHANGED <<clock, slot, pump, queue, view, resolver, pushes, presses,
                 fires, longs, lastTap, dropped>>

Tick ==
  /\ clock < MaxTime
  /\ racing \/ (PumpIdle /\ resolver.pc = "idle")
  /\ clock' = clock + 1
  /\ UNCHANGED <<racing, multiTap, slot, pump, queue, view, resolver, pushes,
                 presses, fires, longs, lastTap, dropped>>

-----------------------------------------------------------------------------
(* Key_pushEvent *)

Event(k, action) == [key |-> k, action |-> action]

MayPush == /\ PumpIdle /\ clock + Window <= MaxTime
           /\ pushes < IF racing THEN MaxRacing ELSE MaxPushes
           /\ racing \/ resolver.pc = "idle"
           /\ pushes' = pushes + 1

\* Within the window of the last release, with the same modifiers, a press
\* goes on with the sequence; otherwise it starts one.
TapsOfPress(s) ==
  IF s.lastRelease # 0 /\ clock - s.lastRelease < Window /\ s.lastTapMods = ModifierMask
  THEN s.taps + 1 ELSE 1

\* A press reads the slot; its stores follow.
PressKey(k) ==
  /\ MayPush /\ ~IsDown(k)
  /\ pump' = [todo |-> {"taps", "lastTapMods", "pendingUntil", "pressTime"}, key |-> k,
              to |-> [slot[k] EXCEPT !.taps = TapsOfPress(slot[k]),
                                     !.lastTapMods = ModifierMask,
                                     !.pendingUntil = clock + Window,
                                     !.pressTime = clock],
              event |-> <<Event(k, "down")>>]
  /\ presses' = [presses EXCEPT ![k] = @ + 1]
  /\ UNCHANGED <<racing, multiTap, clock, slot, queue, view, resolver, fires, longs, lastTap, dropped>>

\* A press of a key that is down is the OS's repeat: the slot stays as it is.
RepeatKey(k) ==
  /\ MayPush /\ IsDown(k)
  /\ pump' = [NoPush EXCEPT !.key = k, !.event = <<Event(k, "repeat")>>]
  /\ UNCHANGED <<racing, multiTap, clock, slot, queue, view, resolver,
                 presses, fires, longs, lastTap, dropped>>

ReleaseKey(k) ==
  /\ MayPush
  /\ pump' = [todo |-> {"lastRelease", "pressTime", "longPressFired"}, key |-> k,
              to |-> [slot[k] EXCEPT !.lastRelease = clock, !.pressTime = 0,
                                     !.longPressFired = FALSE],
              event |-> <<Event(k, "up")>>]
  /\ UNCHANGED <<racing, multiTap, clock, slot, queue, view, resolver,
                 presses, fires, longs, lastTap, dropped>>

\* The stores of a push, all at once unless another thread may look.
Store ==
  \E fs \in IF racing THEN {{f} : f \in pump.todo} ELSE {pump.todo} \ {{}} :
    /\ slot' = [slot EXCEPT ![pump.key] =
                  [f \in DOMAIN FreshSlot |-> IF f \in fs THEN pump.to[f] ELSE @[f]]]
    /\ pump' = [pump EXCEPT !.todo = @ \ fs]
    /\ UNCHANGED <<racing, multiTap, clock, queue, view, resolver, pushes,
                   presses, fires, longs, lastTap, dropped>>

\* A variant for checking: a full ring gives up its oldest event.
OfferedOverOldest(q, e) == Append(IF Len(q) = QueueCapacity THEN Tail(q) ELSE q, e)

\* RingBuffer_push; nobody looks at what it answers.
Offered(q, e) == IF Len(q) = QueueCapacity THEN q ELSE Append(q, e)

Offer ==
  /\ pump.todo = {} /\ pump.event # <<>>
  /\ LET e == pump.event[1] IN
       /\ queue' = Offered(queue, e)
       /\ dropped' = [dropped EXCEPT ![e.key] =
                        IF Len(queue) = QueueCapacity THEN TRUE
                        ELSE @ /\ e.action = "repeat"]
  /\ pump' = NoPush
  /\ UNCHANGED <<racing, multiTap, clock, slot, view, resolver, pushes, presses, fires, longs, lastTap>>

-----------------------------------------------------------------------------
(* The game loop *)

\* Key_dispatchEvents: the events, oldest first, to the listeners.
DispatchEvent ==
  /\ queue # <<>> /\ resolver.pc = "idle"
  /\ racing \/ PumpIdle
  /\ view' = [view EXCEPT ![queue[1].key] =
                CASE queue[1].action = "down" -> TRUE
                  [] queue[1].action = "up" -> FALSE
                  [] OTHER -> @]
  /\ queue' = Tail(queue)
  /\ UNCHANGED <<racing, multiTap, clock, slot, pump, resolver, pushes, presses,
                 fires, longs, lastTap, dropped>>

\* Key_tapPhase: 0 none, -1 pending, else the settled count, at most three.
TapPhase(s) == CASE s.taps = 0 -> 0
                 [] s.taps # 0 /\ clock < s.pendingUntil -> -1
                 [] OTHER -> IF s.taps >= 3 THEN 3 ELSE s.taps

GestureMatches(b) ==
  LET s == slot[b.key]
      down == s.pressTime # 0
  IN CASE b.mode = Modes.long ->
            Hold # 0 /\ down /\ clock - s.pressTime >= Hold /\ ~s.longPressFired
       [] b.mode # Modes.long /\ ~multiTap -> b.mode = Modes.tap /\ s.taps > 0 /\ ~down
       [] OTHER -> TapPhase(s) = b.mode + 1 /\ (b.mode = Modes.tap => ~down)

\* A variant for checking: the latch is not set.
ConsumedUnlatched(b) == [slot EXCEPT ![b.key].taps = 0]

\* consumeGesture
Consumed(b) ==
  [slot EXCEPT ![b.key].taps = 0,
               ![b.key].longPressFired = @ \/ b.mode = Modes.long]

ResolveUnchanged ==
  UNCHANGED <<racing, multiTap, clock, pump, queue, view, pushes, presses, dropped>>

Resolve ==
  /\ resolver.pc = "idle" /\ (racing \/ PumpIdle)
  /\ \E b \in DOMAIN Bindings : GestureMatches(Bindings[b])
  /\ resolver' = [NoResolve EXCEPT !.pc = "scan", !.mods = ModifierMask]
  /\ ResolveUnchanged /\ UNCHANGED <<slot, fires, longs, lastTap>>

\* One binding of the first pass: the most specific gesture, the earlier one
\* when two are as specific, with exactly the modifiers that are down.
Scan ==
  /\ resolver.pc = "scan"
  /\ IF resolver.i > Len(Bindings)
     THEN resolver' = [resolver EXCEPT !.pc = "expire", !.i = 1]
     ELSE LET b == Bindings[resolver.i]
              better == resolver.best = 0 \/ b.mode > Bindings[resolver.best].mode
              hit == better /\ b.mods = resolver.mods /\ GestureMatches(b)
          IN resolver' = [resolver EXCEPT !.i = @ + 1,
                            !.best = IF hit THEN resolver.i ELSE @,
                            !.hold = IF hit THEN presses[b.key] ELSE @]
  /\ ResolveUnchanged /\ UNCHANGED <<slot, fires, longs, lastTap>>

\* One binding of the second pass: a gesture that is there but was declined
\* on its modifiers is used up.
ExpireTest ==
  /\ resolver.pc = "expire"
  /\ IF resolver.i > Len(Bindings)
     THEN resolver' = [resolver EXCEPT !.pc = IF resolver.best = 0 THEN "idle" ELSE "take"]
     ELSE LET b == Bindings[resolver.i] IN
          resolver' = IF GestureMatches(b) /\ b.mods # resolver.mods
                      THEN [resolver EXCEPT !.pc = "decline"]
                      ELSE [resolver EXCEPT !.i = @ + 1]
  /\ ResolveUnchanged /\ UNCHANGED <<slot, fires, longs, lastTap>>

\* A variant for checking: the declined gesture is kept.
DeclineKeeps ==
  /\ resolver.pc = "decline"
  /\ resolver' = [resolver EXCEPT !.pc = "expire", !.i = @ + 1]
  /\ ResolveUnchanged /\ UNCHANGED <<slot, fires, longs, lastTap>>

Decline ==
  /\ resolver.pc = "decline"
  /\ slot' = Consumed(Bindings[resolver.i])
  /\ resolver' = [resolver EXCEPT !.pc = "expire", !.i = @ + 1]
  /\ ResolveUnchanged /\ UNCHANGED <<fires, longs, lastTap>>

\* The winner is used up before its function is called.
Fire ==
  /\ resolver.pc = "take"
  /\ LET b == Bindings[resolver.best] IN
       /\ slot' = Consumed(b)
       /\ fires' = [fires EXCEPT ![b.key] = @ + 1]
       /\ longs' = IF b.mode = Modes.long
                   THEN [longs EXCEPT ![b.key] = Append(@, resolver.hold)] ELSE longs
       /\ lastTap' = IF b.mode = Modes.tap
                     THEN [lastTap EXCEPT ![b.key] = resolver.hold] ELSE lastTap
  /\ resolver' = NoResolve
  /\ ResolveUnchanged

-----------------------------------------------------------------------------
KeyNext ==
  \/ \E two, taps \in BOOLEAN : Configure(two, taps)
  \/ Tick
  \/ \E k \in KeyCodes : PressKey(k) \/ RepeatKey(k) \/ ReleaseKey(k)
  \/ Store \/ Offer
  \/ DispatchEvent
  \/ Resolve \/ Scan \/ ExpireTest \/ Decline \/ Fire

\* What goes on by itself: time passes, a push that began ends, the game loop
\* comes round again.  Only the OS may stop.
KeyProgress == \/ Tick \/ Store \/ Offer \/ DispatchEvent
               \/ Resolve \/ Scan \/ ExpireTest \/ Decline \/ Fire

KeySpec == KeyInit /\ [][KeyNext]_keyVars

-----------------------------------------------------------------------------
(* Two threads or one: once the pump is between two events and the ring is drained, what the   *)
(* listeners know of a key is its state, unless the ring refused its last  *)
(* press or release.                                                       *)
ListenersKnowTheState ==
  PumpIdle /\ queue = <<>> => \A k \in KeyCodes : view[k] = IsDown(k) \/ dropped[k]

(* On one thread: a hold fires LONG_PRESS at most once and never a TAP as   *)
(* well, and no more gestures fire for a key than it was pressed: what     *)
(* fired or was declined is not counted again.  On two threads none of     *)
(* this holds: a resolve that reads a slot between two stores of a push    *)
(* sees a press that never was.                                            *)
GesturesFireOnce ==
  ~racing => \A k \in KeyCodes :
    /\ fires[k] <= presses[k]
    /\ \A i, j \in DOMAIN longs[k] : i # j => longs[k][i] # longs[k][j]
    /\ lastTap[k] # 0 => \A i \in DOMAIN longs[k] : longs[k][i] # lastTap[k]

(* On one thread: the taps of a bound key are used up in the end: their    *)
(* window closes and they fire, or are declined on their modifiers.        *)
TapsAreSettled ==
  \A k \in {Bindings[b].key : b \in DOMAIN Bindings} :
    (~racing /\ slot[k].taps > 0) ~> slot[k].taps = 0

-----------------------------------------------------------------------------

CONSTANTS
  Buttons,
  Masks,            \* the modifier masks the keyboard may show
  Points,           \* pairs of coordinates; of hundredths, for a scroll
  Floats,           \* the two halves of a float
  Contacts,         \* touch slots
  ClickWindow,      \* tapWindowNanos and holdThresholdNanos
  PointerCapacity,  \* QUEUE_CAPACITY
  PointerTime,      \* bound: the clock stops here
  MaxEvents         \* bound: the events the OS sends

\* BUTTON_COUNT and TOUCH_MAX; a drag shows its button in the byte of the marker.  The bound on
\* the clock stands for the wrap of the 46 bits of microseconds.
ASSUME PointerAssumption ==
  /\ Buttons \subseteq 0 .. 15
  /\ Masks \subseteq 0 .. 15
  /\ Points \subseteq Int \X Int
  /\ Floats \subseteq Nat \X Nat
  /\ Contacts \subseteq 0 .. 9
  /\ PointerTime \in Nat \ {0} /\ PointerTime < 16384

VARIABLES
  device, time,
  button, touch,   \* s_slots of the two files
  cursor, contact, \* s_posX, s_posY; s_pos
  ring,            \* s_queue
  sent,
  \* History: what the pump meant by the words in the ring, whether the listeners
  \* have always heard that, what they know of each button and contact, whose last
  \* event was refused, the presses of a sequence.
  meant, truthful, known, refused, downs

pointerVars == <<device, time, button, touch, cursor, contact, ring, sent,
                 meant, truthful, known, refused, downs>>

NoEvent == [kind |-> "none"]

PointerInit ==
  /\ device \in {"mouse", "touch"} /\ time = 1
  /\ button = [b \in Buttons |-> [pressTime |-> 0, lastRelease |-> 0, taps |-> 0,
                                  lastTapMods |-> 0]]
  /\ touch = [c \in Contacts |-> [pressTime |-> 0, lastRelease |-> 0, taps |-> 0, action |-> 0]]
  /\ cursor = <<0, 0>> /\ contact = [c \in Contacts |-> <<0, 0>>]
  /\ ring = <<>> /\ sent = 0
  /\ meant = <<>> /\ truthful = TRUE
  /\ known = [x \in Buttons \cup Contacts |-> <<>>] /\ refused = [x \in DOMAIN known |-> FALSE]
  /\ downs = [b \in Buttons |-> <<>>]

-----------------------------------------------------------------------------
(* The wire *)

U16(n) == n % 65536
I16(n) == IF U16(n) >= 32768 THEN U16(n) - 65536 ELSE U16(n)

Word(low, mid, high) == [low |-> low, mid |-> mid, high |-> high]

\* packCoords
PackCoords(marker, action8, p) == Word(256 * marker + action8, U16(p[1]), U16(p[2]))

Clamped(n) == IF n > 32767 THEN 32767 ELSE IF n < -32768 THEN -32768 ELSE n

\* [63:18] micros, [17:14] modifiers, [13:2] button, [1:0] action.
PackButton(b, action, mods) ==
  Word((mods % 4) * 16384 + b * 4 + action, mods \div 4 + 4 * (time % 16384), 0)

\* [63:18] micros, [17:6] touch slot, [5:0] action.
PackTouch(c, action) == Word(c * 64 + action, 4 * time, 0)

\* A variant for checking: the low byte is looked at before the marker, and of
\* it the low nibble only.
ClassByNibble(w) ==
  LET nibble == w.low % 16 IN
  CASE nibble = 5 -> "move" [] nibble = 9 -> "delta" [] nibble = 8 -> "zoom"
    [] nibble = 6 -> "scroll" [] nibble = 7 -> "drag" [] OTHER -> "button"

\* How Mouse_dispatchEvents tells the words apart: the marker byte first.
Class(w) ==
  LET action8 == w.low % 256
      marker == w.low \div 256
  IN CASE marker = 255 -> (CASE action8 = 5 -> "move" [] action8 = 9 -> "delta"
                             [] action8 = 8 -> "zoom" [] OTHER -> "none")
       [] marker = 254 /\ action8 = 6 -> "scroll"
       [] (marker # 255 /\ action8 = 7) -> "drag"
       [] OTHER -> "button"

\* The call that a word of the mouse becomes.
Call(w, class) ==
  CASE class = "button" ->
         [kind |-> class, id |-> (w.low % 16384) \div 4, action |-> w.low % 4,
          mods |-> (w.mid % 4) * 4 + w.low \div 16384, at |-> w.mid \div 4]
    [] class = "drag" -> [kind |-> class, id |-> w.low \div 256, to |-> <<I16(w.mid), I16(w.high)>>]
    [] class = "zoom" -> [kind |-> class, to |-> <<w.mid, w.high>>]
    [] class \in {"move", "delta", "scroll"} ->
         [kind |-> class, to |-> <<I16(w.mid), I16(w.high)>>]
    [] OTHER -> NoEvent

\* RingBuffer_push: a full ring refuses, and nobody looks.
PushWord(w, event) ==
  IF Len(ring) = PointerCapacity
  THEN UNCHANGED <<ring, meant>>
  ELSE ring' = Append(ring, w) /\ meant' = Append(meant, event)

-----------------------------------------------------------------------------
(* Mouse_push* *)

Up == 0
Down == 1
Repeat == 2
Full == Len(ring) = PointerCapacity

MayPoint(d) == /\ device = d /\ sent < MaxEvents
              /\ sent' = sent + 1
              /\ UNCHANGED <<device, time, cursor, truthful, known>>

PushButton(b, action, mods) ==
  /\ PushWord(PackButton(b, action, mods),
          [kind |-> "button", id |-> b, action |-> action, mods |-> mods, at |-> time])
  /\ refused' = [refused EXCEPT ![b] = Full \/ (@ /\ action = Repeat)]
  /\ UNCHANGED <<touch, contact>>

\* A variant for checking: other modifiers do not break the sequence.
ClicksAnyMods(s, mods) ==
  IF s.lastRelease # 0 /\ time - s.lastRelease < ClickWindow THEN s.taps + 1 ELSE 1

Clicks(s, mods) ==
  IF s.lastRelease # 0 /\ time - s.lastRelease < ClickWindow /\ s.lastTapMods = mods
  THEN s.taps + 1 ELSE 1

Press(b, mods) ==
  /\ MayPoint("mouse") /\ button[b].pressTime = 0
  /\ button' = [button EXCEPT ![b].taps = Clicks(button[b], mods), ![b].lastTapMods = mods,
                              ![b].pressTime = time]
  /\ downs' = [downs EXCEPT ![b] = Append(@, [at |-> time, mods |-> mods,
                                              since |-> button[b].lastRelease])]
  /\ PushButton(b, Down, mods)

\* A press of a button that is down is the OS's repeat: the slot stays as it is.
RepeatPress(b, mods) ==
  /\ MayPoint("mouse") /\ button[b].pressTime # 0
  /\ UNCHANGED <<button, downs>>
  /\ PushButton(b, Repeat, mods)

Release(b, mods) ==
  /\ MayPoint("mouse")
  /\ button' = [button EXCEPT ![b].lastRelease = time, ![b].pressTime = 0]
  /\ UNCHANGED downs
  /\ PushButton(b, Up, mods)

\* Mouse_resetTaps, from the game loop.
ResetTaps(b) ==
  /\ button[b].taps # 0
  /\ button' = [button EXCEPT ![b].taps = 0]
  /\ downs' = [downs EXCEPT ![b] = <<>>]
  /\ UNCHANGED <<device, time, touch, cursor, contact, ring, sent,
                 meant, truthful, known, refused>>

PushMotion(w, event) ==
  /\ MayPoint("mouse")
  /\ PushWord(w, event)
  /\ UNCHANGED <<button, touch, contact, refused, downs>>

PushMove(p) == PushMotion(PackCoords(255, 5, p), [kind |-> "move", to |-> p])
PushDelta(p) == PushMotion(PackCoords(255, 9, p), [kind |-> "delta", to |-> p])
PushDrag(b, p) == PushMotion(PackCoords(b, 7, p), [kind |-> "drag", id |-> b, to |-> p])
PushScroll(p) == PushMotion(PackCoords(254, 6, <<Clamped(p[1]), Clamped(p[2])>>),
                            [kind |-> "scroll", to |-> p])
PushZoom(f) == PushMotion(Word(256 * 255 + 8, f[1], f[2]), [kind |-> "zoom", to |-> f])

-----------------------------------------------------------------------------
(* Touch_pushTouchEvent *)

TouchDown == 0
TouchUp == 1
TouchMove == 2
TouchCancel == 3

TapsOf(s, action) ==
  IF action # TouchDown THEN s.taps
  ELSE IF s.lastRelease # 0 /\ time - s.lastRelease < ClickWindow THEN s.taps + 1 ELSE 1

PushTouch(c, action, p) ==
  /\ MayPoint("touch")
  /\ contact' = [contact EXCEPT ![c] = p]
  /\ touch' = [touch EXCEPT ![c] =
       [pressTime |-> CASE action = TouchDown -> time [] action = TouchMove -> @.pressTime
                        [] OTHER -> 0,
        lastRelease |-> IF action = TouchUp THEN time ELSE @.lastRelease,
        taps |-> TapsOf(@, action),
        action |-> action]]
  /\ PushWord(PackTouch(c, action), [kind |-> "touch", id |-> c, action |-> action, at |-> time, to |-> p])
  /\ refused' = [refused EXCEPT ![c] = Full]
  /\ UNCHANGED <<button, downs>>

-----------------------------------------------------------------------------
(* The game loop *)

\* What a listener should hear of an event: coordinates that fit 16 bits as they
\* are and others wrapped, a scroll at the end of the range.
Narrowed(p, kind) ==
  CASE kind \in {"move", "delta", "drag"} -> <<I16(p[1]), I16(p[2])>>
    [] kind = "scroll" -> <<Clamped(p[1]), Clamped(p[2])>>
    [] OTHER -> p

SameEvent(event, call) ==
  /\ event.kind = call.kind
  /\ \A f \in DOMAIN event \ {"to"} : f \in DOMAIN call /\ call[f] = event[f]
  /\ event.kind \notin {"button", "touch"} => call.to = Narrowed(event.to, event.kind)

DispatchOne(call) ==
  /\ ring' = Tail(ring) /\ meant' = Tail(meant)
  /\ truthful' = (truthful /\ SameEvent(meant[1], call))
  /\ UNCHANGED <<device, time, button, touch, contact, sent, refused, downs>>

\* One word of Mouse_dispatchEvents; a move and a drag set the position first.
DispatchMouse ==
  /\ device = "mouse" /\ ring # <<>>
  /\ LET call == Call(ring[1], Class(ring[1])) IN
       /\ cursor' = IF call.kind \in {"move", "drag"} THEN call.to ELSE cursor
       /\ known' = IF call.kind = "button" /\ call.action # Repeat /\ call.id \in Buttons
                  THEN [known EXCEPT ![call.id] = <<call.action>>] ELSE known
       /\ DispatchOne(call)

TouchCall(w) ==
  [kind |-> "touch", id |-> w.low \div 64, action |-> w.low % 64, at |-> w.mid \div 4]

\* One word of Touch_dispatchEvents: where the contact is now, not where it was
\* when the event was pushed.
DispatchTouch ==
  /\ device = "touch" /\ ring # <<>>
  /\ LET call == TouchCall(ring[1]) IN
       /\ known' = [known EXCEPT ![call.id] = <<call.action, contact[call.id]>>]
       /\ DispatchOne(call)
  /\ UNCHANGED cursor

PointerTick ==
  /\ time < PointerTime /\ time' = time + 1
  /\ UNCHANGED <<device, button, touch, cursor, contact, ring, sent,
                 meant, truthful, known, refused, downs>>

PointerNext ==
  \/ \E b \in Buttons, mods \in Masks : Press(b, mods) \/ RepeatPress(b, mods) \/ Release(b, mods)
  \/ \E b \in Buttons : ResetTaps(b)
  \/ \E p \in Points : PushMove(p) \/ PushDelta(p) \/ PushScroll(p)
  \/ \E b \in Buttons, p \in Points : PushDrag(b, p)
  \/ \E f \in Floats : PushZoom(f)
  \/ \E c \in Contacts, action \in TouchDown .. TouchCancel, p \in Points : PushTouch(c, action, p)
  \/ DispatchMouse \/ DispatchTouch
  \/ PointerTick

PointerSpec == PointerInit /\ [][PointerNext]_pointerVars

-----------------------------------------------------------------------------
(* Each word of the ring is dispatched as the event it was pushed for: no   *)
(* button, modifier or coordinate makes it pass for one of another class,  *)
(* and none of its fields runs into the next.                              *)
CallsSayWhatHappened == truthful

(* Once the ring is drained, what the listeners know of a button is its     *)
(* slot, and of a contact its last action and its position, unless the     *)
(* ring refused its last event: a touch in the ring may be told with the   *)
(* position of a later one, but the last word is right.                    *)
PointersAreKnown ==
  ring = <<>> =>
    /\ device = "mouse" => \A b \in Buttons :
         refused[b] \/ ((button[b].pressTime # 0) = (known[b] = <<Down>>))
    /\ device = "touch" => \A c \in Contacts :
         refused[c] \/ known[c] \in {<<>>, <<touch[c].action, contact[c]>>}

(* The clicks of a button are the presses of its last sequence: each within *)
(* the window of the release before it and with the same modifiers, as     *)
(* input/mouse.h says of a change of modifiers.                            *)
Follows(b, i) ==
  /\ downs[b][i].since # 0 /\ downs[b][i].at - downs[b][i].since < ClickWindow
  /\ downs[b][i].mods = downs[b][i - 1].mods
ClicksAreCounted ==
  \A b \in Buttons :
    LET n == button[b].taps IN
    /\ n <= Len(downs[b])
    /\ \A i \in Len(downs[b]) - n + 2 .. Len(downs[b]) : Follows(b, i)
    /\ n \in 1 .. Len(downs[b]) - 1 => ~Follows(b, Len(downs[b]) - n + 1)

(* What reaches the listeners of keys, buttons, motions and touches is what *)
(* the OS pump pushed, and what they know in the end is the state of the   *)
(* slots.                                                                  *)
InputIsHeard == ListenersKnowTheState /\ CallsSayWhatHappened /\ PointersAreKnown

(* A gesture of the key map fires once, and the clicks of a button are those *)
(* of its last sequence.                                                   *)
GesturesAreCounted == GesturesFireOnce /\ ClicksAreCounted

-----------------------------------------------------------------------------

CONSTANTS
  Listeners,
  Windows,     \* window ids, none of them Broadcast
  Broadcast,   \* FOCUS_BROADCAST, 0: the event is for every window
  FirstSlots,  \* 16: the slots of a fresh segment
  FirstRows,   \* 8: the rows of a fresh table
  MaxChanges   \* bound: changes of the registries

ASSUME RouteAssumption ==
  /\ FirstSlots \in Nat \ {0}
  /\ FirstRows \in Nat \ {0}
  /\ Broadcast \notin Windows
  /\ Listeners # {}

VARIABLES
  segs,     \* every segment allocated: its slots, used or not
  tables,   \* every row table allocated: the last one is s_rows
  rowCap,   \* s_rowCap
  globals,  \* s_listeners, s_listenerCount
  pass,     \* the delivery under way, or none
  changes,
  heard,    \* the calls of this delivery: <<scope, listener>>, in order
  start,    \* the registrations when it began
  touched,  \* the registrations removed since
  moved,    \* the row table moved since
  astray    \* a call of this delivery went to who was not registered

routeVars == <<segs, tables, rowCap, globals, pass, changes, heard, start, touched, moved, astray>>

Rows == tables[Len(tables)]
NoSeg == [seg |-> 0, count |-> 0, cap |-> 0]
NoPass == [pc |-> "none", window |-> Broadcast, i |-> 1, r |-> 1, table |-> 0, row |-> 0]

RouteInit ==
  /\ segs = <<>> /\ tables = <<<<>>>> /\ rowCap = 0
  /\ globals = NoSeg /\ pass = NoPass /\ changes = 0
  /\ heard = <<>> /\ start = <<>> /\ touched = {} /\ moved = FALSE /\ astray = FALSE

\* rowFor: the index of the row, 0 for none.
RowFor(w) == IF \E r \in DOMAIN Rows : Rows[r].win = w
             THEN CHOOSE r \in DOMAIN Rows : Rows[r].win = w ELSE 0

Items(list) == IF list.count = 0 THEN <<>> ELSE SubSeq(segs[list.seg], 1, list.count)

Scopes == {Broadcast} \union Windows
ListOf(w) == IF w = Broadcast THEN globals
             ELSE IF RowFor(w) = 0 THEN NoSeg ELSE Rows[RowFor(w)].list
Times(l, s) == Cardinality({i \in DOMAIN s : s[i] = l})
Registered == [s \in Scopes |-> Items(ListOf(s))]

-----------------------------------------------------------------------------
(* The registries *)

\* Between two deliveries, or while a listener is being called.
MayChange == /\ pass.pc \in {"none", "call"} /\ changes < MaxChanges
             /\ changes' = changes + 1
             /\ UNCHANGED <<pass, heard, start, astray>>

\* growSegment and the store of the listener behind the last.  The old
\* segment stays as it was.
Grows(list) == list.count + 1 > list.cap
Doubled(cap, first) == IF cap = 0 THEN first ELSE 2 * cap
UnusedSlots(n) == [i \in 1 .. n |-> CHOOSE l \in Listeners : TRUE]
GrownCopy(list) == Items(list) \o UnusedSlots(Doubled(list.cap, FirstSlots) - list.count)

\* A variant for checking: the fresh segment is not filled from the old one.
GrownUnfilled(list) == UnusedSlots(Doubled(list.cap, FirstSlots))
Grown(list) == GrownCopy(list)

Appended(list, l) ==
  IF Grows(list)
  THEN [list |-> [seg |-> Len(segs) + 1, count |-> list.count + 1,
                  cap |-> Doubled(list.cap, FirstSlots)],
        segs |-> Append(segs, [Grown(list) EXCEPT ![list.count + 1] = l])]
  ELSE [list |-> [list EXCEPT !.count = @ + 1],
        segs |-> [segs EXCEPT ![list.seg][list.count + 1] = l]]

\* The last one fills the hole; its own slot is not cleared.
Place(list, l) == CHOOSE i \in 1 .. list.count :
  segs[list.seg][i] = l /\ \A j \in 1 .. i - 1 : segs[list.seg][j] # l
Holed(list, l) == [segs EXCEPT ![list.seg][Place(list, l)] = segs[list.seg][list.count]]

AddListener(l) ==
  /\ MayChange
  /\ globals' = Appended(globals, l).list /\ segs' = Appended(globals, l).segs
  /\ UNCHANGED <<tables, rowCap, touched, moved>>

RemoveListener(l) ==
  /\ MayChange /\ Times(l, Items(globals)) > 0
  /\ segs' = Holed(globals, l) /\ globals' = [globals EXCEPT !.count = @ - 1]
  /\ touched' = touched \union {<<Broadcast, l>>}
  /\ UNCHANGED <<tables, rowCap, moved>>

SetRow(rows, r, list) == [rows EXCEPT ![r].list = list]
Last(ts, rows) == [ts EXCEPT ![Len(ts)] = rows]

\* growRows, when the window has no row yet and the table is full, moves it.
AttachWindow(w, l) ==
  /\ MayChange
  /\ LET r == RowFor(w)
         moves == r = 0 /\ Len(Rows) + 1 > rowCap
         rows == IF r = 0 THEN Append(Rows, [win |-> w, list |-> NoSeg]) ELSE Rows
         at == IF r = 0 THEN Len(rows) ELSE r
         new == Appended(rows[at].list, l)
     IN /\ segs' = new.segs
        /\ rowCap' = IF moves THEN Doubled(rowCap, FirstRows) ELSE rowCap
        /\ tables' = IF moves THEN Append(tables, SetRow(rows, at, new.list))
                     ELSE Last(tables, SetRow(rows, at, new.list))
        /\ moved' = (moved \/ moves)
  /\ UNCHANGED <<globals, touched>>

DetachWindow(w, l) ==
  /\ MayChange /\ Times(l, Items(ListOf(w))) > 0
  /\ segs' = Holed(ListOf(w), l)
  /\ tables' = Last(tables, SetRow(Rows, RowFor(w), [ListOf(w) EXCEPT !.count = @ - 1]))
  /\ touched' = touched \union {<<w, l>>}
  /\ UNCHANGED <<rowCap, globals, moved>>

DetachWindowAll(w) ==
  /\ MayChange /\ RowFor(w) # 0
  /\ tables' = Last(tables, SetRow(Rows, RowFor(w), [ListOf(w) EXCEPT !.count = 0]))
  /\ touched' = touched \union {<<w, l>> : l \in Listeners}
  /\ UNCHANGED <<segs, rowCap, globals, moved>>

-----------------------------------------------------------------------------
(* Key_dispatchEvents, from the pop of one event on *)

RouteUnchanged == UNCHANGED <<segs, tables, rowCap, globals, changes, start, touched, moved>>

BeginPass(w) ==
  /\ pass.pc = "none"
  /\ pass' = [NoPass EXCEPT !.pc = "global", !.window = w]
  /\ heard' = <<>> /\ start' = Registered /\ touched' = {} /\ moved' = FALSE
  /\ astray' = FALSE
  /\ UNCHANGED <<segs, tables, rowCap, globals, changes>>

\* The list a loop is at: the globals as they are now, or the row the loop
\* has a pointer to, in the table as it was when it took the pointer.
CurrentList == IF pass.row = 0 THEN globals ELSE tables[pass.table][pass.row].list
CurrentScope == IF pass.row = 0 THEN Broadcast ELSE tables[pass.table][pass.row].win

\* The next listener of the list is called.
CallNext ==
  /\ pass.pc \in {"global", "row"} /\ pass.i <= CurrentList.count
  /\ LET l == segs[CurrentList.seg][pass.i] IN
       /\ heard' = Append(heard, <<CurrentScope, l>>)
       /\ astray' = (astray \/ Times(l, Registered[CurrentScope]) = 0)
  /\ pass' = [pass EXCEPT !.pc = "call"]
  /\ RouteUnchanged

ReturnFromCall ==
  /\ pass.pc = "call"
  /\ pass' = [pass EXCEPT !.pc = IF pass.row = 0 THEN "global" ELSE "row", !.i = @ + 1]
  /\ RouteUnchanged /\ UNCHANGED <<heard, astray>>

\* deliverToWindow takes its pointer to the row of the window.
Enter(p, w) ==
  IF RowFor(w) = 0 THEN [p EXCEPT !.pc = "next"]
  ELSE [p EXCEPT !.pc = "row", !.table = Len(tables), !.row = RowFor(w), !.i = 1]

ListDone ==
  /\ pass.pc \in {"global", "row"} /\ pass.i > CurrentList.count
  /\ pass' = CASE pass.pc = "row" -> [pass EXCEPT !.pc = "next", !.r = @ + 1]
               [] pass.pc = "global" /\ pass.window = Broadcast -> [pass EXCEPT !.pc = "next"]
               [] OTHER -> Enter(pass, pass.window)
  /\ RouteUnchanged /\ UNCHANGED <<heard, astray>>

\* A broadcast goes on with the next row there is now; another event is done.
NextRow ==
  /\ pass.pc = "next"
  /\ pass' = IF pass.window = Broadcast /\ pass.r <= Len(Rows)
             THEN Enter(pass, Rows[pass.r].win) ELSE [pass EXCEPT !.pc = "done"]
  /\ RouteUnchanged /\ UNCHANGED <<heard, astray>>

\* The loop goes back to the ring.
EndPass == /\ pass.pc = "done" /\ pass' = NoPass
       /\ heard' = <<>> /\ start' = <<>> /\ touched' = {} /\ moved' = FALSE /\ astray' = FALSE
       /\ UNCHANGED <<segs, tables, rowCap, globals, changes>>

RouteNext ==
  \/ \E l \in Listeners :
       \/ AddListener(l) \/ RemoveListener(l)
       \/ \E w \in Windows : AttachWindow(w, l) \/ DetachWindow(w, l)
  \/ \E w \in Windows : DetachWindowAll(w)
  \/ \E w \in Scopes : BeginPass(w)
  \/ CallNext \/ ReturnFromCall \/ ListDone \/ NextRow \/ EndPass

RouteSpec == RouteInit /\ [][RouteNext]_routeVars

-----------------------------------------------------------------------------
InScope(w) == IF pass.window = Broadcast THEN TRUE ELSE w \in {Broadcast, pass.window}

(* An event nobody unregisters under reaches every registration of its     *)
(* scope as often as it was made, whatever grows or moves meanwhile, none  *)
(* more often than it stands in the end, and no other window.              *)
EveryRegistrationIsCalled ==
  pass.pc = "done" =>
    \A w \in Scopes, l \in Listeners :
      LET calls == Times(<<w, l>>, heard) IN
        IF InScope(w)
        THEN touched = {} => Times(l, start[w]) <= calls /\ calls <= Times(l, Registered[w])
        ELSE calls = 0

(* Those who are registered are called and nobody else: who is called is   *)
(* registered at that moment, unless the row table moved while the          *)
(* delivery held a pointer into it.                                         *)
RegistrationsAreCalled == EveryRegistrationIsCalled /\ (astray => moved)
=============================================================================
