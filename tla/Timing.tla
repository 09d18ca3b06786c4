------------------------------ MODULE Timing ------------------------------
(***************************************************************************)
(* The time that the engine counts: engine/loop.c turns the milliseconds   *)
(* that went by into fixed steps, at most four a pass, until another       *)
(* thread or the tick itself stops it; time/clock.c scales and freezes     *)
(* them tick by tick; the timer of time/nanotime.c follows such a clock.   *)
(* Scales are counted in halves, so that a half is a scale.                *)
(***************************************************************************)
EXTENDS Integers

CONSTANTS
  Frame,      \* frame_ms
  Scales,     \* the time scales, in halves
  MaxMono,    \* bound: the monotonic clock stops here
  MaxSettings \* bound: the calls of setTimeScale, setPaused and reset

\* Loop_run returns at once when frame_ms is not positive.
ASSUME TimingAssumption ==
  /\ Frame \in Nat \ {0}
  /\ Scales \subseteq Nat

VARIABLES
  watch,      \* "loop" or "clock": what the behaviour uses
  mono,       \* CLOCK_MONOTONIC in milliseconds
  phase,         \* where Loop_run is
  running, acc, prev, steps,
  ticks, began, stalled, late, \* history: the ticks of this run and where it began,
                               \* whether a pass found four steps due, and the ticks
                               \* begun after a stop
  dial,       \* the Clock
  timer,      \* the NanoTimer that is ticked with it
  settings, due, scans, stale \* history: the settings made, the time at scale since
                               \* the reset, the clock's ticks since, and whether a
                               \* setting came between two of them

loopVars == <<phase, running, acc, prev, steps, ticks, began, stalled, late>>
dialVars == <<dial, timer, settings, due, scans, stale>>
timingVars == <<watch, mono, loopVars, dialVars>>

TimingInit ==
  /\ watch \in {"loop", "clock"} /\ mono = 0
  /\ phase = "out" /\ running = FALSE /\ acc = 0 /\ prev = 0 /\ steps = 0
  /\ ticks = 0 /\ began = 0 /\ stalled = FALSE /\ late = 0
  /\ dial = [scale |-> 2, paused |-> FALSE, last |-> 0, virtual |-> 0]
  /\ timer = [current |-> 0, total |-> 0]
  /\ settings = 0 /\ due = 0 /\ scans = 0 /\ stale = FALSE

Rate(d) == IF d.paused THEN 0 ELSE d.scale

Elapse ==
  /\ mono < MaxMono /\ mono' = mono + 1
  /\ due' = IF watch = "clock" THEN due + Rate(dial) ELSE due
  /\ UNCHANGED <<watch, loopVars, dial, timer, settings, scans, stale>>

-----------------------------------------------------------------------------
(* Loop_run, Loop_stop *)

Goto(from, to) == watch = "loop" /\ phase = from /\ phase' = to /\ UNCHANGED <<watch, mono, dialVars>>

RunLoop ==
  /\ Goto("out", "test")
  /\ running' = TRUE /\ acc' = 0 /\ prev' = mono
  /\ ticks' = 0 /\ began' = mono /\ stalled' = FALSE /\ late' = 0
  /\ UNCHANGED steps

LeaveLoop ==
  /\ Goto("test", "out") /\ ~running
  /\ UNCHANGED <<running, acc, prev, steps, ticks, began, stalled, late>>

\* A variant for checking: a pass begins whatever the flag says.
SampleUnasked ==
  /\ Goto("test", "step")
  /\ acc' = acc + mono - prev /\ prev' = mono /\ steps' = 0
  /\ stalled' = (stalled \/ acc + mono - prev >= 4 * Frame)
  /\ UNCHANGED <<running, ticks, began, late>>

Sample ==
  /\ Goto("test", "step") /\ running
  /\ acc' = acc + mono - prev /\ prev' = mono /\ steps' = 0
  /\ stalled' = (stalled \/ acc + mono - prev >= 4 * Frame)
  /\ UNCHANGED <<running, ticks, began, late>>

\* One step: the tick, which may stop the loop, then the flag.
StepOnce(stops) ==
  /\ phase = "step" /\ acc >= Frame /\ steps < 4
  /\ Goto("step", IF running /\ ~stops THEN "step" ELSE "clamp")
  /\ running' = (running /\ ~stops)
  /\ acc' = acc - Frame /\ steps' = steps + 1 /\ ticks' = ticks + 1
  /\ late' = IF running THEN late ELSE late + 1
  /\ UNCHANGED <<prev, began, stalled>>

NoStep ==
  /\ Goto("step", "clamp") /\ (acc < Frame \/ steps = 4)
  /\ UNCHANGED <<running, acc, prev, steps, ticks, began, stalled, late>>

\* A variant for checking: the clamp comes a step too late.
ClampAfterFive ==
  /\ Goto("clamp", "test")
  /\ acc' = IF steps = 5 THEN 0 ELSE acc
  /\ UNCHANGED <<running, prev, steps, ticks, began, stalled, late>>

\* Four steps in a pass: what is left of the backlog is dropped.
ClampBacklog ==
  /\ Goto("clamp", "test")
  /\ acc' = IF steps = 4 THEN 0 ELSE acc
  /\ UNCHANGED <<running, prev, steps, ticks, began, stalled, late>>

\* From any thread, at any time; before Loop_run has set the flag it is lost.
StopLoop ==
  /\ watch = "loop" /\ running' = FALSE
  /\ UNCHANGED <<watch, mono, dialVars, phase, acc, prev, steps, ticks, began, stalled, late>>

-----------------------------------------------------------------------------
(* Clock_*, NanoTimer_tickWithClock *)

\* A variant for checking: a paused clock keeps its anchor.
TickedUnanchored(d) ==
  IF d.paused THEN d
  ELSE [d EXCEPT !.last = mono, !.virtual = @ + ((mono - d.last) * d.scale) \div 2]

\* Each interval is scaled and cut to whole milliseconds by itself.
Ticked(d) == [d EXCEPT !.last = mono, !.virtual = @ + ((mono - d.last) * Rate(d)) \div 2]

TickClock ==
  /\ watch = "clock" /\ timer.current < mono
  /\ dial' = Ticked(dial)
  /\ timer' = [current |-> mono, total |-> timer.total + (mono - timer.current) * Rate(dial)]
  /\ scans' = scans + 1
  /\ UNCHANGED <<watch, mono, loopVars, settings, due, stale>>

Setting(d) ==
  /\ watch = "clock" /\ settings < MaxSettings /\ settings' = settings + 1
  /\ dial' = d /\ d # dial
  /\ stale' = (stale \/ timer.current # mono)
  /\ UNCHANGED <<watch, mono, loopVars, timer, due, scans>>

SetTimeScale(s) == Setting([dial EXCEPT !.scale = s])
SetPaused(p) == Setting([dial EXCEPT !.paused = p])

\* Clock_reset and NanoTimer_reset.
ResetClock ==
  /\ watch = "clock" /\ settings < MaxSettings /\ settings' = settings + 1
  /\ dial' = [dial EXCEPT !.last = mono, !.virtual = 0]
  /\ timer' = [current |-> mono, total |-> 0]
  /\ due' = 0 /\ scans' = 0 /\ stale' = FALSE
  /\ UNCHANGED <<watch, mono, loopVars>>

-----------------------------------------------------------------------------
InLoop == LeaveLoop \/ Sample \/ StepOnce(FALSE) \/ NoStep \/ ClampBacklog

TimingNext ==
  \/ Elapse
  \/ RunLoop \/ InLoop \/ StepOnce(TRUE) \/ StopLoop
  \/ TickClock \/ ResetClock
  \/ \E s \in Scales : SetTimeScale(s)
  \/ \E p \in BOOLEAN : SetPaused(p)

TimingSpec == TimingInit /\ [][TimingNext]_timingVars

-----------------------------------------------------------------------------
(* Between two passes less than a frame is owed, and as long as no pass     *)
(* found four steps due, as many ticks were made as frames went by; after  *)
(* a stop at most one tick begins, the one that the pass had come to.      *)
TicksFollowTime ==
  /\ phase = "test" => acc < Frame \/ ~running
  /\ phase = "test" /\ running /\ ~stalled => ticks = (prev - began) \div Frame
  /\ ticks * Frame <= mono - began
  /\ late <= 1

(* As of its last tick a clock that was set only right after a tick has     *)
(* counted the time at scale, less than a millisecond short for each tick, *)
(* and the timer that follows it has counted it to the full.               *)
ClockFollowsTime ==
  timer.current = mono /\ ~stale =>
    /\ 2 * dial.virtual <= due
    /\ due - 2 * dial.virtual <= scans
    /\ timer.total = due

\* Steps, ticks and scaled time follow the milliseconds that went by.
TimeIsCounted == TicksFollowTime /\ ClockFollowsTime

(* A stop of a loop that runs ends it, as "ends the loop promptly" of       *)
(* engine/loop.c has it; one that comes before Loop_run sets the flag does *)
(* not.                                                                    *)
StopEndsTheLoop == phase # "out" /\ ~running ~> phase = "out"
=============================================================================
