---------------------------- MODULE WorkerThread ----------------------------
(***************************************************************************)
(* thread/thread.c: the worker engine behind every thread role.  A handle  *)
(* owns a RUNNING flag, a task ring and at most one platform thread whose  *)
(* loop pops tasks and runs the role's job on each.  One controller calls  *)
(* run, stop and free; any number of threads submit.                       *)
(*                                                                         *)
(* A push or a pop of the ring is one step here: that is what              *)
(* RingBuffer!ImplementsFifo shows of the code.                            *)
(***************************************************************************)
EXTENDS Naturals, Sequences, FiniteSets

CONSTANTS
  Submitters,      \* the threads that submit
  Tasks,           \* the tasks, each submitted once
  QueueCapacity,   \* the ring's capacity
  MaxSpawns,       \* bound: the platform threads created over the handle's life
  NoTask          \* a null task

ASSUME WorkerAssumption ==
  /\ QueueCapacity \in Nat \ {0}
  /\ MaxSpawns \in Nat
  /\ NoTask \notin Tasks

Platforms == 1 .. MaxSpawns

VARIABLES
  state,      \* Thread.state: 0 STOPPED, 1 RUNNING
  started,    \* Thread.platformStarted
  platform,   \* Thread.platform: the platform thread created last, 0 for none
  core,       \* Thread.core
  tick,       \* Thread.tickWhenIdle
  queue,      \* Thread.queue
  loop,       \* where each platform thread is in platform_main
  task,       \* the task each platform thread popped
  ctl,        \* where the controller is in run, stop or free
  sub,        \* the submit call of each submitter: its task once past the check
  freed,      \* the block is released
  accepted,   \* auxiliary: the tasks for which submit returned true, in ring order
  done        \* auxiliary: the tasks whose job has returned, in order

workerVars == <<state, started, platform, core, tick, queue, loop, task, ctl, sub,
          freed, accepted, done>>
fixed == <<core, tick>>

\* Thread_5: a stopped handle, of any kind.
WorkerInit ==
  /\ state = 0
  /\ started = FALSE
  /\ platform = 0
  /\ core \in BOOLEAN
  /\ tick \in BOOLEAN
  /\ queue = <<>>
  /\ loop = [p \in Platforms |-> "none"]
  /\ task = [p \in Platforms |-> NoTask]
  /\ ctl = "idle"
  /\ sub = [s \in Submitters |-> NoTask]
  /\ freed = FALSE
  /\ accepted = <<>>
  /\ done = <<>>

Control(from, to) == ctl = from /\ ctl' = to

-----------------------------------------------------------------------------
(* Thread_run *)

\* The state swaps from 0 to 1; a handle that is already running is left alone.
RunSwap ==
  /\ ~freed /\ platform < MaxSpawns
  /\ Control("idle", "spawn")
  /\ state = 0
  /\ state' = 1
  /\ started' = FALSE
  /\ UNCHANGED <<platform, queue, loop, task, sub, freed, accepted, done>>
  /\ UNCHANGED fixed

\* pthread_create succeeds: the new thread may run before platformStarted is set.
RunSpawn ==
  /\ Control("spawn", "mark")
  /\ platform' = platform + 1
  /\ loop' = [loop EXCEPT ![platform + 1] = "check"]
  /\ UNCHANGED <<state, started, queue, task, sub, freed, accepted, done>>
  /\ UNCHANGED fixed

RunMark ==
  /\ Control("mark", "idle")
  /\ started' = TRUE
  /\ UNCHANGED <<state, platform, queue, loop, task, sub, freed, accepted, done>>
  /\ UNCHANGED fixed

\* pthread_create fails: the handle is stopped again.
RunFail ==
  /\ Control("spawn", "idle")
  /\ state' = 0
  /\ UNCHANGED <<started, platform, queue, loop, task, sub, freed, accepted, done>>
  /\ UNCHANGED fixed

-----------------------------------------------------------------------------
(* Thread_stop, Thread_free, Thread_freeAllSystem *)

\* A variant for checking: stop only asks the loop to exit and does not join.
StopWithoutJoin ==
  /\ ~freed /\ ~core
  /\ Control("idle", "idle")
  /\ state' = 0
  /\ started' = FALSE
  /\ UNCHANGED <<platform, queue, loop, task, sub, freed, accepted, done>>
  /\ UNCHANGED fixed

\* A core refuses to be stopped.
Stop ==
  /\ ~freed /\ ~core
  /\ Control("idle", "stop_join")
  /\ state' = 0
  /\ UNCHANGED <<started, platform, queue, loop, task, sub, freed, accepted, done>>
  /\ UNCHANGED fixed

\* A variant for checking: the join does not wait for the loop to exit.
JoinWithoutWait(from, to) ==
  /\ Control(from, to)
  /\ started' = FALSE
  /\ UNCHANGED <<state, platform, queue, loop, task, sub, accepted, done>>
  /\ UNCHANGED fixed

\* joinPlatform: wait for the loop to exit, unless none was started.
Join(from, to) ==
  /\ Control(from, to)
  /\ started => loop[platform] = "exit"
  /\ started' = FALSE
  /\ UNCHANGED <<state, platform, queue, loop, task, sub, accepted, done>>
  /\ UNCHANGED fixed

StopJoin == Join("stop_join", "idle") /\ UNCHANGED freed

\* freeInternal: a core is freed only by the system shutdown, which forces it.
\* Callers of free have let go of the handle: no submit is under way or follows.
Free ==
  \E force \in BOOLEAN :
    /\ ~freed
    /\ core => force
    /\ \A s \in Submitters : sub[s] = NoTask
    /\ Control("idle", "free_join")
    /\ state' = 0
    /\ UNCHANGED <<started, platform, queue, loop, task, sub, freed, accepted, done>>
    /\ UNCHANGED fixed

\* After the join the ring is shut down and the block released.
FreeJoin == Join("free_join", "freed") /\ freed' = TRUE

-----------------------------------------------------------------------------
(* Thread_submit *)

Fresh(x) ==
  /\ \A i \in DOMAIN accepted : accepted[i] # x
  /\ \A s \in Submitters : sub[s] # x

\* The state is read first; a stopped handle refuses and nothing changes.
SubmitCheck(s, x) ==
  /\ ~freed /\ ctl # "free_join"
  /\ sub[s] = NoTask
  /\ Fresh(x)
  /\ state = 1
  /\ sub' = [sub EXCEPT ![s] = x]
  /\ UNCHANGED <<state, started, platform, queue, loop, task, ctl, freed, accepted, done>>
  /\ UNCHANGED fixed

SubmitPush(s) ==
  /\ sub[s] # NoTask
  /\ Len(queue) < QueueCapacity
  /\ queue' = Append(queue, sub[s])
  /\ accepted' = Append(accepted, sub[s])
  /\ sub' = [sub EXCEPT ![s] = NoTask]
  /\ UNCHANGED <<state, started, platform, loop, task, ctl, freed, done>>
  /\ UNCHANGED fixed

\* The ring is full: submit returns false.
SubmitFull(s) ==
  /\ sub[s] # NoTask
  /\ Len(queue) = QueueCapacity
  /\ sub' = [sub EXCEPT ![s] = NoTask]
  /\ UNCHANGED <<state, started, platform, queue, loop, task, ctl, freed, accepted, done>>
  /\ UNCHANGED fixed

-----------------------------------------------------------------------------
(* platform_main *)

\* One step of a platform thread's loop, which moves it from a point to another.
LoopStep(p, from, to) ==
  /\ loop[p] = from
  /\ loop' = [loop EXCEPT ![p] = to]
  /\ UNCHANGED <<state, started, platform, ctl, sub, freed, accepted>>
  /\ UNCHANGED fixed

\* A variant for checking: the loop does not look at the flag.
LoopGoOnAlways(p) ==
  /\ LoopStep(p, "check", "pop")
  /\ UNCHANGED <<queue, task, done>>

LoopGoOn(p) ==
  /\ state = 1
  /\ LoopStep(p, "check", "pop")
  /\ UNCHANGED <<queue, task, done>>

LoopExit(p) ==
  /\ state # 1
  /\ LoopStep(p, "check", "exit")
  /\ UNCHANGED <<queue, task, done>>

\* A variant for checking: the loop drops the task it popped when it finds the
\* handle stopped.
LoopPopOrDrop(p) ==
  /\ queue # <<>>
  /\ LoopStep(p, "pop", IF state = 1 THEN "job" ELSE "check")
  /\ queue' = Tail(queue)
  /\ task' = [task EXCEPT ![p] = IF state = 1 THEN Head(queue) ELSE NoTask]
  /\ UNCHANGED done

LoopPop(p) ==
  /\ queue # <<>>
  /\ LoopStep(p, "pop", "job")
  /\ queue' = Tail(queue)
  /\ task' = [task EXCEPT ![p] = Head(queue)]
  /\ UNCHANGED done

\* A variant for checking: the loop ends when the ring is empty.
LoopIdleExits(p) ==
  /\ queue = <<>>
  /\ LoopStep(p, "pop", IF tick THEN "job" ELSE "exit")
  /\ UNCHANGED <<queue, task, done>>

\* The ring is empty: run the job on no task, or sleep for a millisecond.
LoopIdle(p) ==
  /\ queue = <<>>
  /\ LoopStep(p, "pop", IF tick THEN "job" ELSE "sleep")
  /\ UNCHANGED <<queue, task, done>>

LoopWake(p) ==
  /\ LoopStep(p, "sleep", "check")
  /\ UNCHANGED <<queue, task, done>>

\* The job returns.
LoopJob(p) ==
  /\ LoopStep(p, "job", "check")
  /\ done' = IF task[p] = NoTask THEN done ELSE Append(done, task[p])
  /\ task' = [task EXCEPT ![p] = NoTask]
  /\ UNCHANGED queue

Loop(p) ==
  \/ LoopGoOn(p) \/ LoopExit(p)
  \/ LoopPop(p) \/ LoopIdle(p) \/ LoopWake(p) \/ LoopJob(p)

Controller ==
  \/ RunSwap \/ RunSpawn \/ RunMark \/ RunFail
  \/ Stop \/ StopJoin \/ Free \/ FreeJoin

Submit(s) ==
  \/ \E x \in Tasks : SubmitCheck(s, x)
  \/ SubmitPush(s) \/ SubmitFull(s)

WorkerNext ==
  \/ Controller
  \/ \E s \in Submitters : Submit(s)
  \/ \E p \in Platforms : Loop(p)

WorkerSpec == WorkerInit /\ [][WorkerNext]_workerVars

\* A running platform thread and a controller inside a call are not suspended
\* for ever, and a job returns; nobody has to call anything.
WorkerFairness ==
  /\ \A p \in Platforms : WF_workerVars(Loop(p))
  /\ WF_workerVars(RunSpawn \/ RunMark \/ StopJoin \/ FreeJoin)

WorkerFairSpec == WorkerSpec /\ WorkerFairness

-----------------------------------------------------------------------------
Alive(p) == loop[p] \notin {"none", "exit"}

\* The values the variables take.
WorkerTypeOK ==
  /\ state \in {0, 1}
  /\ started \in BOOLEAN /\ core \in BOOLEAN /\ tick \in BOOLEAN /\ freed \in BOOLEAN
  /\ platform \in 0 .. MaxSpawns
  /\ queue \in Seq(Tasks) /\ Len(queue) <= QueueCapacity
  /\ loop \in [Platforms -> {"none", "check", "pop", "job", "sleep", "exit"}]
  /\ task \in [Platforms -> Tasks \cup {NoTask}]
  /\ ctl \in {"idle", "spawn", "mark", "stop_join", "free_join", "freed"}
  /\ sub \in [Submitters -> Tasks \cup {NoTask}]
  /\ accepted \in Seq(Tasks) /\ done \in Seq(Tasks)

\* A handle has at most one live loop, the one of its current platform thread,
\* through any sequence of run, stop and run again.
OneLoop ==
  \A p \in Platforms : Alive(p) => p = platform

\* A loop lives on from its creation to the join of a stop or a free: platformStarted
\* covers it, or run is about to set it.  Where the controller is decides the flag.
ControlKnows ==
  /\ \A p \in Platforms : Alive(p) => started \/ ctl = "mark"
  /\ started => platform > 0 /\ ctl \in {"idle", "stop_join", "free_join"}
  /\ ctl \in {"spawn", "mark"} => state = 1
  /\ ctl \in {"stop_join", "free_join", "freed"} => state = 0
  /\ ctl = "idle" => (started <=> state = 1)
  /\ ctl = "spawn" => platform < MaxSpawns
  /\ ctl = "mark" => platform > 0
  /\ freed <=> ctl = "freed"

\* Only a loop inside its job holds a task.
TaskInJob == \A p \in Platforms : task[p] # NoTask => loop[p] = "job"

\* The types, and one loop at a time over a ring within its bound, with what that
\* rests on.
WorkerInv == WorkerTypeOK /\ OneLoop /\ ControlKnows /\ TaskInJob

\* Between calls, a handle that is not running has no loop left: when stop has
\* returned no job runs, and nothing touches a block that was freed.
QuietWhenStopped ==
  (state = 0 /\ ctl = "idle") \/ freed =>
    \A p \in Platforms : ~Alive(p)

InJob == IF platform > 0 /\ task[platform] # NoTask THEN <<task[platform]>> ELSE <<>>

\* Every task that submit accepted is done, in its job, or still in the ring, in
\* the order it was accepted: none is lost, run twice or overtaken, also when
\* it was accepted while the handle was being stopped.
AcceptedInOrder == accepted = done \o InJob \o queue

Done(x) == \E i \in DOMAIN done : done[i] = x
Queued(x) == \E i \in DOMAIN queue : queue[i] = x

\* A task in the ring of a handle that stays running is run, the tasks a stop
\* left behind by the next run included.
QueuedIsRun ==
  \A x \in Tasks : Queued(x) /\ state = 1 ~> Done(x) \/ state = 0

\* stop and free return.
StopReturns == ctl \in {"stop_join", "free_join"} ~> ctl \in {"idle", "freed"}
=============================================================================
