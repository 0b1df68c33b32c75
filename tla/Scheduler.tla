------------------------------ MODULE Scheduler ------------------------------
(***************************************************************************)
(* The playback slot of the schedule runtime (src/management/scheduler.go, *)
(* Scheduler): fires by priority, the queue of important plays, interrupts *)
(* with their deadline and the play they restore, and the goroutines that  *)
(* are inside Player.Play.                                                 *)
(*                                                                         *)
(* Every action but Return and SkipDone is one section under s.mu. A tick  *)
(* that fires several tasks is the same as several ticks that fire one     *)
(* each, so one action fires one task; wall-clock time is left out: a task *)
(* may be due, and a deadline may have passed, at any tick. Fires that are *)
(* skipped, and stop-action tasks, which call the Player and touch no slot,*)
(* leave every variable as it is and are not actions.                      *)
(***************************************************************************)
EXTENDS Integers, Sequences, FiniteSets

CONSTANTS
  Tasks,       \* task ids
  Prio,        \* the priority of each task: 1 normal, 2 important, 3 critical
  Mode,        \* "play", or "timed" / "oneshot" for an interrupt task
  Durations,   \* durations of the public Interrupt: TRUE stands for positive
  Keys,        \* identities of pendingPlay objects; bounds those alive at once
  Runs,        \* Play goroutines; bounds those alive at once
  MaxQueue,    \* maxPlayQueue
  NoTask, NoKey

ASSUME SchedulerAssumption ==
  /\ NoTask \notin Tasks
  /\ NoKey \notin Keys
  /\ Prio \in [Tasks -> 1..3]
  /\ Mode \in [Tasks -> {"play", "timed", "oneshot"}]
  /\ Durations \subseteq BOOLEAN
  /\ MaxQueue \in Nat \ {0}

VARIABLES
  running,     \* s.running; the run's context is live exactly while running
  loop,        \* the run loop has not returned yet
  attached,    \* a Player is attached
  playing, queue, resume,
  deadline,    \* s.interruptEnd is set
  inflight,
  run,         \* the Play goroutines
  restored     \* history: an interrupted play has been given the slot back

lifeVars == <<running, loop, attached>>
slotVars == <<playing, queue, resume, deadline, inflight, run, restored>>
vars == <<lifeVars, slotVars>>

-----------------------------------------------------------------------------
\* A pendingPlay: key is its identity (the code compares pointers), id its
\* task, timed whether it was started as an interrupt with a duration.
Play == [key : Keys, id : Tasks \cup {NoTask}, prio : 1..3,
         interrupt : BOOLEAN, timed : BOOLEAN]
NoPlay == [key |-> NoKey, id |-> NoTask, prio |-> 1,
           interrupt |-> FALSE, timed |-> FALSE]

TaskPlay(t, k) == [key |-> k, id |-> t, prio |-> Prio[t],
                   interrupt |-> Mode[t] # "play", timed |-> Mode[t] = "timed"]
\* The priority of a requested interrupt is never compared: while it plays
\* every fire is skipped.
Requested(k, timed) == [key |-> k, id |-> NoTask, prio |-> 1,
                        interrupt |-> TRUE, timed |-> timed]

\* A Play goroutine: inside Play, inside Skip after a failed Play, or on its
\* way to playEndedLocked.
Stages == {"free", "playing", "skipping", "ending"}
Run == [stage : Stages, pe : Play \cup {NoPlay}, cancelled : BOOLEAN]
FreeRun == [stage |-> "free", pe |-> NoPlay, cancelled |-> FALSE]
Live(r) == run[r].stage # "free"

Queued == {queue[i] : i \in 1..Len(queue)}
FreshKeys == {k \in Keys :
  /\ k # playing.key /\ k # resume.key
  /\ \A pe \in Queued : k # pe.key
  /\ \A r \in Runs : k # run[r].pe.key}

InterruptActive == playing # NoPlay /\ playing.interrupt

Init ==
  /\ running = FALSE /\ loop = FALSE /\ attached \in BOOLEAN
  /\ playing = NoPlay /\ queue = <<>> /\ resume = NoPlay /\ deadline = FALSE
  /\ inflight = {}
  /\ run = [r \in Runs |-> FreeRun]
  /\ restored = FALSE

-----------------------------------------------------------------------------
(***************************************************************************)
(* Starting and cancelling plays.                                          *)
(***************************************************************************)

\* startPlayLocked: with a Player and a live run context pe takes a goroutine
\* and the slot; otherwise it is dropped and the slot keeps what it held.
CanStart == attached /\ running

StartPlay(pe, runs, flight, held) ==
  IF CanStart
    THEN \E r \in Runs :
           /\ runs[r].stage = "free"
           /\ run' = [runs EXCEPT ![r] =
                        [stage |-> "playing", pe |-> pe, cancelled |-> FALSE]]
           /\ playing' = pe
           /\ inflight' = flight \cup ({pe.id} \ {NoTask})
    ELSE run' = runs /\ playing' = held /\ inflight' = flight

\* pe.cancel: the context of the goroutine pe was last given; the earlier ones
\* of a restored play were cancelled before.
Cancel(pe) ==
  [r \in Runs |-> IF Live(r) /\ run[r].pe = pe
                    THEN [run[r] EXCEPT !.cancelled = TRUE] ELSE run[r]]

StartInterrupt_NoCancel(pe) ==
  /\ resume' = IF pe.timed THEN playing ELSE NoPlay
  /\ deadline' = pe.timed
  /\ StartPlay(pe, run, inflight, playing)

\* startInterruptLocked
StartInterrupt(pe) ==
  /\ resume' = IF pe.timed THEN playing ELSE NoPlay
  /\ deadline' = pe.timed
  /\ StartPlay(pe, Cancel(playing), inflight, playing)

-----------------------------------------------------------------------------
(***************************************************************************)
(* A tick fires a task that is due.                                        *)
(***************************************************************************)

\* A fire goes on only for a task with no Play in flight and no active
\* interrupt.
Due(t) == loop /\ t \notin inflight /\ ~InterruptActive

FireInterrupt(t) ==
  /\ Due(t) /\ Mode[t] # "play"
  /\ \E k \in FreshKeys : StartInterrupt(TaskPlay(t, k))
  /\ UNCHANGED <<lifeVars, queue, restored>>

FireIdle(t) ==
  /\ Due(t) /\ Mode[t] = "play"
  /\ playing = NoPlay /\ CanStart
  /\ \E k \in FreshKeys : StartPlay(TaskPlay(t, k), run, inflight, playing)
  /\ UNCHANGED <<lifeVars, queue, resume, deadline, restored>>

Outranks(t) == Prio[t] = 3 /\ playing.prio < 3

FireCritical(t) ==
  /\ Due(t) /\ Mode[t] = "play"
  /\ playing # NoPlay /\ Outranks(t)
  /\ \E k \in FreshKeys :
       StartPlay(TaskPlay(t, k), Cancel(playing), inflight, playing)
  /\ UNCHANGED <<lifeVars, queue, resume, deadline, restored>>

Room_OffByOne == Len(queue) <= MaxQueue
Room == Len(queue) < MaxQueue

FireImportant(t) ==
  /\ Due(t) /\ Mode[t] = "play"
  /\ playing # NoPlay /\ Prio[t] = 2 /\ playing.prio < 2
  /\ Room
  /\ \E k \in FreshKeys : queue' = Append(queue, TaskPlay(t, k))
  /\ UNCHANGED <<lifeVars, playing, resume, deadline, inflight, run, restored>>

Expire_KeepsPlaying ==
  /\ loop /\ InterruptActive /\ deadline
  /\ deadline' = FALSE
  /\ UNCHANGED <<lifeVars, playing, queue, resume, inflight, run, restored>>

\* expireInterruptLocked: the deadline of the active interrupt has passed. Its
\* goroutine restores the interrupted play when it returns.
Expire ==
  /\ loop /\ InterruptActive /\ deadline
  /\ run' = Cancel(playing)
  /\ deadline' = FALSE
  /\ UNCHANGED <<lifeVars, playing, queue, resume, inflight, restored>>

-----------------------------------------------------------------------------
(***************************************************************************)
(* The public operations.                                                  *)
(***************************************************************************)

Interrupt ==
  /\ running
  /\ \E k \in FreshKeys, timed \in Durations : StartInterrupt(Requested(k, timed))
  /\ UNCHANGED <<lifeVars, queue, restored>>

\* Start abandons whatever a previous run left in flight.
CancelAll == [r \in Runs |-> IF Live(r) THEN [run[r] EXCEPT !.cancelled = TRUE]
                                        ELSE run[r]]

Start ==
  /\ ~running
  /\ running' = TRUE /\ loop' = TRUE
  /\ run' = CancelAll
  /\ UNCHANGED <<attached, playing, queue, resume, deadline, inflight, restored>>

\* Stop drops the slot, the queue and the interrupt; the goroutines inside Play
\* are cancelled and not waited for. A tick already under way may still fire.
Stop ==
  /\ running
  /\ running' = FALSE
  /\ run' = CancelAll
  /\ playing' = NoPlay /\ queue' = <<>> /\ resume' = NoPlay /\ deadline' = FALSE
  /\ UNCHANGED <<loop, attached, inflight, restored>>

LoopExits ==
  /\ loop /\ ~running
  /\ loop' = FALSE
  /\ UNCHANGED <<running, attached, slotVars>>

SetPlayer ==
  /\ attached' = ~attached
  /\ UNCHANGED <<running, loop, slotVars>>

-----------------------------------------------------------------------------
(***************************************************************************)
(* The Play goroutines.                                                    *)
(***************************************************************************)

\* Play returns. After an error handlePlayError calls Skip when the health
\* policy says so and the context is not cancelled.
Return(r) ==
  /\ run[r].stage = "playing"
  /\ \E s \in {"ending"} \cup (IF run[r].cancelled THEN {} ELSE {"skipping"}) :
       run' = [run EXCEPT ![r] = [@ EXCEPT !.stage = s]]
  /\ UNCHANGED <<lifeVars, playing, queue, resume, deadline, inflight, restored>>

SkipDone(r) ==
  /\ run[r].stage = "skipping"
  /\ run' = [run EXCEPT ![r] = [@ EXCEPT !.stage = "ending"]]
  /\ UNCHANGED <<lifeVars, playing, queue, resume, deadline, inflight, restored>>

\* drainLocked: the first queued play that can be started takes the slot. With
\* no Player, or on a stopped scheduler, all of them are dropped.
Drain_Nothing(runs, flight) ==
  /\ playing' = NoPlay /\ run' = runs /\ inflight' = flight
  /\ UNCHANGED queue

Drain(runs, flight) ==
  IF queue # <<>> /\ CanStart
    THEN /\ StartPlay(Head(queue), runs, flight, NoPlay)
         /\ queue' = Tail(queue)
    ELSE /\ playing' = NoPlay /\ queue' = <<>>
         /\ run' = runs /\ inflight' = flight

\* playEndedLocked clears the marker of the task in any case.
Unmarked_OnlyCurrent(r) ==
  IF playing = run[r].pe THEN inflight \ {run[r].pe.id} ELSE inflight
Unmarked(r) == inflight \ {run[r].pe.id}

\* "When the goroutine is still the current playback" (s.playing == pe).
IsCurrent_Uncancelled(r) == playing = run[r].pe /\ ~run[r].cancelled
IsCurrent_Any(r) == playing # NoPlay
IsCurrent(r) == playing = run[r].pe

\* The current playback is an interrupt and gives the slot back to the play it
\* interrupted.
Restores(r) == IsCurrent(r) /\ run[r].pe.interrupt /\ resume # NoPlay /\ CanStart

\* playEndedLocked: the current playback frees the slot; an interrupt gives it
\* back to the play it interrupted, and otherwise the queue drains into it.
PlayEnded(r) ==
  LET interrupt == run[r].pe.interrupt
      runs      == [run EXCEPT ![r] = FreeRun]
      flight    == Unmarked(r)
  IN /\ run[r].stage = "ending"
     /\ restored' = (restored \/ Restores(r))
     /\ IF IsCurrent(r)
          THEN /\ deadline' = (deadline /\ ~interrupt)
               /\ resume' = IF interrupt THEN NoPlay ELSE resume
               /\ IF Restores(r)
                    THEN StartPlay(resume, runs, flight, NoPlay) /\ UNCHANGED queue
                    ELSE Drain(runs, flight)
          ELSE /\ run' = runs /\ inflight' = flight
               /\ UNCHANGED <<playing, queue, resume, deadline>>
     /\ UNCHANGED lifeVars

-----------------------------------------------------------------------------
Firing(t) == FireInterrupt(t) \/ FireIdle(t) \/ FireCritical(t) \/ FireImportant(t)

Operation == Interrupt \/ Start \/ Stop \/ SetPlayer

Next ==
  \/ \E t \in Tasks : Firing(t)
  \/ Expire \/ LoopExits \/ Operation
  \/ \E r \in Runs : Return(r) \/ SkipDone(r) \/ PlayEnded(r)

Spec == Init /\ [][Next]_vars

(***************************************************************************)
(* Fairness: the run loop ticks as long as the scheduler runs, so a        *)
(* deadline that has passed is seen; the goroutines go on; a Player whose  *)
(* context is cancelled returns. Nothing has to be fired, and a Play that  *)
(* nobody cancels may go on forever.                                       *)
(***************************************************************************)
Fairness ==
  /\ WF_vars(Expire)
  /\ \A r \in Runs :
       /\ WF_vars(run[r].cancelled /\ Return(r))
       /\ WF_vars(SkipDone(r)) /\ WF_vars(PlayEnded(r))

FairSpec == Spec /\ Fairness

-----------------------------------------------------------------------------
(***************************************************************************)
(* Properties.                                                             *)
(***************************************************************************)

\* Every variable has its type and the queue stays within its cap.
TypeOK ==
  /\ running \in BOOLEAN /\ loop \in BOOLEAN /\ attached \in BOOLEAN
  /\ playing \in Play \cup {NoPlay}
  /\ queue \in Seq(Play) /\ Len(queue) <= MaxQueue
  /\ resume \in Play \cup {NoPlay} /\ deadline \in BOOLEAN
  /\ inflight \subseteq Tasks
  /\ run \in [Runs -> Run] /\ restored \in BOOLEAN

\* "queue is non-empty only while playing is non-nil": no play waits behind an
\* empty slot, where nothing would ever drain it.
QueueBacked == queue # <<>> => playing # NoPlay

\* The slot is always held by a goroutine that has still to come back and free
\* it: whatever preempts, interrupts, restores or stops, the scheduler is
\* never busy with nothing.
SlotBacked == playing # NoPlay => \E r \in Runs : Live(r) /\ run[r].pe = playing

\* "disabling, modifying or Stop never leave [the in-flight marker]
\* permanently stuck": a marked task has a goroutine that will clear it, so it
\* can fire again.
MarkersBacked == \A t \in inflight : \E r \in Runs : Live(r) /\ run[r].pe.id = t

\* "At most one target plays at a time": of the goroutines inside Play at most
\* one has not been told to stop. It holds until a timed interrupt gives the
\* slot back for the first time, see OneTarget.
OneTarget ==
  \A r, s \in Runs :
    /\ run[r].stage = "playing" /\ ~run[r].cancelled
    /\ run[s].stage = "playing" /\ ~run[s].cancelled
    => r = s
OneTargetUntilRestore == ~restored => OneTarget

\* A play that has not returned loses the slot to an interrupt or to a play of
\* strictly higher priority and to nothing else, unless the scheduler stops (or
\* an interrupted play was restored, as above).
PreemptsUpwards ==
  [][(/\ playing # NoPlay /\ playing' # playing /\ running' /\ ~restored'
      /\ \E r \in Runs : Live(r)' /\ run'[r].pe = playing)
       => playing'.interrupt \/ playing'.prio > playing.prio]_vars

\* A timed interrupt gives the slot up. (Of the interrupts of tasks: a request
\* made while an interrupt plays restores that interrupt without a deadline.)
InterruptEnds ==
  \A k \in Keys :
    (InterruptActive /\ playing.key = k /\ deadline) ~> (playing.key # k)

\* A queued play is started, or dropped for want of a Player, provided that
\* plays return and interrupts stop coming.
InQueue(k) == \E pe \in Queued : pe.key = k
QueueDrains ==
  (<>[]~InterruptActive /\ \A r \in Runs : []<>(run[r].stage # "playing"))
    => \A k \in Keys : InQueue(k) ~> ~InQueue(k)
=============================================================================
