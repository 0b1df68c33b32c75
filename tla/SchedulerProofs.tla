--------------------------- MODULE SchedulerProofs ---------------------------
(***************************************************************************)
(* Proofs about the playback slot (Scheduler), for any tasks, priorities,  *)
(* modes and bounds. The first part holds whatever the Player and the      *)
(* operator do. The second holds until a timed interrupt gives the slot    *)
(* back for the first time: after that two targets may play at once.       *)
(***************************************************************************)
EXTENDS Scheduler, TLAPS

USE SchedulerAssumption
USE DEF lifeVars

-----------------------------------------------------------------------------
(***************************************************************************)
(* The slot, the queue and the markers are backed by goroutines.           *)
(***************************************************************************)

\* A set of goroutines as the actions leave it: a free one has no play, and a
\* live one has one.
RunsOK(runs) ==
  /\ runs \in [Runs -> Run]
  /\ \A r \in Runs : IF runs[r].stage = "free" THEN runs[r] = FreeRun
                                               ELSE runs[r].pe \in Play
HoldsSlot(runs, p) ==
  p # NoPlay => \E r \in Runs : runs[r].stage # "free" /\ runs[r].pe = p
HoldMarkers(runs, flight) ==
  \A t \in flight : \E r \in Runs : runs[r].stage # "free" /\ runs[r].pe.id = t

\* The inductive invariant.
IInv == TypeOK /\ RunsOK(run) /\ QueueBacked /\ SlotBacked /\ MarkersBacked

\* "No play" is not a play.
LEMMA NoPlayType == NoPlay \notin Play
  BY DEF NoPlay, Play

\* A play of a task and a requested interrupt have the type of a play, and
\* their fields are what they were built from.
LEMMA NewPlayType ==
  /\ \A t \in Tasks, k \in Keys :
       /\ TaskPlay(t, k) \in Play /\ TaskPlay(t, k).key = k
       /\ TaskPlay(t, k).prio = Prio[t]
       /\ TaskPlay(t, k).interrupt = (Mode[t] # "play")
       /\ TaskPlay(t, k).timed = (Mode[t] = "timed")
  /\ \A k \in Keys, timed \in BOOLEAN :
       /\ Requested(k, timed) \in Play /\ Requested(k, timed).key = k
       /\ Requested(k, timed).interrupt = TRUE
       /\ Requested(k, timed).timed = timed
  BY DEF TaskPlay, Requested, Play

\* Fresh identities are identities.
LEMMA FreshType == FreshKeys \subseteq Keys
  BY DEF FreshKeys

\* Cancelling a context changes nothing else of a goroutine.
LEMMA CancelledType ==
  \A w \in Run : /\ [w EXCEPT !.cancelled = TRUE] \in Run
                 /\ [w EXCEPT !.cancelled = TRUE].stage = w.stage
                 /\ [w EXCEPT !.cancelled = TRUE].pe = w.pe
  BY DEF Run

\* Cancelling a play changes no goroutine but for its context.
LEMMA CancelOK ==
  ASSUME IInv, NEW p
  PROVE  /\ RunsOK(Cancel(p)) /\ HoldsSlot(Cancel(p), playing)
         /\ HoldMarkers(Cancel(p), inflight)
         /\ \A r \in Runs : /\ Cancel(p)[r].stage = run[r].stage
                            /\ Cancel(p)[r].pe = run[r].pe
<1>1. /\ run \in [Runs -> Run]
      /\ \A r \in Runs : IF run[r].stage = "free" THEN run[r] = FreeRun
                                                  ELSE run[r].pe \in Play
  BY DEF IInv, RunsOK
<1>2. \A r \in Runs : /\ Cancel(p)[r] \in Run
                      /\ Cancel(p)[r].stage = run[r].stage
                      /\ Cancel(p)[r].pe = run[r].pe
                      /\ run[r].stage = "free" => Cancel(p)[r] = run[r]
  BY <1>1, CancelledType DEF Cancel, Live
<1>3. Cancel(p) \in [Runs -> Run]
  BY <1>2 DEF Cancel
<1>4. SlotBacked /\ MarkersBacked
  BY DEF IInv
<1> DEFINE runs == Cancel(p)
<1>5. /\ runs \in [Runs -> Run]
      /\ \A r \in Runs : /\ runs[r].stage = run[r].stage /\ runs[r].pe = run[r].pe
                         /\ run[r].stage = "free" => runs[r] = run[r]
  BY <1>2, <1>3
<1> HIDE DEF runs
<1>6. RunsOK(runs)
  BY <1>1, <1>5 DEF RunsOK
<1>7. HoldsSlot(runs, playing)
  BY <1>4, <1>5 DEF HoldsSlot, SlotBacked, Live
<1>8. HoldMarkers(runs, inflight)
  BY <1>4, <1>5 DEF HoldMarkers, MarkersBacked, Live
<1>. QED BY <1>5, <1>6, <1>7, <1>8 DEF runs

\* Start and Stop cancel every context and nothing else.
LEMMA CancelAllOK ==
  ASSUME IInv
  PROVE  /\ RunsOK(CancelAll) /\ HoldsSlot(CancelAll, playing)
         /\ HoldMarkers(CancelAll, inflight)
         /\ \A r \in Runs : /\ CancelAll[r].stage = run[r].stage
                            /\ CancelAll[r].pe = run[r].pe
<1>1. /\ run \in [Runs -> Run]
      /\ \A r \in Runs : IF run[r].stage = "free" THEN run[r] = FreeRun
                                                  ELSE run[r].pe \in Play
  BY DEF IInv, RunsOK
<1>2. \A r \in Runs : /\ CancelAll[r] \in Run
                      /\ CancelAll[r].stage = run[r].stage
                      /\ CancelAll[r].pe = run[r].pe
                      /\ run[r].stage = "free" => CancelAll[r] = run[r]
  BY <1>1, CancelledType DEF CancelAll, Live
<1>3. CancelAll \in [Runs -> Run]
  BY <1>2 DEF CancelAll
<1>4. SlotBacked /\ MarkersBacked
  BY DEF IInv
<1> DEFINE runs == CancelAll
<1>5. /\ runs \in [Runs -> Run]
      /\ \A r \in Runs : /\ runs[r].stage = run[r].stage /\ runs[r].pe = run[r].pe
                         /\ run[r].stage = "free" => runs[r] = run[r]
  BY <1>2, <1>3
<1> HIDE DEF runs
<1>6. RunsOK(runs)
  BY <1>1, <1>5 DEF RunsOK
<1>7. HoldsSlot(runs, playing)
  BY <1>4, <1>5 DEF HoldsSlot, SlotBacked, Live
<1>8. HoldMarkers(runs, inflight)
  BY <1>4, <1>5 DEF HoldMarkers, MarkersBacked, Live
<1>. QED BY <1>5, <1>6, <1>7, <1>8 DEF runs

\* startPlayLocked leaves the slot and the markers backed, and the slot taken
\* unless it was free and nothing could be started.
LEMMA StartPlayOK ==
  ASSUME NEW pe \in Play, NEW runs, RunsOK(runs), NEW flight, flight \subseteq Tasks,
         NEW held \in Play \cup {NoPlay}, HoldsSlot(runs, held), HoldMarkers(runs, flight),
         StartPlay(pe, runs, flight, held)
  PROVE  /\ RunsOK(run') /\ HoldsSlot(run', playing') /\ HoldMarkers(run', inflight')
         /\ playing' \in Play \cup {NoPlay} /\ inflight' \subseteq Tasks
         /\ CanStart \/ held # NoPlay => playing' # NoPlay
<1>1. CASE ~CanStart
  BY <1>1 DEF StartPlay
<1>2. CASE CanStart
  <2>1. PICK r \in Runs :
          /\ runs[r].stage = "free"
          /\ run' = [runs EXCEPT ![r] =
                       [stage |-> "playing", pe |-> pe, cancelled |-> FALSE]]
          /\ playing' = pe
          /\ inflight' = flight \cup ({pe.id} \ {NoTask})
    BY <1>2 DEF StartPlay
  <2>2. [stage |-> "playing", pe |-> pe, cancelled |-> FALSE] \in Run
    BY DEF Run, Stages
  <2>3. /\ run' \in [Runs -> Run] /\ run'[r].stage = "playing" /\ run'[r].pe = pe
        /\ \A s \in Runs : s # r => run'[s] = runs[s]
    BY <2>1, <2>2 DEF RunsOK
  <2>4. RunsOK(run')
    BY <2>3 DEF RunsOK
  <2>5. HoldsSlot(run', playing')
    BY <2>1, <2>3 DEF HoldsSlot
  <2>6. HoldMarkers(run', inflight')
    BY <2>1, <2>3 DEF HoldMarkers
  <2>7. pe.id \in Tasks \cup {NoTask}
    BY DEF Play
  <2>. QED BY <2>1, <2>4, <2>5, <2>6, <2>7, NoPlayType
<1>. QED BY <1>1, <1>2

\* The invariant in terms of the parts the actions leave.
LEMMA Assemble ==
  ASSUME RunsOK(run'), HoldsSlot(run', playing'), HoldMarkers(run', inflight'),
         playing' \in Play \cup {NoPlay}, inflight' \subseteq Tasks,
         queue' \in Seq(Play), Len(queue') <= MaxQueue,
         queue' # <<>> => playing' # NoPlay,
         resume' \in Play \cup {NoPlay}, deadline' \in BOOLEAN,
         running' \in BOOLEAN, loop' \in BOOLEAN, attached' \in BOOLEAN,
         restored' \in BOOLEAN
  PROVE  IInv'
  BY DEF IInv, TypeOK, RunsOK, HoldsSlot, HoldMarkers, QueueBacked, SlotBacked,
         MarkersBacked, Live

\* The parts the current state has.
LEMMA Parts ==
  ASSUME IInv
  PROVE  /\ RunsOK(run) /\ HoldsSlot(run, playing) /\ HoldMarkers(run, inflight)
         /\ playing \in Play \cup {NoPlay} /\ inflight \subseteq Tasks
         /\ queue \in Seq(Play) /\ Len(queue) <= MaxQueue
         /\ queue # <<>> => playing # NoPlay
         /\ resume \in Play \cup {NoPlay} /\ deadline \in BOOLEAN
         /\ running \in BOOLEAN /\ loop \in BOOLEAN /\ attached \in BOOLEAN
         /\ restored \in BOOLEAN
  BY DEF IInv, TypeOK, HoldsSlot, HoldMarkers, QueueBacked, SlotBacked, MarkersBacked, Live

\* An interrupt takes the slot, or leaves it to the play it has cancelled.
LEMMA StartInterruptOK ==
  ASSUME IInv, NEW pe \in Play, StartInterrupt(pe),
         UNCHANGED <<lifeVars, queue, restored>>
  PROVE  IInv'
<1>1. StartPlay(pe, Cancel(playing), inflight, playing)
  BY DEF StartInterrupt
<1>2. /\ RunsOK(run') /\ HoldsSlot(run', playing') /\ HoldMarkers(run', inflight')
      /\ playing' \in Play \cup {NoPlay} /\ inflight' \subseteq Tasks
      /\ CanStart \/ playing # NoPlay => playing' # NoPlay
  BY <1>1, CancelOK, Parts, StartPlayOK
<1>3. resume' \in Play \cup {NoPlay} /\ deadline' \in BOOLEAN
  BY Parts DEF StartInterrupt, Play
<1>. QED BY <1>2, <1>3, Parts, Assemble

\* A task is fired.
LEMMA StepFiring == ASSUME IInv, NEW t \in Tasks, Firing(t) PROVE IInv'
<1>1. CASE FireInterrupt(t)
  BY <1>1, NewPlayType, FreshType, StartInterruptOK DEF FireInterrupt
<1>2. CASE FireIdle(t)
  <2>1. PICK k \in FreshKeys : StartPlay(TaskPlay(t, k), run, inflight, playing)
    BY <1>2 DEF FireIdle
  <2>2. TaskPlay(t, k) \in Play
    BY NewPlayType, FreshType
  <2>3. /\ RunsOK(run') /\ HoldsSlot(run', playing') /\ HoldMarkers(run', inflight')
        /\ playing' \in Play \cup {NoPlay} /\ inflight' \subseteq Tasks
        /\ CanStart \/ playing # NoPlay => playing' # NoPlay
    BY <2>1, <2>2, Parts, StartPlayOK
  <2>. QED BY <1>2, <2>3, Parts, Assemble DEF FireIdle
<1>3. CASE FireCritical(t)
  <2>1. PICK k \in FreshKeys : StartPlay(TaskPlay(t, k), Cancel(playing), inflight, playing)
    BY <1>3 DEF FireCritical
  <2>2. TaskPlay(t, k) \in Play
    BY NewPlayType, FreshType
  <2>3. /\ RunsOK(run') /\ HoldsSlot(run', playing') /\ HoldMarkers(run', inflight')
        /\ playing' \in Play \cup {NoPlay} /\ inflight' \subseteq Tasks
        /\ CanStart \/ playing # NoPlay => playing' # NoPlay
    BY <2>1, <2>2, Parts, CancelOK, StartPlayOK
  <2>. QED BY <1>3, <2>3, Parts, Assemble DEF FireCritical
<1>4. CASE FireImportant(t)
  <2>1. PICK k \in FreshKeys : queue' = Append(queue, TaskPlay(t, k))
    BY <1>4 DEF FireImportant
  <2>2. TaskPlay(t, k) \in Play
    BY NewPlayType, FreshType
  <2>3. queue' \in Seq(Play) /\ Len(queue') <= MaxQueue
    BY <1>4, <2>1, <2>2, Parts DEF FireImportant, Room
  <2>. QED BY <1>4, <2>3, Parts, Assemble DEF FireImportant
<1>. QED BY <1>1, <1>2, <1>3, <1>4 DEF Firing

\* The deadline of the active interrupt has passed.
LEMMA StepExpire == ASSUME IInv, Expire PROVE IInv'
  BY CancelOK, Parts, Assemble DEF Expire

\* The public operations.
LEMMA StepOperation == ASSUME IInv, Operation PROVE IInv'
<1>1. CASE Interrupt
  <2>1. PICK k \in FreshKeys, timed \in Durations : StartInterrupt(Requested(k, timed))
    BY <1>1 DEF Interrupt
  <2>2. Requested(k, timed) \in Play
    BY NewPlayType, FreshType
  <2>. QED BY <1>1, <2>1, <2>2, StartInterruptOK DEF Interrupt
<1>2. CASE Start
  BY <1>2, CancelAllOK, Parts, Assemble DEF Start
<1>3. CASE Stop
  <2>1. HoldsSlot(CancelAll, NoPlay) /\ <<>> \in Seq(Play) /\ Len(<<>>) <= MaxQueue
    BY DEF HoldsSlot
  <2>. QED BY <1>3, <2>1, CancelAllOK, Parts, Assemble DEF Stop
<1>4. CASE SetPlayer
  BY <1>4, Parts, Assemble DEF SetPlayer, slotVars
<1>. QED BY <1>1, <1>2, <1>3, <1>4 DEF Operation

\* A goroutine comes out of Play, or of Skip.
LEMMA StepReturn == ASSUME IInv, NEW r \in Runs, Return(r) \/ SkipDone(r) PROVE IInv'
<1>1. PICK s \in {"ending", "skipping"} : run' = [run EXCEPT ![r] = [@ EXCEPT !.stage = s]]
  BY DEF Return, SkipDone
<1>2. run[r].stage # "free" /\ run \in [Runs -> Run]
  BY DEF Return, SkipDone, IInv, RunsOK
<1>3. /\ run' \in [Runs -> Run] /\ run'[r].stage = s /\ run'[r].pe = run[r].pe
      /\ \A q \in Runs : q # r => run'[q] = run[q]
  BY <1>1, <1>2 DEF Run, Stages
<1>4. RunsOK(run')
  BY <1>2, <1>3 DEF IInv, RunsOK
<1>5. HoldsSlot(run', playing)
  BY <1>2, <1>3, Parts DEF HoldsSlot
<1>6. HoldMarkers(run', inflight)
  BY <1>2, <1>3, Parts DEF HoldMarkers
<1>. QED BY <1>4, <1>5, <1>6, Parts, Assemble DEF Return, SkipDone

\* playEndedLocked.
LEMMA StepPlayEnded == ASSUME IInv, NEW r \in Runs, PlayEnded(r) PROVE IInv'
<1> DEFINE runs == [run EXCEPT ![r] = FreeRun]
           flight == Unmarked(r)
<1>1. /\ run[r].stage = "ending" /\ run \in [Runs -> Run]
      /\ FreeRun \in Run
  BY DEF PlayEnded, IInv, RunsOK, FreeRun, Run, Stages
<1>2. /\ runs \in [Runs -> Run] /\ runs[r] = FreeRun /\ FreeRun.stage = "free"
      /\ \A q \in Runs : q # r => runs[q] = run[q]
  BY <1>1 DEF FreeRun
<1>3. RunsOK(runs) /\ flight \subseteq Tasks
  BY <1>2, Parts DEF RunsOK, Unmarked
<1>4. HoldMarkers(runs, flight)
  BY <1>2, Parts DEF HoldMarkers, Unmarked
<1>5. HoldsSlot(runs, NoPlay)
  BY DEF HoldsSlot
<1>6. CASE ~IsCurrent(r)
  <2>1. HoldsSlot(runs, playing)
    BY <1>2, <1>6, Parts DEF HoldsSlot, IsCurrent
  <2>. QED BY <1>3, <1>4, <1>6, <2>1, Parts, Assemble DEF PlayEnded
<1>7. CASE IsCurrent(r)
  <2>1. /\ deadline' \in BOOLEAN /\ resume' \in Play \cup {NoPlay}
        /\ UNCHANGED lifeVars /\ restored' \in BOOLEAN
    BY <1>1, <1>7, Parts DEF PlayEnded, RunsOK, Play
  <2>2. CASE StartPlay(resume, runs, flight, NoPlay) /\ UNCHANGED queue /\ resume # NoPlay
             /\ CanStart
    <3>1. resume \in Play
      BY <2>2, Parts
    <3>2. /\ RunsOK(run') /\ HoldsSlot(run', playing') /\ HoldMarkers(run', inflight')
          /\ playing' \in Play \cup {NoPlay} /\ inflight' \subseteq Tasks
          /\ CanStart => playing' # NoPlay
      <4> HIDE DEF runs, flight
      <4>. QED BY <2>2, <3>1, <1>3, <1>4, <1>5, StartPlayOK
    <3>. QED BY <2>1, <2>2, <3>2, Parts, Assemble
  <2>3. CASE Drain(runs, flight)
    <3>1. CASE queue # <<>> /\ CanStart
      <4>1. /\ Head(queue) \in Play /\ Tail(queue) \in Seq(Play)
            /\ Len(Tail(queue)) <= MaxQueue
        BY <3>1, Parts
      <4>2. StartPlay(Head(queue), runs, flight, NoPlay) /\ queue' = Tail(queue)
        BY <2>3, <3>1 DEF Drain
      <4>3. /\ RunsOK(run') /\ HoldsSlot(run', playing') /\ HoldMarkers(run', inflight')
            /\ playing' \in Play \cup {NoPlay} /\ inflight' \subseteq Tasks
            /\ CanStart => playing' # NoPlay
        <5> HIDE DEF runs, flight
        <5>. QED BY <4>1, <4>2, <1>3, <1>4, <1>5, StartPlayOK
      <4>. QED BY <2>1, <3>1, <4>1, <4>2, <4>3, Parts, Assemble
    <3>2. CASE ~(queue # <<>> /\ CanStart)
      <4>1. /\ playing' = NoPlay /\ queue' = <<>> /\ run' = runs /\ inflight' = flight
        BY <2>3, <3>2 DEF Drain
      <4>2. <<>> \in Seq(Play) /\ Len(<<>>) <= MaxQueue
        OBVIOUS
      <4> HIDE DEF runs, flight
      <4>. QED BY <2>1, <4>1, <4>2, <1>3, <1>4, <1>5, Parts, Assemble
    <3>. QED BY <3>1, <3>2
  <2>. QED BY <1>7, <2>2, <2>3 DEF PlayEnded, Restores
<1>. QED BY <1>6, <1>7

\* The initial states satisfy the invariant.
LEMMA InitIInv == Init => IInv
<1>1. FreeRun \in Run /\ FreeRun.stage = "free"
  BY DEF FreeRun, Run, Stages
<1>2. <<>> \in Seq(Play) /\ Len(<<>>) <= MaxQueue
  OBVIOUS
<1>. QED BY <1>1, <1>2 DEF Init, IInv, TypeOK, RunsOK, QueueBacked, SlotBacked, MarkersBacked

\* Every step preserves the invariant.
LEMMA NextIInv == IInv /\ [Next]_vars => IInv'
<1> SUFFICES ASSUME IInv, [Next]_vars PROVE IInv'
  OBVIOUS
<1>1. CASE LoopExits
  BY <1>1, Parts, Assemble DEF LoopExits, slotVars
<1>2. CASE UNCHANGED vars
  BY <1>2, Parts, Assemble DEF vars, slotVars
<1>. QED BY <1>1, <1>2, StepFiring, StepExpire, StepOperation, StepReturn, StepPlayEnded DEF Next

\* The inductive invariant holds of every behaviour of the scheduler.
THEOREM Invariance == Spec => []IInv
BY InitIInv, NextIInv, PTL DEF Spec

\* Type correctness: in particular the queue never exceeds its cap.
THEOREM TypeCorrect == Spec => []TypeOK
BY Invariance, PTL DEF IInv

\* The invariant the code states of its queue: it is never left behind an
\* empty slot.
THEOREM QueueNeverOrphaned == Spec => []QueueBacked
BY Invariance, PTL DEF IInv

\* The scheduler is never busy with a play that no goroutine is in.
THEOREM SlotNeverStuck == Spec => []SlotBacked
BY Invariance, PTL DEF IInv

\* No in-flight marker outlives the goroutines of its task.
THEOREM MarkerNeverStuck == Spec => []MarkersBacked
BY Invariance, PTL DEF IInv

-----------------------------------------------------------------------------
(***************************************************************************)
(* Until an interrupted play is restored one target plays at a time.        *)
(***************************************************************************)

\* No two goroutines, and no goroutine and queued play, share a pendingPlay.
Distinct(runs, q) ==
  /\ \A r, s \in Runs :
       (/\ runs[r].stage # "free" /\ runs[s].stage # "free"
        /\ runs[r].pe.key = runs[s].pe.key) => r = s
  /\ \A r \in Runs, i \in 1..Len(q) :
       runs[r].stage # "free" => runs[r].pe.key # q[i].key
  /\ \A i, j \in 1..Len(q) : q[i].key = q[j].key => i = j

\* A goroutine that has not been cancelled is in the play that has the slot.
Owns(runs, p) ==
  \A r \in Runs : runs[r].stage # "free" /\ ~runs[r].cancelled => runs[r].pe = p

UInv == IInv /\ Distinct(run, queue) /\ Owns(run, playing)

\* Cancelling the play that has the slot leaves no goroutine uncancelled.
LEMMA CancelLast ==
  ASSUME UInv
  PROVE  /\ Distinct(Cancel(playing), queue)
         /\ \A r \in Runs : Cancel(playing)[r].stage # "free" => Cancel(playing)[r].cancelled
<1> DEFINE runs == Cancel(playing)
<1>1. \A r \in Runs : runs[r].stage = run[r].stage /\ runs[r].pe = run[r].pe
  BY CancelOK DEF UInv
<1>2. \A r \in Runs : run[r] \in Run
  BY DEF UInv, IInv, RunsOK
<1>3. \A r \in Runs : Live(r) /\ run[r].pe = playing => runs[r].cancelled
  BY <1>2 DEF Cancel, Run
<1>4. \A r \in Runs : ~(Live(r) /\ run[r].pe = playing) => runs[r] = run[r]
  BY DEF Cancel
<1>5. \A r \in Runs : runs[r].stage # "free" => runs[r].cancelled
  BY <1>1, <1>3, <1>4 DEF UInv, Owns, Live
<1>6. Distinct(run, queue)
  BY DEF UInv
<1> HIDE DEF runs
<1>7. Distinct(runs, queue)
  BY <1>1, <1>6 DEF Distinct
<1>. QED BY <1>5, <1>7 DEF runs

\* Cancelling every context leaves no goroutine uncancelled.
LEMMA CancelAllLast ==
  ASSUME UInv
  PROVE  Distinct(CancelAll, queue) /\ Distinct(CancelAll, <<>>)
         /\ \A r \in Runs : CancelAll[r].stage # "free" => CancelAll[r].cancelled
<1> DEFINE runs == CancelAll
<1>1. \A r \in Runs : runs[r].stage = run[r].stage /\ runs[r].pe = run[r].pe
  BY CancelAllOK DEF UInv
<1>2. \A r \in Runs : run[r] \in Run
  BY DEF UInv, IInv, RunsOK
<1>3. \A r \in Runs : Live(r) => runs[r].cancelled
  BY <1>2 DEF CancelAll, Run
<1>5. \A r \in Runs : runs[r].stage # "free" => runs[r].cancelled
  BY <1>1, <1>3 DEF Live
<1>6. Distinct(run, queue)
  BY DEF UInv
<1> HIDE DEF runs
<1>7. Distinct(runs, queue) /\ Distinct(runs, <<>>)
  BY <1>1, <1>6 DEF Distinct
<1>. QED BY <1>5, <1>7 DEF runs

\* A fresh identity is that of no goroutine and of no queued play.
LEMMA FreshDistinct ==
  ASSUME NEW k \in FreshKeys
  PROVE  /\ \A r \in Runs : run[r].pe.key # k
         /\ \A i \in 1..Len(queue) : queue[i].key # k
  BY DEF FreshKeys, Queued

\* startPlayLocked gives the slot to the only goroutine that is not cancelled.
LEMMA StartPlayLast ==
  ASSUME NEW pe \in Play, NEW runs, RunsOK(runs), NEW flight, NEW held,
         NEW q, Distinct(runs, q),
         \A r \in Runs : runs[r].stage # "free" => runs[r].cancelled /\ runs[r].pe.key # pe.key,
         \A i \in 1..Len(q) : q[i].key # pe.key,
         StartPlay(pe, runs, flight, held)
  PROVE  Distinct(run', q) /\ Owns(run', playing')
<1>1. CASE ~CanStart
  BY <1>1 DEF StartPlay, Owns
<1>2. CASE CanStart
  <2>1. PICK r \in Runs :
          /\ run' = [runs EXCEPT ![r] =
                       [stage |-> "playing", pe |-> pe, cancelled |-> FALSE]]
          /\ playing' = pe
    BY <1>2 DEF StartPlay
  <2>2. /\ run'[r].pe = pe
        /\ \A s \in Runs : s # r => run'[s] = runs[s]
    BY <2>1 DEF RunsOK
  <2>3. Distinct(run', q)
    BY <2>2 DEF Distinct
  <2>4. Owns(run', playing')
    BY <2>1, <2>2 DEF Owns
  <2>. QED BY <2>3, <2>4
<1>. QED BY <1>1, <1>2

\* A task is fired, or an interrupt requested.
LEMMA StepFiringLast ==
  ASSUME UInv, NEW t \in Tasks, Firing(t) PROVE UInv'
<1>1. IInv' /\ RunsOK(run) /\ Distinct(run, queue) /\ Owns(run, playing)
  BY StepFiring DEF UInv, IInv
<1>2. CASE FireInterrupt(t) \/ FireCritical(t)
  <2>1. PICK k \in FreshKeys : StartPlay(TaskPlay(t, k), Cancel(playing), inflight, playing)
    BY <1>2 DEF FireInterrupt, FireCritical, StartInterrupt
  <2> DEFINE pe == TaskPlay(t, k)
             runs == Cancel(playing)
  <2>2. pe \in Play /\ pe.key = k
    BY NewPlayType, FreshType
  <2>3. queue' = queue
    BY <1>2 DEF FireInterrupt, FireCritical
  <2>4. RunsOK(runs) /\ Distinct(runs, queue) /\ StartPlay(pe, runs, inflight, playing)
    BY <2>1, CancelLast, CancelOK DEF UInv
  <2>5. \A r \in Runs : runs[r].stage # "free" => runs[r].cancelled /\ runs[r].pe.key # pe.key
    BY <2>2, CancelLast, CancelOK, FreshDistinct DEF UInv
  <2> HIDE DEF pe, runs
  <2>6. \A i \in 1..Len(queue) : queue[i].key # pe.key
    BY <2>2, FreshDistinct
  <2>7. Distinct(run', queue) /\ Owns(run', playing')
    BY <2>2, <2>4, <2>5, <2>6, StartPlayLast
  <2>. QED BY <1>1, <2>3, <2>7 DEF UInv
<1>3. CASE FireIdle(t)
  <2>1. PICK k \in FreshKeys : StartPlay(TaskPlay(t, k), run, inflight, playing)
    BY <1>3 DEF FireIdle
  <2>2. TaskPlay(t, k) \in Play /\ TaskPlay(t, k).key = k
    BY NewPlayType, FreshType
  <2>3. \A r \in Runs : run[r].stage # "free" => run[r].cancelled
    BY <1>1, <1>3, NoPlayType DEF FireIdle, Owns, RunsOK
  <2>4. Distinct(run', queue) /\ Owns(run', playing')
    BY <1>1, <2>1, <2>2, <2>3, FreshDistinct, StartPlayLast
  <2>. QED BY <1>1, <1>3, <2>4 DEF FireIdle, UInv
<1>4. CASE FireImportant(t)
  <2>1. PICK k \in FreshKeys : queue' = Append(queue, TaskPlay(t, k))
    BY <1>4 DEF FireImportant
  <2>2. TaskPlay(t, k) \in Play /\ TaskPlay(t, k).key = k /\ queue \in Seq(Play)
    BY NewPlayType, FreshType, Parts DEF UInv
  <2>3. Distinct(run, queue')
    BY <1>1, <2>1, <2>2, FreshDistinct DEF Distinct
  <2>. QED BY <1>1, <1>4, <2>3 DEF FireImportant, UInv
<1>. QED BY <1>2, <1>3, <1>4 DEF Firing

\* The public operations.
LEMMA StepOperationLast ==
  ASSUME UInv, Operation PROVE UInv'
<1>1. IInv' /\ RunsOK(run) /\ Distinct(run, queue) /\ Owns(run, playing)
  BY StepOperation DEF UInv, IInv
<1>2. CASE Interrupt
  <2>1. PICK k \in FreshKeys, timed \in Durations : StartInterrupt(Requested(k, timed))
    BY <1>2 DEF Interrupt
  <2> DEFINE pe == Requested(k, timed)
  <2>2. pe \in Play /\ pe.key = k
    BY NewPlayType, FreshType
  <2> HIDE DEF pe
  <2>3. queue' = queue /\ StartPlay(pe, Cancel(playing), inflight, playing)
    BY <1>2, <2>1, <2>2 DEF Interrupt, StartInterrupt, pe
  <2> DEFINE runs == Cancel(playing)
  <2>4. RunsOK(runs) /\ Distinct(runs, queue) /\ StartPlay(pe, runs, inflight, playing)
    BY <2>3, CancelLast, CancelOK DEF UInv
  <2>5. \A r \in Runs : runs[r].stage # "free" => runs[r].cancelled /\ runs[r].pe.key # pe.key
    BY <2>2, CancelLast, CancelOK, FreshDistinct DEF UInv
  <2> HIDE DEF runs
  <2>6. \A i \in 1..Len(queue) : queue[i].key # pe.key
    BY <2>2, FreshDistinct
  <2>7. Distinct(run', queue) /\ Owns(run', playing')
    BY <2>2, <2>4, <2>5, <2>6, StartPlayLast
  <2>. QED BY <1>1, <2>3, <2>7 DEF UInv
<1>3. CASE Start
  BY <1>1, <1>3, CancelAllLast DEF Start, UInv, Owns
<1>4. CASE Stop
  BY <1>1, <1>4, CancelAllLast DEF Stop, UInv, Owns
<1>5. CASE SetPlayer
  BY <1>1, <1>5 DEF SetPlayer, slotVars, UInv
<1>. QED BY <1>2, <1>3, <1>4, <1>5 DEF Operation

\* A goroutine comes out of Play, or of Skip.
LEMMA StepReturnLast ==
  ASSUME UInv, NEW r \in Runs, Return(r) \/ SkipDone(r) PROVE UInv'
<1>1. PICK s \in {"ending", "skipping"} : run' = [run EXCEPT ![r] = [@ EXCEPT !.stage = s]]
  BY DEF Return, SkipDone
<1>2. /\ run[r].stage # "free" /\ run[r] \in Run /\ run \in [Runs -> Run]
      /\ Distinct(run, queue) /\ Owns(run, playing) /\ IInv'
  BY StepReturn DEF Return, SkipDone, UInv, IInv, RunsOK
<1>3. /\ run'[r].stage = s /\ run'[r].pe = run[r].pe /\ run'[r].cancelled = run[r].cancelled
      /\ \A q \in Runs : q # r => run'[q] = run[q]
  BY <1>1, <1>2 DEF Run
<1>4. Distinct(run', queue)
  BY <1>2, <1>3 DEF Distinct
<1>5. Owns(run', playing)
  BY <1>2, <1>3 DEF Owns
<1>. QED BY <1>2, <1>4, <1>5 DEF Return, SkipDone, UInv

\* playEndedLocked, when the slot goes to the queue.
LEMMA StepPlayEndedLast ==
  ASSUME UInv, NEW r \in Runs, PlayEnded(r), ~Restores(r) PROVE UInv'
<1> DEFINE runs == [run EXCEPT ![r] = FreeRun]
<1>1. /\ run[r].stage = "ending" /\ run \in [Runs -> Run] /\ queue \in Seq(Play)
      /\ Distinct(run, queue) /\ Owns(run, playing) /\ IInv'
  BY StepPlayEnded, Parts DEF PlayEnded, UInv, IInv, RunsOK
<1>2. /\ runs[r].stage = "free"
      /\ \A q \in Runs : q # r => runs[q] = run[q]
  BY <1>1 DEF FreeRun
<1>3. RunsOK(runs)
  BY <1>1, <1>2 DEF RunsOK, FreeRun, Run, Stages, UInv, IInv
<1>4. Distinct(runs, queue)
  BY <1>1, <1>2 DEF Distinct
<1>5. CASE ~IsCurrent(r)
  <2>1. Owns(runs, playing)
    BY <1>1, <1>2 DEF Owns
  <2>. QED BY <1>1, <1>4, <1>5, <2>1 DEF PlayEnded, UInv
<1>6. CASE IsCurrent(r)
  <2>1. Drain(runs, Unmarked(r))
    BY <1>1, <1>6 DEF PlayEnded
  <2>2. \A q \in Runs : runs[q].stage # "free" => runs[q].cancelled
    BY <1>1, <1>2, <1>6 DEF IsCurrent, Owns, Distinct
  <2>3. CASE queue # <<>> /\ CanStart
    <3>1. StartPlay(Head(queue), runs, Unmarked(r), NoPlay) /\ queue' = Tail(queue)
      BY <2>1, <2>3 DEF Drain
    <3> HIDE DEF runs
    <3>2. /\ Head(queue) \in Play /\ Head(queue) = queue[1] /\ 1 \in 1..Len(queue)
          /\ Len(Tail(queue)) = Len(queue) - 1
          /\ \A i \in 1..Len(Tail(queue)) :
               Tail(queue)[i] = queue[i + 1] /\ i + 1 \in 1..Len(queue) /\ i + 1 # 1
      BY <1>1, <2>3
    <3>3. \A q \in Runs : runs[q].stage # "free" =>
                              runs[q].cancelled /\ runs[q].pe.key # Head(queue).key
      BY <1>4, <2>2, <3>2 DEF Distinct
    <3>4. \A i \in 1..Len(Tail(queue)) : Tail(queue)[i].key # Head(queue).key
      BY <1>4, <3>2 DEF Distinct
    <3>5. Distinct(runs, Tail(queue))
      BY <1>4, <3>2 DEF Distinct
    <3>6. Distinct(run', Tail(queue)) /\ Owns(run', playing')
      BY <1>3, <3>1, <3>2, <3>3, <3>4, <3>5, StartPlayLast
    <3>. QED BY <1>1, <2>1, <3>1, <3>6 DEF UInv
  <2>4. CASE ~(queue # <<>> /\ CanStart)
    <3>1. playing' = NoPlay /\ queue' = <<>> /\ run' = runs
      BY <2>1, <2>4 DEF Drain
    <3>2. Distinct(runs, <<>>) /\ Owns(runs, NoPlay)
      BY <1>4, <2>2 DEF Distinct, Owns
    <3>. QED BY <1>1, <2>1, <3>1, <3>2 DEF UInv
  <2>. QED BY <2>3, <2>4
<1>. QED BY <1>5, <1>6

\* The slot invariant up to the first restored play.
SInv == IInv /\ (~restored => UInv)

\* The initial states satisfy the invariant.
LEMMA InitSInv == Init => SInv
  BY InitIInv DEF Init, SInv, UInv, Distinct, Owns, FreeRun

\* Every step preserves it, or restores a play.
LEMMA NextSInv == SInv /\ [Next]_vars => SInv'
<1> SUFFICES ASSUME SInv, [Next]_vars PROVE SInv'
  OBVIOUS
<1>1. IInv'
  BY NextIInv DEF SInv
<1> SUFFICES ASSUME ~restored' PROVE UInv'
  BY <1>1 DEF SInv
<1>2. CASE LoopExits
  BY <1>1, <1>2 DEF LoopExits, slotVars, SInv, UInv
<1>3. CASE UNCHANGED vars
  BY <1>1, <1>3 DEF vars, slotVars, SInv, UInv
<1>4. CASE Expire
  BY <1>1, <1>4, CancelLast DEF Expire, SInv, UInv, Owns
<1>5. CASE \E t \in Tasks : Firing(t)
  <2>1. ~restored
    BY <1>5 DEF Firing, FireInterrupt, FireIdle, FireCritical, FireImportant
  <2>. QED BY <1>5, <2>1, StepFiringLast DEF SInv
<1>6. CASE Operation
  <2>1. ~restored
    BY <1>6 DEF Operation, Interrupt, Start, Stop, SetPlayer, slotVars
  <2>. QED BY <1>6, <2>1, StepOperationLast DEF SInv
<1>7. CASE \E r \in Runs : Return(r) \/ SkipDone(r)
  <2>1. ~restored
    BY <1>7 DEF Return, SkipDone
  <2>. QED BY <1>7, <2>1, StepReturnLast DEF SInv
<1>8. CASE \E r \in Runs : PlayEnded(r)
  <2>1. PICK r \in Runs : PlayEnded(r)
    BY <1>8
  <2>2. ~restored /\ ~Restores(r)
    BY <2>1 DEF PlayEnded
  <2>. QED BY <2>1, <2>2, StepPlayEndedLast DEF SInv
<1>. QED BY <1>2, <1>3, <1>4, <1>5, <1>6, <1>7, <1>8 DEF Next

\* At most one target plays at a time, however fires, requests, Stop, Start and
\* slow Players overlap, as long as no interrupted play has been restored.
THEOREM OneTargetBeforeRestore == Spec => []OneTargetUntilRestore
<1>1. SInv => OneTargetUntilRestore
  BY DEF SInv, UInv, Distinct, Owns, OneTarget, OneTargetUntilRestore
<1>. QED BY <1>1, InitSInv, NextSInv, PTL DEF Spec

\* A play loses the slot upwards, before its goroutine has returned.
Upwards ==
  (/\ playing # NoPlay /\ playing' # playing /\ running' /\ ~restored'
   /\ \E r \in Runs : Live(r)' /\ run'[r].pe = playing)
    => playing'.interrupt \/ playing'.prio > playing.prio

\* An interrupt takes the slot for itself or leaves it.
LEMMA InterruptTakes ==
  ASSUME NEW pe, StartInterrupt(pe) PROVE playing' = pe \/ playing' = playing
  BY DEF StartInterrupt, StartPlay

\* Of the steps of a tick and of requests, those that give the slot away give it
\* to an interrupt or to a critical task.
LEMMA FiringUpwards == ASSUME NEW t \in Tasks, Firing(t) PROVE Upwards
<1>1. CASE FireInterrupt(t)
  <2>1. PICK k \in FreshKeys : StartInterrupt(TaskPlay(t, k))
    BY <1>1 DEF FireInterrupt
  <2>2. TaskPlay(t, k).interrupt = TRUE
    BY <1>1, NewPlayType, FreshType DEF FireInterrupt
  <2>. QED BY <2>1, <2>2, InterruptTakes DEF Upwards
<1>2. CASE FireIdle(t)
  BY <1>2 DEF FireIdle, Upwards
<1>3. CASE FireCritical(t)
  <2>1. PICK k \in FreshKeys : StartPlay(TaskPlay(t, k), Cancel(playing), inflight, playing)
    BY <1>3 DEF FireCritical
  <2>2. TaskPlay(t, k).prio = 3 /\ 3 > playing.prio
    BY <1>3, NewPlayType, FreshType DEF FireCritical, Outranks
  <2>3. playing' = TaskPlay(t, k) \/ playing' = playing
    BY <2>1 DEF StartPlay
  <2>. QED BY <2>2, <2>3 DEF Upwards
<1>4. CASE FireImportant(t)
  BY <1>4 DEF FireImportant, Upwards
<1>. QED BY <1>1, <1>2, <1>3, <1>4 DEF Firing

LEMMA OperationUpwards == ASSUME Operation PROVE Upwards
<1>1. CASE Interrupt
  <2>1. PICK k \in FreshKeys, timed \in Durations : StartInterrupt(Requested(k, timed))
    BY <1>1 DEF Interrupt
  <2>2. Requested(k, timed).interrupt = TRUE
    BY NewPlayType, FreshType
  <2>. QED BY <2>1, <2>2, InterruptTakes DEF Upwards
<1>2. CASE Start \/ Stop \/ SetPlayer
  BY <1>2 DEF Start, Stop, SetPlayer, slotVars, Upwards
<1>. QED BY <1>1, <1>2 DEF Operation

\* The goroutine that ends was the last one of its play, so a slot that passes on
\* with its end takes it from nobody.
LEMMA PlayEndedUpwards == ASSUME SInv, NEW r \in Runs, PlayEnded(r) PROVE Upwards
<1> SUFFICES ASSUME playing # NoPlay, playing' # playing, ~restored',
                    NEW s \in Runs, run'[s].stage # "free", run'[s].pe = playing
             PROVE  FALSE
  BY DEF Upwards, Live
<1> DEFINE runs == [run EXCEPT ![r] = FreeRun]
<1>1. ~restored /\ ~Restores(r) /\ IsCurrent(r)
  BY DEF PlayEnded
<1>2. /\ run[r].stage = "ending" /\ run \in [Runs -> Run] /\ queue \in Seq(Play)
      /\ Distinct(run, queue) /\ run[r].pe = playing
  BY <1>1, Parts DEF PlayEnded, SInv, UInv, IInv, RunsOK, IsCurrent
<1>3. runs[r].stage = "free" /\ \A q \in Runs : q # r => runs[q] = run[q]
  BY <1>2 DEF FreeRun
<1>4. \A q \in Runs : runs[q].stage # "free" => runs[q].pe # playing
  BY <1>2, <1>3 DEF Distinct
<1>5. Drain(runs, Unmarked(r))
  BY <1>1 DEF PlayEnded
<1>6. PICK q \in Runs : /\ queue # <<>> /\ CanStart
                        /\ run' = [runs EXCEPT ![q] = [stage |-> "playing", pe |-> Head(queue),
                                                       cancelled |-> FALSE]]
  BY <1>4, <1>5 DEF Drain, StartPlay
<1>7. run'[q].pe = Head(queue) /\ \A u \in Runs : u # q => run'[u] = runs[u]
  BY <1>2, <1>6
<1>8. Head(queue).key # playing.key
  BY <1>2, <1>6 DEF Distinct
<1>. QED BY <1>4, <1>7, <1>8

\* Whatever fires, is requested, returns late or stops: a play that has not
\* returned loses the slot only to an interrupt or to a higher priority, up to
\* the first restored play (fire, interruptLocked, playEndedLocked).
THEOREM LosesOnlyUpwards == Spec => PreemptsUpwards
<1>1. SInv /\ [Next]_vars => [Upwards]_vars
  <2> SUFFICES ASSUME SInv, Next PROVE Upwards
    OBVIOUS
  <2>1. CASE Expire \/ LoopExits \/ \E r \in Runs : Return(r) \/ SkipDone(r)
    BY <2>1 DEF Expire, LoopExits, Return, SkipDone, slotVars, Upwards
  <2>. QED BY <2>1, FiringUpwards, OperationUpwards, PlayEndedUpwards DEF Next
<1>. QED BY <1>1, InitSInv, NextSInv, PTL DEF Spec, PreemptsUpwards, Upwards
=============================================================================
