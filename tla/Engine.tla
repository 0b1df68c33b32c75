------------------------------- MODULE Engine -------------------------------
(***************************************************************************)
(* The ffmpeg playback engine (src/engine/ffmpeg.go, FFmpegEngine).        *)
(*                                                                         *)
(* Callers are the goroutines that call the exported methods; Timers are   *)
(* the time.AfterFunc goroutines armed by the exit watcher; Procs are the  *)
(* slots of spawned ffmpeg processes, each with its watchExit goroutine.   *)
(* A slot is free again when its watcher goroutine has returned, so Procs  *)
(* and Timers bound how many goroutines of each kind are alive at once,    *)
(* never how many processes a behaviour spawns.                            *)
(*                                                                         *)
(* One action is one critical section: lifeMu is the variable lifeMu, and  *)
(* every section under mu is one step, so the actions interleave exactly   *)
(* where the code lets go of mu.                                           *)
(***************************************************************************)
EXTENDS Integers, Sequences

CONSTANTS
  Callers,     \* goroutines calling Start, Stop, Pause, ...
  Timers,      \* AfterFunc goroutines; bounds the timers pending at once
  Procs,       \* ffmpeg processes; bounds the watchers alive at once
  Sources,     \* media file paths
  Playlists,   \* the item lists StartQueue is called with
  Configs,     \* the engine configurations
  MaxPos,      \* bound on a playback position
  NoThread, NoProc, NoSource

Threads == Callers \cup Timers

\* PlayItem: a path, and whether the item has an external audio track or a
\* subtitle file.
Item == [path : Sources, aux : BOOLEAN]
NoItem == [path |-> NoSource, aux |-> FALSE]
Bare(s) == [path |-> s, aux |-> FALSE]

\* Config: whether outputs are configured and whether auto-reconnect is on.
Config == [outputs : BOOLEAN, reconnect : BOOLEAN]
NoConfig == [outputs |-> FALSE, reconnect |-> FALSE]

ASSUME EngineAssumption ==
  /\ Callers \cap Timers = {}
  /\ NoThread \notin Callers \cup Timers
  /\ NoProc \notin Procs
  /\ NoSource \notin Sources
  /\ Playlists \subseteq Seq(Item) \ {<<>>}
  /\ Configs \subseteq Config
  /\ MaxPos \in Nat

VARIABLES
  lifeMu,           \* the goroutine holding lifeMu
  cmd,              \* the process the engine owns
  running, paused,  \* status.Running, status.Paused
  intentionalStop,
  current,          \* source and aux: the item last started
  lastSeek, elapsedSec,
  queue, queueIdx, loop,
  resumeSource, resumeSeek,
  cfg, cfgFile,     \* the configuration in memory and in engine.json
  call,             \* what each goroutine is doing
  watch,            \* each process with its exit watcher
  halted            \* history: a Stop or Pause was the operator's last word

posVars   == <<current, lastSeek, elapsedSec>>
queueVars == <<queue, queueIdx, loop>>
pauseVars == <<paused, resumeSource, resumeSeek>>
cfgVars   == <<cfg, cfgFile>>
procVars  == <<cmd, running, intentionalStop>>
vars == <<lifeMu, procVars, posVars, queueVars, pauseVars, cfgVars, call,
          watch, halted>>

-----------------------------------------------------------------------------
\* The locals of a goroutine: where it is, for which method, and what it
\* captured (the item and offset to start, the configuration, the process).
Labels == {"idle", "armed", "startAt", "acquire", "lock", "stop", "mark",
           "wait", "spawn", "pause", "config"}
Methods == {"none", "start", "stop", "restart", "pause", "config",
            "advance", "reconnect"}
Call == [pc : Labels, op : Methods, item : Item \cup {NoItem},
         seek : 0..MaxPos, conf : Config, target : Procs \cup {NoProc}]
At(pc, op, item, pos) == [pc |-> pc, op |-> op, item |-> item, seek |-> pos,
                          conf |-> NoConfig, target |-> NoProc]
Idle == At("idle", "none", NoItem, 0)

\* A process and its watcher: free, alive, dead but not reaped, and then the
\* sections of watchExit still to run: "clean" and "commit" (queue advance),
\* "failed" (reconnect). killed: the process was signalled while alive.
Stages == {"free", "alive", "dead", "clean", "commit", "failed"}
Watch == [stage : Stages, code : {0, 1}, killed : BOOLEAN,
          next : Nat \cup {-1}, item : Item \cup {NoItem}]
Free == [stage |-> "free", code |-> 0, killed |-> FALSE, next |-> -1,
         item |-> NoItem]

\* The watcher has closed the exited channel: cmd.Wait returned and the status
\* is final.
Exited_BeforeStatus(p) == watch[p].stage # "alive"
Exited(p) == watch[p].stage \notin {"alive", "dead"}

\* The absolute media position Pause remembers.
Position_SeekTwice == lastSeek + lastSeek + elapsedSec
Position_NoSeek == elapsedSec
Position == lastSeek + elapsedSec

Init ==
  /\ lifeMu = NoThread
  /\ cmd = NoProc /\ running = FALSE /\ intentionalStop = FALSE
  /\ current = NoItem /\ lastSeek = 0 /\ elapsedSec = 0
  /\ queue = <<>> /\ queueIdx = 0 /\ loop = FALSE
  /\ paused = FALSE /\ resumeSource = NoSource /\ resumeSeek = 0
  /\ cfg \in Configs /\ cfgFile = cfg
  /\ call = [t \in Threads |-> Idle]
  /\ watch = [p \in Procs |-> Free]
  /\ halted = FALSE

-----------------------------------------------------------------------------
(***************************************************************************)
(* The calls.                                                              *)
(***************************************************************************)

Begin(c, c1) == call[c] = Idle /\ call' = [call EXCEPT ![c] = c1]

\* Start and StartAt (a seek restarts the source at an offset).
CallStartAt(c) ==
  /\ \E s \in Sources, pos \in 0..MaxPos :
       Begin(c, At("startAt", "start", Bare(s), pos))
  /\ halted' = FALSE
  /\ UNCHANGED <<lifeMu, procVars, posVars, queueVars, pauseVars, cfgVars, watch>>

\* The shared entry of startItem: a missing file or a done context returns an
\* error before lifeMu is asked for.
EnterStartItem(t, item, pos) ==
  \/ call' = [call EXCEPT ![t] = Idle]
  \/ call' = [call EXCEPT ![t] = At("acquire", "start", item, pos)]

\* StartAt resets the queue to the single item, then starts it.
StartAt(t) ==
  /\ call[t].pc = "startAt"
  /\ queue' = <<Bare(call[t].item.path)>> /\ queueIdx' = 0 /\ loop' = FALSE
  /\ EnterStartItem(t, Bare(call[t].item.path), call[t].seek)
  /\ UNCHANGED <<lifeMu, procVars, posVars, pauseVars, cfgVars, watch, halted>>

StartQueue(c) ==
  /\ call[c] = Idle
  /\ \E q \in Playlists, l \in BOOLEAN :
       /\ queue' = q /\ queueIdx' = 0 /\ loop' = l
       /\ EnterStartItem(c, q[1], 0)
  /\ halted' = FALSE
  /\ UNCHANGED <<lifeMu, procVars, posVars, pauseVars, cfgVars, watch>>

CallStop(c) ==
  /\ Begin(c, At("lock", "stop", NoItem, 0))
  /\ UNCHANGED <<lifeMu, procVars, posVars, queueVars, pauseVars, cfgVars, watch,
                 halted>>

CallPause(c) ==
  /\ Begin(c, At("lock", "pause", NoItem, 0))
  /\ UNCHANGED <<lifeMu, procVars, posVars, queueVars, pauseVars, cfgVars, watch,
                 halted>>

\* Continue and Skip read under lifeMu what to start, let lifeMu go, and then
\* call StartAt.
Continue(c) ==
  /\ lifeMu = NoThread
  /\ resumeSource # NoSource
  /\ Begin(c, At("startAt", "start", Bare(resumeSource), resumeSeek))
  /\ halted' = FALSE
  /\ UNCHANGED <<lifeMu, procVars, posVars, queueVars, pauseVars, cfgVars, watch>>

Skip(c) ==
  /\ lifeMu = NoThread
  /\ current # NoItem
  /\ Begin(c, At("startAt", "start", Bare(current.path), 0))
  /\ halted' = FALSE
  /\ UNCHANGED <<lifeMu, procVars, posVars, queueVars, pauseVars, cfgVars, watch>>

\* Restart(source): Stop, then Start.
CallRestart(c, s) ==
  /\ Begin(c, At("lock", "restart", Bare(s), 0))
  /\ halted' = FALSE
  /\ UNCHANGED <<lifeMu, procVars, posVars, queueVars, pauseVars, cfgVars, watch>>

\* Apply restarts the current source when a stream is running. The check is
\* made under mu alone, so the stream may be gone when Restart runs.
Apply(c) == running /\ current # NoItem /\ CallRestart(c, current.path)

\* UpdateConfig writes engine.json first and replaces the configuration in
\* memory after, in two steps that no lock joins. Validate refuses a
\* configuration without outputs.
UpdateConfig(c) ==
  /\ \E new \in Configs :
       /\ new.outputs
       /\ Begin(c, [At("config", "config", NoItem, 0) EXCEPT !.conf = new])
       /\ cfgFile' = new
  /\ UNCHANGED <<lifeMu, procVars, posVars, queueVars, pauseVars, cfg, watch, halted>>

ConfigInMemory(c) ==
  /\ call[c].pc = "config"
  /\ cfg' = call[c].conf
  /\ call' = [call EXCEPT ![c] = Idle]
  /\ UNCHANGED <<lifeMu, procVars, posVars, queueVars, pauseVars, cfgFile, watch,
                 halted>>

-----------------------------------------------------------------------------
(***************************************************************************)
(* The lifecycle under lifeMu.                                             *)
(***************************************************************************)

Lock_Unguarded(t) == lifeMu' = t
Lock(t) == lifeMu = NoThread /\ lifeMu' = t
Goto(t, label) == call' = [call EXCEPT ![t] = [@ EXCEPT !.pc = label]]
Leave(t) == lifeMu' = NoThread /\ call' = [call EXCEPT ![t] = Idle]

\* Every other caller is idle, so the call that returns is the last word.
LastCaller(c) == \A d \in Callers \ {c} : call[d] = Idle

\* startItem takes lifeMu and reads Running and the configuration.
Acquire(t) ==
  /\ call[t].pc = "acquire"
  /\ Lock(t)
  /\ call' = [call EXCEPT ![t] =
                 [@ EXCEPT !.pc = IF running THEN "stop" ELSE "spawn", !.conf = cfg]]
  /\ UNCHANGED <<procVars, posVars, queueVars, pauseVars, cfgVars, watch, halted>>

\* Stop and the first half of Restart take lifeMu.
AcquireStop(t) ==
  /\ call[t].pc = "lock" /\ call[t].op \in {"stop", "restart"}
  /\ Lock(t)
  /\ Goto(t, "stop")
  /\ UNCHANGED <<procVars, posVars, queueVars, pauseVars, cfgVars, watch, halted>>

\* Pause remembers the source and the absolute position, or returns when
\* nothing is running.
AcquirePause(t) ==
  /\ call[t].pc = "lock" /\ call[t].op = "pause"
  /\ lifeMu = NoThread
  /\ IF running
       THEN /\ lifeMu' = t
            /\ call' = [call EXCEPT ![t] =
                           [@ EXCEPT !.pc = "stop", !.item = current, !.seek = Position]]
       ELSE /\ call' = [call EXCEPT ![t] = Idle]
            /\ UNCHANGED lifeMu
  /\ UNCHANGED <<procVars, posVars, queueVars, pauseVars, cfgVars, watch, halted>>

\* What follows a successful stopLocked in each of its callers.
Stopped(t) ==
  \/ /\ call[t].op = "start"
     /\ Goto(t, "spawn")
     /\ UNCHANGED <<lifeMu, halted>>
  \/ /\ call[t].op = "pause"
     /\ Goto(t, "pause")
     /\ UNCHANGED <<lifeMu, halted>>
  \/ /\ call[t].op = "restart"
     /\ Goto(t, "startAt")
     /\ lifeMu' = NoThread
     /\ UNCHANGED halted
  \/ /\ call[t].op = "stop"
     /\ Leave(t)
     /\ halted' = LastCaller(t)

\* stopLocked reads Running and the process; nothing running is a success.
StopRead(t) ==
  /\ call[t].pc = "stop"
  /\ IF running
       THEN /\ call' = [call EXCEPT ![t] = [@ EXCEPT !.pc = "mark", !.target = cmd]]
            /\ UNCHANGED <<lifeMu, halted>>
       ELSE Stopped(t)
  /\ UNCHANGED <<procVars, posVars, queueVars, pauseVars, cfgVars, watch>>

StopMark_OnlySignals(t) ==
  LET p == call[t].target IN
  /\ call[t].pc = "mark"
  /\ watch' = IF watch[p].stage = "alive"
                THEN [watch EXCEPT ![p] = [@ EXCEPT !.killed = TRUE]]
                ELSE watch
  /\ Goto(t, "wait")
  /\ UNCHANGED <<lifeMu, procVars, posVars, queueVars, pauseVars, cfgVars, halted>>

\* In a second section it marks the stop intentional, and signals the process.
StopMark(t) ==
  LET p == call[t].target IN
  /\ call[t].pc = "mark"
  /\ intentionalStop' = TRUE
  /\ watch' = IF watch[p].stage = "alive"
                THEN [watch EXCEPT ![p] = [@ EXCEPT !.killed = TRUE]]
                ELSE watch
  /\ Goto(t, "wait")
  /\ UNCHANGED <<lifeMu, cmd, running, posVars, queueVars, pauseVars, cfgVars, halted>>

StopWaited(t) ==
  /\ call[t].pc = "wait"
  /\ Exited(call[t].target)
  /\ Stopped(t)
  /\ UNCHANGED <<procVars, posVars, queueVars, pauseVars, cfgVars, watch>>

\* The kill phase gives up after two seconds and the method returns an error.
StopGivesUp(t) ==
  /\ call[t].pc = "wait"
  /\ ~Exited(call[t].target)
  /\ Leave(t)
  /\ UNCHANGED <<procVars, posVars, queueVars, pauseVars, cfgVars, watch, halted>>

PauseDone(t) ==
  /\ call[t].pc = "pause"
  /\ paused' = TRUE
  /\ resumeSource' = call[t].item.path /\ resumeSeek' = call[t].seek
  /\ Leave(t)
  /\ halted' = LastCaller(t)
  /\ UNCHANGED <<procVars, posVars, queueVars, cfgVars, watch>>

\* startItem spawns ffmpeg and publishes the process.
Spawn(t) ==
  /\ call[t].pc = "spawn"
  /\ call[t].conf.outputs
  /\ \E p \in Procs :
       /\ watch[p].stage = "free"
       /\ watch' = [watch EXCEPT ![p] = [Free EXCEPT !.stage = "alive"]]
       /\ cmd' = p
  /\ running' = TRUE /\ paused' = FALSE /\ intentionalStop' = FALSE
  /\ current' = call[t].item /\ lastSeek' = call[t].seek /\ elapsedSec' = 0
  /\ resumeSource' = NoSource /\ resumeSeek' = 0
  /\ Leave(t)
  /\ UNCHANGED <<queueVars, cfgVars, halted>>

SpawnFails_KeepsLock(t) ==
  /\ call[t].pc = "spawn"
  /\ call' = [call EXCEPT ![t] = Idle]
  /\ UNCHANGED <<lifeMu, procVars, posVars, queueVars, pauseVars, cfgVars, watch, halted>>

\* No outputs configured, a bad item, a done context or a failed exec: the
\* error comes after the old process was stopped.
SpawnFails(t) ==
  /\ call[t].pc = "spawn"
  /\ Leave(t)
  /\ UNCHANGED <<procVars, posVars, queueVars, pauseVars, cfgVars, watch, halted>>

-----------------------------------------------------------------------------
(***************************************************************************)
(* The process, its progress reader and its exit watcher.                  *)
(***************************************************************************)

\* readProgress folds one -progress line into the status. Lines still in the
\* pipe are read after the process is dead, but the watcher waits for the
\* reader before it finalizes the status.
Progress ==
  /\ running
  /\ Position < MaxPos
  /\ elapsedSec' = elapsedSec + 1
  /\ UNCHANGED <<lifeMu, procVars, current, lastSeek, queueVars, pauseVars, cfgVars,
                 call, watch, halted>>

\* ffmpeg ends by itself or because it was signalled, with any exit code.
Exit(p) ==
  /\ watch[p].stage = "alive"
  /\ \E code \in {0, 1} :
       watch' = [watch EXCEPT ![p] = [@ EXCEPT !.stage = "dead", !.code = code]]
  /\ UNCHANGED <<lifeMu, procVars, posVars, queueVars, pauseVars, cfgVars, call, halted>>

\* watchExit finalizes the status and closes exited. A process that is no
\* longer the engine's only closes its channel.
Reap(p) ==
  /\ watch[p].stage = "dead"
  /\ IF cmd # p
       THEN /\ watch' = [watch EXCEPT ![p] = Free]
            /\ UNCHANGED <<cmd, running>>
       ELSE /\ running' = FALSE
            /\ cmd' = NoProc
            /\ watch' =
                 [watch EXCEPT ![p] =
                    CASE @.code = 1 -> [@ EXCEPT !.stage = "failed"]
                      [] @.code = 0 /\ ~intentionalStop -> [@ EXCEPT !.stage = "clean"]
                      [] OTHER -> Free]
  /\ UNCHANGED <<lifeMu, intentionalStop, posVars, queueVars, pauseVars, cfgVars, call,
                 halted>>

\* The successor of an index in a queue, -1 at the end of a queue that does
\* not loop.
NextIdx(q, i, l) == IF i + 1 < Len(q) THEN i + 1 ELSE IF l THEN 0 ELSE -1

\* After a clean end: read the queue and choose the next item.
AdvanceRead(p) ==
  LET next == NextIdx(queue, queueIdx, loop) IN
  /\ watch[p].stage = "clean"
  /\ watch' = [watch EXCEPT ![p] =
       IF Len(queue) > 1
         THEN [@ EXCEPT !.stage = "commit", !.next = next,
                        !.item = IF next >= 0 THEN queue[next + 1] ELSE NoItem]
         ELSE Free]
  /\ UNCHANGED <<lifeMu, procVars, posVars, queueVars, pauseVars, cfgVars, call, halted>>

\* In a second section: store the index and arm the timer, or end the queue.
AdvanceCommit(p) ==
  /\ watch[p].stage = "commit"
  /\ IF watch[p].next >= 0
       THEN /\ queueIdx' = watch[p].next
            /\ \E t \in Timers :
                 Begin(t, At("armed", "advance", watch[p].item, 0))
            /\ UNCHANGED queue
       ELSE /\ queue' = <<>>
            /\ UNCHANGED <<queueIdx, call>>
  /\ watch' = [watch EXCEPT ![p] = Free]
  /\ UNCHANGED <<lifeMu, procVars, posVars, loop, pauseVars, cfgVars, halted>>

\* After a nonzero exit: re-read the configuration, the source, the offset and
\* intentionalStop, and arm the reconnect timer.
Reconnect(p) ==
  /\ watch[p].stage = "failed"
  /\ IF cfg.reconnect /\ current # NoItem /\ ~intentionalStop
       THEN \E t \in Timers :
              Begin(t, At("armed", "reconnect", Bare(current.path), lastSeek))
       ELSE UNCHANGED call
  /\ watch' = [watch EXCEPT ![p] = Free]
  /\ UNCHANGED <<lifeMu, procVars, posVars, queueVars, pauseVars, cfgVars, halted>>

\* The timer fires: the advance starts the captured item, the reconnect goes
\* through StartAt.
AdvanceFires(t) ==
  /\ call[t].pc = "armed" /\ call[t].op = "advance"
  /\ EnterStartItem(t, call[t].item, 0)
  /\ UNCHANGED <<lifeMu, procVars, posVars, queueVars, pauseVars, cfgVars, watch, halted>>

ReconnectFires(t) ==
  /\ call[t].pc = "armed" /\ call[t].op = "reconnect"
  /\ Goto(t, "startAt")
  /\ UNCHANGED <<lifeMu, procVars, posVars, queueVars, pauseVars, cfgVars, watch, halted>>

-----------------------------------------------------------------------------
Calls(c) ==
  \/ CallStartAt(c) \/ StartQueue(c) \/ CallStop(c) \/ CallPause(c)
  \/ Continue(c) \/ Skip(c) \/ Apply(c) \/ UpdateConfig(c)
  \/ \E s \in Sources : CallRestart(c, s)

Locking(t) == Acquire(t) \/ AcquireStop(t) \/ AcquirePause(t)

Working(t) ==
  \/ StartAt(t) \/ ConfigInMemory(t)
  \/ StopRead(t) \/ StopMark(t) \/ StopWaited(t) \/ StopGivesUp(t)
  \/ PauseDone(t) \/ Spawn(t) \/ SpawnFails(t)
  \/ AdvanceFires(t) \/ ReconnectFires(t)

Watching(p) == Reap(p) \/ AdvanceRead(p) \/ AdvanceCommit(p) \/ Reconnect(p)

Next ==
  \/ \E c \in Callers : Calls(c)
  \/ \E t \in Threads : Locking(t) \/ Working(t)
  \/ Progress
  \/ \E p \in Procs : Exit(p) \/ Watching(p)

Spec == Init /\ [][Next]_vars

(***************************************************************************)
(* Fairness: a goroutine that can run does; a timer fires; sync.Mutex      *)
(* hands lifeMu to a waiter that has waited long enough (starvation mode), *)
(* which makes locking strongly fair. Nobody has to make a call, and       *)
(* ffmpeg need not exit unless it was signalled.                           *)
(***************************************************************************)
Fairness ==
  /\ \A t \in Threads : SF_vars(Locking(t)) /\ WF_vars(Working(t))
  /\ \A p \in Procs : WF_vars(Watching(p)) /\ WF_vars(watch[p].killed /\ Exit(p))

FairSpec == Spec /\ Fairness

-----------------------------------------------------------------------------
(***************************************************************************)
(* Properties.                                                             *)
(***************************************************************************)

\* Every variable has its type.
TypeOK ==
  /\ lifeMu \in Threads \cup {NoThread}
  /\ cmd \in Procs \cup {NoProc}
  /\ running \in BOOLEAN /\ paused \in BOOLEAN /\ intentionalStop \in BOOLEAN
  /\ current \in Item \cup {NoItem}
  /\ lastSeek \in 0..MaxPos /\ elapsedSec \in 0..MaxPos
  /\ queue \in Seq(Item) /\ queueIdx \in Nat /\ loop \in BOOLEAN
  /\ resumeSource \in Sources \cup {NoSource} /\ resumeSeek \in 0..MaxPos
  /\ cfg \in Config /\ cfgFile \in Config
  /\ call \in [Threads -> Call]
  /\ watch \in [Procs -> Watch]
  /\ halted \in BOOLEAN

\* At most one ffmpeg process is ever up, it is the one the engine tracks, and
\* Running says so: overlapping Start, Stop, reconnects and queue advances
\* never leave two processes pushing to the same outputs, nor one that Stop
\* cannot reach.
SingleProcess ==
  /\ \A p \in Procs : ~Exited(p) => cmd = p
  /\ running <=> (cmd \in Procs /\ ~Exited(cmd))

\* Stop returns without an error only when no ffmpeg process is up and the
\* status has been finalized.
StopReturnsStopped ==
  [][\A t \in Callers :
       (/\ call[t].op = "stop" /\ call[t].pc # "lock"
        /\ call'[t] = Idle /\ ~StopGivesUp(t))
         => ~running' /\ \A p \in Procs : Exited(p)']_vars

\* While a stream is paused nothing runs, and the remembered position lies
\* within what the paused process had played: no progress line, exit or other
\* call moves the source or the offset under it.
PausedHeld ==
  paused =>
    /\ ~running
    /\ resumeSource = current.path
    /\ lastSeek <= resumeSeek /\ resumeSeek <= Position

\* A process that Stop, Pause or a replacement signalled is never taken for a
\* finished queue item, even when it exits with code 0.
SignalledNeverAdvances ==
  \A p \in Procs : watch[p].stage \in {"clean", "commit"} => ~watch[p].killed

\* Every call returns: lifeMu is always released, and no stop waits forever
\* for a process.
EveryCallReturns ==
  \A c \in Callers : call[c].pc # "idle" ~> call[c].pc = "idle"

-----------------------------------------------------------------------------
(***************************************************************************)
(* The inductive invariant behind the safety properties.                   *)
(***************************************************************************)

\* The labels at which a goroutine is between lifeMu.Lock and Unlock.
HoldLabels == {"stop", "mark", "wait", "spawn", "pause"}
Holding(t) == call[t].pc \in HoldLabels
LockInv == \A t \in Threads : Holding(t) <=> lifeMu = t

\* Each label is reached only for the methods that pass through it, with an
\* item where one is about to be started.
Labelled(c) ==
  /\ c.pc \in {"acquire", "spawn"} => c.op = "start"
  /\ c.pc = "pause" => c.op = "pause"
  /\ c.pc = "lock" => c.op \in {"stop", "restart", "pause"}
  /\ c.op = "stop" => c.pc \in {"lock", "stop", "mark", "wait"}
  /\ c.pc \in HoldLabels => c.op \in {"start", "stop", "restart", "pause"}
  /\ c.pc \in {"startAt", "acquire", "armed"} => c.item \in Item
  /\ (c.pc \in HoldLabels \/ c.pc = "lock") /\ c.op \in {"start", "restart"}
       => c.item \in Item
LabelInv == \A t \in Threads : Labelled(call[t])

\* The process a stop waits for is the one the engine tracks, as long as it
\* tracks any; past the stop nothing runs.
TargetInv ==
  \A t \in Threads :
    /\ call[t].pc \in {"mark", "wait"} =>
         call[t].target \in Procs /\ (running => cmd = call[t].target)
    /\ call[t].pc \in {"spawn", "pause"} => ~running

\* An unreaped process that was signalled is remembered as an intentional stop.
StopRemembered == \A p \in Procs : watch[p].killed /\ ~Exited(p) => intentionalStop

\* What Pause captured stays within what the process has played.
PauseCaptured ==
  \A t \in Threads :
    Holding(t) /\ call[t].op = "pause" =>
      /\ call[t].item = current
      /\ lastSeek <= call[t].seek /\ call[t].seek <= Position

Bounds ==
  /\ Position <= MaxPos
  /\ running => current \in Item
  /\ \A p \in Procs :
       watch[p].stage = "commit" /\ watch[p].next >= 0 => watch[p].item \in Item

IInv == /\ TypeOK /\ LockInv /\ LabelInv /\ TargetInv /\ SingleProcess
        /\ StopRemembered /\ SignalledNeverAdvances /\ PauseCaptured
        /\ PausedHeld /\ Bounds

-----------------------------------------------------------------------------
(***************************************************************************)
(* What the comments of the code say and the code does not do.             *)
(***************************************************************************)

\* "a paused or stopped stream stays paused or stopped" (intentionalStop):
\* once Stop or Pause is the operator's last word nothing starts again.
StoppedStaysStopped == halted => ~running
=============================================================================
