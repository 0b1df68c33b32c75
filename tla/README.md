# KPlayer: TLA+ models and proofs

This directory models KPlayer (the Go program under `src/`): its concurrent
core (the ffmpeg engine, the schedule runtime, the output failover monitor, the
output and resource providers, the push tasks), the document store, and the
services of the management API over it. Every definition is translated from the
source, at the lines that `PROJECT.json` ("map") names. TLC checks small
instances; TLAPS proves the safety properties the runs check for every value of
the constants.

    tlc -workers 2 -config sched.cfg MCScheduler.tla
    tlapm SchedulerProofs.tla

## 1. The system

KPlayer is an unattended live-streaming server. A web console talks to an HTTP
management API, whose handlers call services over one JSON document. Three
background goroutines act on that document without anybody asking: the
scheduler, the failover monitor and the webhook dispatcher. Playback is done by
ffmpeg child processes; an older path plays through a closed C library.

    console -> HTTP API -> services (src/management) -> Store (management.json)
                 |-> Scheduler --Player--> playerAdapter --> FFmpegEngine --> ffmpeg
                 |-> StreamManager -----> one FFmpegEngine per push task
                 |-> FailoverMonitor --outputFailoverAdapter--> output Provider
                                                        prompts |  ^ messages
                                                                v  |
                                                           core library

| Component | State it keeps | Operations | Hard behaviour | What makes it correct |
|---|---|---|---|---|
| Playback engine (`engine/ffmpeg.go`) | the process, status, queue, pause point, configuration; `lifeMu`, `mu` | Start, StartAt, StartQueue, Stop, Pause, Continue, Skip, Restart, Apply, UpdateConfig; the exit watcher's queue advance and reconnect | calls, timers and watchers overlap; a stop races a clean exit; a call waits for another goroutine | one process at a time, no orphan; a paused position is kept; Stop means stopped |
| Scheduler (`management/scheduler.go`) | slot, queue, resume target, deadline, in-flight markers, Play goroutines | tick, Interrupt, Start, Stop, SetPlayer, the return of a Play | preemption while the preempted goroutine is still running; restarts with old goroutines in flight | the slot always has a holder, nothing waits behind an empty slot, no marker is stuck, one target plays |
| Failover monitor (`management/failover.go`) | stored failovers; per failover the output believed active and a disconnect timer | Create, Update, Delete; tick, Start, Stop | stale connectivity and configuration within a tick; failing, panicking switches; restarts | never leaves a primary early, always leaves a dead one, returns to a live one |
| Output provider and keeper channels (`module/output/provider`, `module/module.go`) | output list, retry channel, waiters | OutputAdd, OutputRemove, OutputList; messages of the core; the retry goroutine | answers on foreign threads overtake the caller; unlocked reads; a bounded channel | no output is forgotten, every answer reaches its waiter |
| Failover adapter (`server/output_adapter.go`) | none | OutputStates, ActivateOutput (remove, then add) | two calls, either may fail | the switch is repeatable |
| Stream manager (`server/stream.go`) | `stream.json`, a map of engines | Create, Update, Delete, Start, Stop | the map entry is replaced while its engine runs | every running ffmpeg is reachable |
| Player adapter (`server/management_api.go`) | a skip queue of its own, `queueMu` | Play, Pause, Continue, Skip, Seek, Stop | its index and the engine's each move on their own; Skip starts under its lock | the two queues are of one programme; every request returns |
| Run loop, shutdown (`scheduler.go`, `http_server.go`) | running, the done channel, the WaitGroup | Start, Stop, the loop, StartServer's end | a loop re-reads `s.done`; Start and Stop of several requests and of the shutdown overlap | one loop; none once the servers close |
| Core message fan-out (`cmd/root.go`, `http_server.go`) | subscribers, their channels, `subscribeMutex` | messageConsumer, Subscribe, Cancel, the websocket handler | sends to a full channel while holding a mutex | every subscriber gets every message, none is sent to after its channel is closed |
| Store (`management/store.go`) | the document, its file, a lock | View, Update, Replace, OpenStore | a crash or a failure between write, rename and swap | atomic, durable, no lost update |
| Snapshots (`config_snapshot.go`, `config_template.go`) | a capped history, templates | Create, Restore, Delete; templates | Restore reads and writes in separate sections | nothing is lost that need not be |
| Library (`media`, `playlist`, `schedule`, `cache_task`, `scene_template`) | records that refer to each other | create, update, delete, set items, resolve with fallback | guards against dangling references; a request in two updates | references resolve; the nearest fallback plays |
| Fleet (`node`, `remote_command`) | nodes, instances, a command queue | create, update, delete, heartbeat, mark, purge | commands appended out of the order of their time | a host exists; an outcome is final until a restore |
| Accounts (`user`, `auth`) | users, sessions | create, rename, disable; login, validate, log out | a login is verified and stored in two steps; caps, expiry | a login holds or is outrun |
| Registries (`output_group`, `health_policy`) | groups of outputs, policies | create, update, add, remove, normalise | hand-typed references | lists without repetitions, in their order |
| Logs and figures (`play_event`, `audit`, `metrics`, `suggestion_gen`) | two logs | record, prune, summary, top, recommend | stamped before appended | a prune drops the oldest; figures agree |
| Programmes (`industry_template`, `deploy`, `smart_rule`, `smart_generate`, `suggestion`) | templates, rules, suggestions | deploy, generate, approve, reject | several updates that others come between | no dangling record; a decision is final until a restore |
| Incidents (`alarm`, `webhook`, callbacks of `management_api.go`) | alarms, subscriptions, delivery records | raise, resolve, dispatch with retries | lost answers, failing writes, slow endpoints | one alarm per incident, nobody passed over in silence |
| Resource provider (`module/resource/provider`) | the list, its cursor, `input_mutex` | ResourceAdd, Remove, Seek; messages of the core | a seek waits for its answer under the mutex | the cursor is at what plays |
| Timetable (`scheduler.go` tick, `cron.go`, `schedule.go`) | the next fire of each task | create, replace, enable, delete; tick, stop, start, restart | late ticks, edits between the reading and the evaluation | a tick fires exactly what is due |

The components interact in four ways. The Scheduler calls the Player under its
own goroutine per Play, and the Player's Stop under `s.mu`. The failover monitor
calls the adapter with `m.mu` held. The core calls `messageConsumer` on threads
of its own: ParseMessage of every module, then Trigger, which hands the message
to the waiters. Everything else shares the Store, whose `Update` the services
take for one step: that is what the refinement below establishes.

`PROJECT.json` lists every component with its status, and, at its line, each
hazard of this code that a test would hardly reach.

## 2. The modules

### Engine, EngineProofs, MCEngine

`Engine` is `FFmpegEngine`. The locks are the program's: `lifeMu` is a variable
holding its owner, and each section under `mu` is one action, so goroutines
interleave exactly where the code releases a lock.

* `Callers` call the exported methods; `Timers` are the goroutines of
  `time.AfterFunc` that the exit watcher arms for a queue advance or a
  reconnect; a slot of `Procs` is a spawned ffmpeg with its `watchExit`.
* A call is a record with a program counter: `Acquire` (lifeMu), `StopRead`,
  `StopMark` (signal and `intentionalStop`), `StopWaited` or `StopGivesUp` (the
  two timeouts), then `Spawn`, `SpawnFails` or `PauseDone`.
* A process goes from alive to dead (`Exit`, by itself or signalled), is reaped
  (`Reap`: the first section of watchExit, after which `exited` is closed), and
  its watcher goes on to the queue advance (`AdvanceRead`, `AdvanceCommit`) or
  the reconnect (`Reconnect`).

`UpdateConfig` writes the file first and then the memory, in two steps, as the
code does. Left out: the command line, the duration probe, the progress
parser's text, detection of ffmpeg.

### Scheduler, SchedulerProofs, MCScheduler

`Scheduler` is the playback slot. One action is one section under `s.mu`. A
tick is one action per task it fires (`FireIdle`, `FireCritical`,
`FireImportant`, `FireInterrupt`) and `Expire` for the deadline. A
`pendingPlay` carries a key, since the code compares pointers: a restored play
has the same key as the cancelled one, and that is where one of the findings
comes from. `Return`, `SkipDone` and `PlayEnded` are the end of a Play
goroutine (`handlePlayError`, `playEndedLocked`).

Wall-clock time is left out: a task may be due and a deadline may have passed at
any tick. Stop-action tasks do not touch the slot and are no actions.

### FailoverMonitor, FailoverProofs, MCFailoverMonitor

A tick is cut where others get in: after the connectivity was read (`Read`),
after the failovers were read from the store (`Snapshot`), and at every
ActivateOutput (`Stay`, `Switch`, `SwitchFails`, `SwitchPanics`, one failover
each, in any order, as a Go map is ranged). `Prune` ends the tick. `Update` and
`Delete` change the store at any time, as the service does, and tell the
monitor nothing; so does the restore of a snapshot, which to a failover that is
there is one of the two, and which may bring a deleted one back (`Restore`). Time
passes between ticks (`Pass`) and ages the timers up to
`MaxAge`, which is past every threshold.

`seenDown`, `renamed`, `last` and `forgot` are history variables. `seenDown` is the
outage as the ticks that ran to their end have seen it, independently of the
timers of `runtime`, and is what `SwitchJustified` compares the switch with.

### OutputProvider, ProviderProofs, MCOutputProvider

The provider, the keeper channels and the adapter's ActivateOutput. Calls are
cut at every unlocked read (`RemoveCheck`, `AddCheck`), at the prompt, at the
locked change of the list, and at the registration of the waiter. A message is
parsed on one of the `Callbacks` threads: `ParseSend` (the retry; blocks on a
full channel), `ParseLookup`, `ParseStatus` (writes Connected through the
pointer it holds, which may be stale), `ParseRemove`, and `Trigger`. `Take` and
`Retry` are the reconnect goroutine. `fatal` stands for `log.Fatal` and a nil
dereference; a dead process takes no step.

The core is external (`Answer`, `Disconnect`): it answers every prompt once, in
any order, with success or an error. The process does end: a success whose
output was removed meanwhile, or not listed yet, reaches `log.Fatal`.
`NoneForgotten` excludes outputs for which
two overlapping adds have prompted (`raced`): there an entry can be listed after
its prompt has been answered and the answer undone.

### StreamManager, StreamProofs, MCStreamManager

The push tasks. A definition changes in memory and is then written (`Set`); the
write may fail and leaves memory changed. `Start` is cut where the code lets go
of `m.mu`: the lookup, `Drop` (with effects wired, the old engine leaves the
map), `TaskEngine`, `Launch`. `Stop` and `Delete` call the engine's Stop after
their section (`StopEngine`), `Update` within it.

The engine is what a caller sees of `Engine`: up or not, with a reconnect timer
that Stop does not disarm (the finding of `engine_stopped`). What an engine was
built from is remembered in `conf`, and a call collects in `seen` what its task
was defined to be while it ran: `LaunchesCurrent` compares the two. `slipped` and
`attempted` are history. A restart loads the file; ffmpeg processes end with the
program whose pipes they write to.

### Store, AtomicStore

`AtomicStore` is what the store promises: one document, changed by each update
in a single step, that outlives the program. `Store` is what `store.go` does: the
lock, the copy, the callback, the temporary file, the rename, the swap in
memory, each a step, with a failing write or a crash anywhere between and
`OpenStore` after it. The refinement mapping (`A == INSTANCE AtomicStore WITH
...`) takes the document to be what is in the file, and a call to be applied by
its rename; the property `Atomic` is `A!Spec`. The modules of the services build
on it: there an update of the store is one action.

### PlayerAdapter, RunLoop, FanOut, Background, BackgroundProofs, MCBackground

`PlayerAdapter` puts the adapter's queue beside the engine's. A start is two
steps, the replacement of the queue and `startItem`, which may fail; the engine
moves on by itself (`Ends`, `Dies`, `Fires`). `source` is what the engine has
started last, which Seek starts again, and Skip when the adapter's queue is empty
(`EngineSkip`). It is empty at first, and after a request for the media of an
empty directory: that stores its empty programme and is then refused
(`StartRefused`), while what was playing plays on. `disturbed` remembers that two
calls overlapped, a timer fired under a call or a start failed.

`RunLoop` is the loop of the scheduler under requests that start and stop it and
the shutdown, which stops it once more between closing listeners and closing
the server. Channels are named by their number, because a loop reads `s.done`
again each round. `overlapped` and `excused` name what goes wrong when calls
overlap: see section 5.

`FanOut` is the second half of `messageConsumer` with the websocket handlers.
`OutputProvider` has the first half. `Background` puts the three beside the store
and a webhook dispatch, with what their constants are; `BackgroundProofs` proves
about it, the store included. `MCBackground` gives it small instances to run; the
parts share no step, so a behaviour there is one of a single part.

### ConfigSnapshots, Library, Fleet, Accounts, Registries, Ledger, Programs, Incidents

One module per group of services, one action per request or per update of one,
with requests in flight (`version`, `edit`, `client`, `drafts`, `request`,
`jobs`) wherever the code makes more than one update, or looks before it
updates. Collections are functions from identifiers to records or `None`;
sequences only where the order matters (policies, logs, subscriptions, delivery
records). The next-state relations are the handlers of `management_api.go`.
`ConfigSnapshots` has the steps of Create and Restore themselves, with all the
other collections as one value; what they do to these is in `Services`.

* `Library` `Walk` is the fallback walk of `playlist.go`. `stale` remembers items
  that a request wrote after their media had gone, by a delete or a restore.
* `Fleet` and `Ledger` stamp before they append (`Create`, `StampEvent`), so that
  the order of the document is not that of the times.
* `Accounts` cuts a login at the password check, the stamp and the store.
* `Programs` cuts a deployment where `deploy.go` does: check of the media,
  playlist, scene, task. What is generated is a pure function (`Generate`).
* `Incidents` joins the error callbacks of `newManagementHandler`, alarms and the
  webhook dispatcher: attempt, answer, wait, record, and its own alarm when the
  record cannot be written.

### ResourceProvider

The list and cursor of the core's playlist. `SeekSend`, `SeekRegister` and
`SeekAnswered` are one `ResourceSeek`, under `input_mutex` from first to last;
`SeekLost` is the answer that comes before its waiter. `Finish` is the message
that moves the cursor, in the four play modes. The core is external: it plays
what it is handed, one after another.

### Timetable

What a tick does before it calls fire: it reads the enabled tasks (`enabledTasks`),
and under `s.mu` renews the cached entries of new and edited tasks and fires what
is due (`Evaluate`); edits of the tasks, Stop and a crash come between the two.
The ticker keeps one tick, with the time it was sent at. Time is in half minutes.
An expression is `ParseCron` of parts, matched minute by minute over a calendar
(`Next`). `seen` and `fired` are histories for the properties, which read an
expression on their own (`Wanted`), after the header of `cron.go`.

### Services, Lists, ServicesProofs, RecordsProofs, MCServices

`Services` puts the eight modules and these two over one state, says what the
constants are (`ServicesAssumption`), and states what they promise together.

A request of one service leaves the collections of the others alone, except that
`Restore` replaces them all at once. `Document` is what a snapshot holds of them,
`Capture` the step of Create that copies it, `saved` the documents copied so far,
and `Restore` puts one of these in place of the present one (`Replaced`), at any
time: what requests, callbacks and ticks under way have read (`underWay`) stays as
it is, and may be of records that are no longer there. A restore copies its
snapshot well before it replaces the document, so any document that was ever
captured may be the one, whether its snapshot is still there or not. The
collections of the failovers are in `FailoverMonitor`, with a `Restore` of its own.

`Lists` has the order of a sequence (`Rank`, `Among`) that several of them speak of.
`ServicesProofs` and `RecordsProofs` prove about it. `MCServices` runs it, again
one part per behaviour; a service with many collections is several parts, each
with those that bear on one another.

## 3. What the runs check

| Run | Instance | Properties | Shows |
|---|---|---|---|
| `engine` | 1 caller, 1 timer, 2 process slots, a playlist of one file with and without extra inputs, every configuration | TypeOK, SingleProcess, PausedHeld, SignalledNeverAdvances, StopReturnsStopped | at most one ffmpeg and never an orphan; Stop means stopped; a paused position is kept; a signalled process is not a finished item |
| `engine_live` | the same threads, one configuration | EveryCallReturns | no call hangs on lifeMu or on an exit |
| `engine_stopped` | as above | StoppedStaysStopped | *violated*: a Stop while a reconnect or advance timer is pending is undone by it |
| `sched` | a task of each priority, one timed interrupt task, requested interrupts without an end, 2 Play goroutines, queue of 1 | TypeOK, QueueBacked, SlotBacked, MarkersBacked, OneTargetUntilRestore, PreemptsUpwards, InterruptEnds, QueueDrains | the slot, queue and markers are always held by a goroutine that will return; a timed interrupt gives the slot up; queued plays get their turn |
| `sched_target` | as `sched`, queue of 2 | OneTarget | *violated*: the late return of a cancelled play frees the slot of its own restored self, and a second target starts |
| `failover` | one failover that Update turns into three configurations (both policies, two thresholds, outputs swapped, disabled), deleted and restored | TypeOK, SwitchJustified, FailsOver, FailsBackRemembered | no early switch; a dead primary is left; an automatic failover returns unless it was forgotten |
| `provider` | one output, 2 clients of which one only adds, 1 callback thread, channel of 1 | TypeOK, NoneForgotten, AnswerReachesWaiter | every listed output has the core, a message, a retry or a prompt that sees to it; a full retry channel does not keep an answer from its waiter |
| `provider_wait` | 1 client, 1 thread | EveryCallReturns | *violated*: an answer before RegisterKeeperChannel is lost and the call waits for ever |
| `stream` | one push task, 2 callers, 2 definitions, 2 effect chains, 2 engines, every fault | TypeOK, LaunchesCurrent, OrphansExplained, AcknowledgedIsStored | a start launches what its task is; an engine gets out of reach only for the reasons named; what is acknowledged is on disk |
| `stream_stop` | 1 caller, no faults | StopHalts | *violated*: a task started twice runs two ffmpeg processes and Stop ends one |
| `background` | store: 2 clients, 3 documents, 3 updates, crashes; player: 1 caller with the engine moving and an empty programme among the others, or 2 callers; loop: 2 requests, 2 loops, 3 starts, the shutdown; fan-out: 3 messages, 2 handlers, channel of 1; dispatch: 2 subscribers, 3 attempts | TypesOK, OneProgramme, OneLoop, Atomic, CallsReturn, HandedOut | the store implements the atomic store; both queues are of one programme; one loop and a quiet shutdown; every call, request, Stop, message and dispatch comes to its end |
| `services` | 2 or 3 identifiers of each kind, 2 requests in flight where a service has them, caps of 1 or 2, one captured document, restored at any time | TypesOK, ReferencesResolve, ResultsRight, CursorFollows, LogsKept, RecordsKept, SessionsHold, IncidentsTold, FiresWhenDue | what the services promise of each other's records, whatever requests, and whatever restore, come between two updates of one |

A property of the last two runs is the conjunction of those of their parts, which
the modules state where the variables are: `CallsReturn` is `EveryCallEnds` of
Store, `PlayerReturns` and `StopEnds`; `HandedOut` is `NeverClosed` and
`HandedOut` of FanOut and `DispatchesEnd`; `ReferencesResolve` is that of Library
with `ProgramsResolve` and `InstancesHosted`; `ResultsRight` is `FallbackNearest`,
`GenerateKeepsFirst`, `RecommendFull`, `FiguresAgree` and `NormalizeKeepsOrder`;
`RecordsKept` is `RestoreKeepsHistory`, `CreatedOrOutrun`, `CommandsFinal`,
`NewestKept` and `DecisionsFinal`; `LogsKept` is `PruneKeepsNewest` of Ledger;
`SessionsHold` is `LoginOpens` and `SessionsKept`. `CommandsFinal`, `NewestKept`,
`DecisionsFinal`, `PruneKeepsNewest` and `SessionsKept` are asked of every step but
a Restore, which is the one that may undo a decision, an outcome, a log or a
session (section 5), and of all the steps after it. The other properties hold of
the restores as well.
`Services` states these, with `SessionsHold`, `IncidentsTold` and `FiresWhenDue`.
`TypesOK` and `ResultsRight` are of `MCServices`: each of their parts is evaluated
only where it moves, without which the run takes many times as long.

The four violated properties each quote a comment of the code; the findings in
`PROJECT.json` give the lines. Each passing property has a mutant: a definition
of the model changed as a plausible bug would change the code, under which the
property fails in the same run. The conjunctions have one for nearly every part.

### Bounds, and why they are enough

* Process slots, timers, Play goroutines and keys are pools: a slot is free
  again when its goroutine has returned. They bound how many are alive at once,
  never how long a behaviour is. Two process slots hold a process and a
  predecessor whose watcher is still under way. Two Play goroutines hold a
  playing one and one that was cancelled or ends beside it. Two engines of a
  push task are the one in the map and one that got out of it.
* `MaxQueue` is 32 in the code; 1 and 2 reach the full queue and an order in it.
* Interrupts on request have no duration in `sched` and both in `sched_target`:
  a timed one that interrupts an interrupt is restored without a deadline, which
  InterruptEnds does not cover.
* `MaxPos` 1 distinguishes a position from none. `MaxAge` 2 is the largest
  threshold, so ages below, at and past each threshold occur.
* `ChanCap` is 5 in the code; 1 makes the full channel frequent. `MaxPrompts`
  only holds back calls, not retries, whose number cannot grow on its own.
* Store: two clients overlap in every pair of steps; three documents and updates
  that build on what they read tell a lost update from a late one. Crashes are
  unbounded.
* RunLoop: two loops and three channels are what an overlapping Start needs to
  give an old loop a new channel. FanOut: the channel holds 500 in the code; 1
  makes the jam frequent, and three messages fill it with another on its way.
* Services: two records are enough for a name or a reference to clash, a third
  playlist for a fallback chain that goes on, ends or comes back to itself within
  `MaxDepth` 2 (5 in the code).
  Caps (`MaxSnapshots`, `MaxSessions`, `MaxHistory`) are 1 or 2, one less than
  what can be created, so each one evicts. Logs are of up to three entries.
* Restores: `MaxSaved` 1 document is captured in a behaviour, and restored any
  number of times. `Captured` of `MCServices` says of which states: in each part
  with several collections or requests of several steps, a few that the rest of
  the behaviour grows away from, in the logs and in the review every one; the
  users of the accounts and the templates of the deployments stay as they were
  captured, and the fallbacks, items, caches, policies, rules and hooks are
  restored in the proofs only. These are of any number of documents, captured in
  any state.
* Timetable: one task with an interval or one of three expressions, four minutes
  over a change of day and weekday, two edits and any number of stops and
  restarts. Minutes that match, that do not, and expressions that never match
  again all occur; both kinds of restricted day do.
* PlayerAdapter: two callers play no loop and no empty directory, which one caller
  beside the engine does.
* ResourceProvider: two configured resources and one more to add or seek; a
  behaviour ends where the cursor has slipped, since the property excepts it.
* `TypeOK` of Engine bounds nothing that the code bounds otherwise; states where
  every slot of a pool is taken simply wait for one.

Symmetry is used for threads, slots and keys, in runs without liveness only.

### Fairness, and why the code justifies it

* Engine: goroutines that hold a lock or a signal go on, a timer fires, a
  signalled process exits or the second timeout passes. lifeMu is granted
  fairly (Go's mutex has a starvation mode), hence strong fairness there.
  Nobody has to call.
* Scheduler: the loop ticks, so a passed deadline is seen; a Play whose context
  is cancelled returns; a goroutine that ends gets `s.mu`. A Play that nobody
  cancels may go on for ever, so `QueueDrains` assumes that plays return.
* FailoverMonitor: the ticker fires again and again, a read succeeds again and
  again, a tick goes on, and a switch that is retried for ever succeeds in the
  end. Without the last one no monitor could promise anything.
* StreamManager: no liveness is claimed.
* OutputProvider: threads and goroutines go on (a thread that waits for room in
  the channel gets it if there is room again and again), and the core answers
  every prompt.
* Store: a goroutine that holds the lock goes on, and `sync.RWMutex` hands it to
  who waits (strong fairness of `Run`). PlayerAdapter: a request goes on and its
  start succeeds or fails. RunLoop: a loop goes round, and a select with both
  cases ready does not take the ticker for ever (strong). FanOut: goroutines go
  on, and a handler reads, writes and leaves. Incidents: a dispatch goes on
  through its attempts and waits. Nobody has to call, to connect or to fail.
* The services of `MCServices` promise no liveness: each request is a bounded
  number of steps under the store's lock.

## 4. What is proved

TLAPS checks all of this for every value of the constants, from the named
`ASSUME` of each module: disjoint pools, thresholds within `MaxAge`, a positive
queue length, `None` in no collection, calendars in order, which is what the
constructors and validators establish, and media named by their place in the
library, where only their order matters. TLC evaluates each assumption on the
run whose module extends it. `PROJECT.json` ("theorems") lists the results.

* `EngineProofs`: TypeCorrect, OneProcess, PausedStreamHeld,
  StoppedItemNeverAdvances, StopMeansStopped. `SingleProcess` is not inductive:
  a second process could start if a thread reached `spawn` while one runs. The
  invariant `IInv` of `Engine` adds who holds lifeMu (LockInv), which methods
  pass through which label (LabelInv), that past the stop nothing runs
  (TargetInv), that an unreaped signalled process is remembered as an
  intentional stop (StopRemembered), and that what Pause captured stays behind
  the position (PauseCaptured).
* `SchedulerProofs`: TypeCorrect, QueueNeverOrphaned, SlotNeverStuck,
  MarkerNeverStuck from one invariant (the three together with the types of the
  goroutines' records). OneTargetBeforeRestore needs a second one: before the
  first restore a play has at most one goroutine, and a goroutine that is not
  cancelled and plays is the one of the slot. LosesOnlyUpwards
  (PreemptsUpwards) follows from the two, one lemma per way to fire a task.
* `FailoverProofs`: TypeCorrect and NeverEarly (SwitchJustified). The invariant
  says that a timer measures no more than the outage the ticks have seen
  (TimerInv), that the outputs of a snapshot are those of the store, or were when
  it was deleted, unless Update or a restore changed them (PairInv),
  and that a failover already evaluated in this
  tick whose primary is up has its timer off (TickInv). TLC found each part
  before it was proved.
* `ProviderProofs`: TypeCorrect and NothingForgotten (NoneForgotten). A listed
  output is seen to by the core, a message, a retry or a prompt; the step that
  could lose it is a write through a stale pointer, an answer taken off the
  queue, or an append after its prompt. The invariant says what a callback thread
  holds a pointer to (PointerInv), what an add that has prompted and not listed
  may count on (AppendInv), and whom a waiter is about (AboutInv).
* `StreamProofs`: TypeCorrect, NeverStale (LaunchesCurrent), NoOtherOrphans
  (OrphansExplained), Durable (AcknowledgedIsStored). LaunchesCurrent needs to
  know that a start has seen what its task is now and, from its Drop on, what the
  engine in the map was made from (CallInv), and that without effects an engine
  in the map is always what its task says (MapInv). OrphansExplained needs that
  an engine about to be launched is in the map or already remembered.
* `BackgroundProofs`:
  * Implements (Atomic), the refinement of the store: the initial states map to
    initial states and every step to a step of AtomicStore or a stutter. The
    mapping takes the file for the document while View and Update read the
    memory, so the invariant has to say that the two are the same except for the
    one writer between its rename and its swap (CopyInv), that the lock is held
    by exactly who writes (LockInv), and that a store that is not open has no
    calls (OpenInv).
  * LoopsEnd (OneLoop and the quiet shutdown): unless starts and stops have
    overlapped, at most one loop reads a channel that is still open (AtMostOne),
    whoever stops waits for exactly the loops there are (Awaited), and past the
    shutdown they wind down (WindsDown).
  * NoClosedSend: at most one message is being sent and it holds the mutex
    (OneSends). SameProgramme (OneProgramme): the adapter's queue and the
    engine's agree except while the one call under way has moved one and not the
    other, or the adapter's is empty (Agrees); programmes may be empty.
    BackgroundTypes: the four type invariants.
* `ServicesProofs` and `RecordsProofs` are about `Spec` of `Services`, in which
  documents are captured and restored at any step. The invariant of a service
  therefore says of each captured document what it says of the present one,
  together with what is under way now (`FleetOf`, `LibraryOf`, `ProgramOf`,
  `AccountOf`, `RegistryOf`, `LedgerOf`, `IncidentOf`): it holds of a document when
  it is captured, each step of the service keeps it, since what a step changes of
  the rest (clocks that only grow, records that only now become known) takes
  nothing from it, and a restore makes a captured document the present one. What
  is no part of a document, the snapshots and the resources, takes no notice
  (OthersApart).
* `ServicesProofs`:
  * ReferencesKept (ReferencesResolve): of playlists, tasks, caches and scenes
    (`LibraryInv`: also the types of the requests between their two updates), of
    what a deployment or a review makes (`Requested`: a request holds only what it
    found), of instances and their hosts.
  * RecordsFinal (RecordsKept): a restore that is alone carries the history as it
    is (`CarryCurrent`), so replacing the history loses nothing; a capture is
    stored or outrun by newer ones (`SnapshotsStamped` orders them); commands in
    the queue are of distinct times no later than the clock (`Appendable`) and
    only decided ones have been executed (`Executed`); reviews decide once. The
    parts about commands and reviews are of every step but a Restore.
  * SessionsAreHeld (SessionsHold): the sessions have distinct stamps
    and are no more than the cap (`SessionsStamped`), and what is expired lies
    behind the horizon (`ExpiredIs`), those of the captured documents too.
  * CursorKept (CursorFollows): the cursor is within the list or one past it
    (`Bounded`), nothing is under way between calls (`Rests`), and what plays is
    what is under the cursor, or under it once the seek is answered (`Follows`).
  * FallsBackNearest (FallbackNearest). `Walk` and the chain it is compared with
    are recursive functions, so the proof first shows that they exist: going on
    from any table of outcomes, after `MaxDepth + 1` rounds no walk changes any
    more (Iterates, Walks). Then, from the deepest hop back to the first
    (FindsNearest): a walk that has met nothing to play so far finds the nearest
    farther on, where a chain that meets a gap or itself has nothing new to
    offer (ChainStops, ChainCycles).
  * GeneratesInOrder (GenerateKeepsFirst): the fold over the library keeps, at
    each number, the first of what is allowed below it (GeneratesFirst).
  * The type invariants of Fleet, Library, Programs, ConfigSnapshots, Accounts
    and ResourceProvider.
* `RecordsProofs`:
  * RegistriesHold, NormalizesInOrder: groups and policies keep their names apart
    and their lists without repetition; normalising a list keeps exactly the
    first mentions, in their order.
  * LogsStay (LogsKept): entries and drafts are of distinct times no later than the
    clock, although drafts are appended out of order; hence a prune keeps the
    newest. Of the steps only a Restore is excepted.
  * IncidentsAreTold (IncidentsTold): each dispatch goes through each subscriber
    once, has posted to none it has yet to come to, and to the one it is at no
    more often than it has tried (`ToursKept`). Records that only a captured
    document has count as well (`Logged`).
  * FiresAsDue (FiresWhenDue): an entry of the cache is the time its task was
    seen for, whatever version of the task a tick may still read (`Cached`), which
    after a restore is any of a captured document too (`Readable`), and the
    numbered edits determine the timing (`Ordered`). The lemma NextRight says
    that the search over the calendar finds the first minute the header of
    `cron.go` asks for.
  * FiguresRight: the ranking takes each media that was played once, the more
    played first (Places, RanksAll), so a list cut at the limit leaves out only
    what ranks below it (RecommendsFull); the failures by media, summed in their
    order, are all the failures there are (FiguresMatch).
  * ComputedRight (ResultsRight), from these two and the two above;
    ServicesTypes: all the type invariants of the run.

The lemmas the proofs keep needing are stated once: the least number of a set
(LeastIs), ranks of elements of a finite set of numbers (Ranks, RankGrows), what a
bounded history keeps (OldestOf, KeptFew, AsManyKept, PruneRight), sequences
without repetition (DistinctElements, Removed), the first mentions of a list
(Normalized), the search of the cron expression (EarliestIs, NextRight).

Only model-checked are the liveness properties, since fairness and `ENABLED` are
out of the prover's reach: `EveryCallReturns`, `InterruptEnds`, `QueueDrains`,
`FailsOver`, `FailsBackRemembered`, `AnswerReachesWaiter`, `CallsReturn` and
`HandedOut`. What `HandedOut` says beside liveness is NoClosedSend. Every safety
invariant and action property of a run is stated by a theorem.

## 5. Where the code differs from what it says

Besides the four findings, the modules state these as properties that no run
has, because they are false of the code; each names the exception in the
property that a run does have.

* `FailsBack` (FailoverMonitor): a restart, or a disable and an enable, while the
  backup is live leaves it there (`failover.go:313-324`); FailsBackRemembered.
* `SkipAdvances` (PlayerAdapter): the engine that moved on by itself is not
  followed by the adapter's index, so Skip restarts the item that plays
  (`management_api.go:2310`, `:2421`).
* `HistoryKept` (ConfigSnapshots): what is saved between the two steps of a
  Restore is lost (`config_snapshot.go:170-193`); RestoreKeepsHistory.
* What is final is so until a restore. That a decision "cannot be undone"
  (`suggestion.go:48`), the outcome of a command and the end of a session are of
  the document, and `config_snapshot.go:197` replaces all of it: a decided
  suggestion is pending again and an approval may make its task a second time, a
  command that was reported done is pending again or gone, sessions opened since
  the snapshot end and those logged out since are open again, and both logs are
  those of the snapshot. RecordsKept, SessionsHold and LogsKept are of every step
  but this one. A request that looked before the restore and writes after it
  leaves the same kind of dangling item as one that a delete came between
  (`stale`).
* The media of an empty directory: `management_api.go:2336-2339` empties the
  adapter's queue before the engine refuses to play nothing, and the old programme
  plays on. Skip, which would go to its next item, then starts what is playing
  again (`:2425-2427`); OneProgramme.
* `ItemsResolve` (Library): a request resolves its items before the update that
  stores them, and a delete may come between (`media.go:194`).
* `TasksValid` (Library): Replace validates the action of the new record and
  keeps the stored one (`schedule.go:187`, `:280`).
* `QueueGoesOn` (ResourceProvider): a queue that has been played to its end does
  not go on with what is added (`provider.go:259-262`). In the same module, a seek
  without a name sets the cursor to the first resource (`seekIndex` stays 0), and
  a random index is drawn from the number of those not played and used in the
  whole list.
* RunLoop: a Start while a Stop waits can leave two loops, or leave the Stop
  waiting; a second Stop at the same time returns at once, and the shutdown's may
  be it. `overlapped` and `excused` are these cases.
* FanOut: a handler that leaves behind a full channel waits for the mutex that the
  goroutine sending to it holds, and every later message waits with them
  (`Jammed`).
* Programs: the `Enabled` of a smart rule is stored and never consulted
  (`smart_rule.go:35`).

## 6. What is not modelled

Torn reads and other data races on Go slices and strings; the clock; JSON and
protobuf encoding; ffmpeg's command line; HTTP routing, authentication of routes
and permissions; enabled flags and filters that only select what is listed. Two
loops of the failover monitor at once are excluded by `Start` there; only the
server starts and stops it. EndReconnect and the end of a core run are left out
of OutputProvider.

The media scanner is file-system input, the core binding calls a closed library,
the command line, types and generated code keep no state. The play provider
holds start options; the plugin provider keeps a list as the output provider
does, without retries.
Malformed cron expressions, names of months and days, and clock changes are left
out of Timetable, and so is the time a task last ran, which is only shown.

Hazards of the engine and the scheduler that no property covers, because the
code gives no word on what it should do: a queue replaced before a start that
fails (`ffmpeg.go:254`); a reconnect in the middle of a playlist that restarts
one item and loses the rest (`:655`); engine.json and memory written in two steps
(`:513`); the queue index stored in a second section (`:603`); Continue, Skip and
Apply that read what to start, release every lock and then start it (`:457`); an
important task queued again while an earlier fire of it is queued
(`scheduler.go:544`); an interrupt requested during a timed one (`:647`);
handlePlayError reading ctx.Err() before it skips (`:625`). All are steps of the
models. A task disabled after a tick has read it (`:349`) still fires once:
`FiresWhenDue` is about the tasks as they were read. An edit renews the entry, so
the fire that was due and not yet taken is forgotten, and an interval starts
anew.

## 7. The plan

Done: `Engine`, `Scheduler`, `FailoverMonitor`, `OutputProvider`, `StreamManager`;
the store and its refinement; the services; the background parts; the resource
provider; the timetable; proofs of every safety property of the runs.

Left, in this order:

1. An abstract engine, as the stream manager takes it (started, stopped, failed
   by itself), shown to be implemented by `Engine`: what `StreamManager` and
   `Scheduler` suppose of it would then be a theorem.
2. `Scheduler` over `PlayerAdapter`, whose Play returns at once, where today it is
   run over an engine whose Play lasts as long as the item.
3. The plugin list of the core.

