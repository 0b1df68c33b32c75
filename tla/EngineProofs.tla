----------------------------- MODULE EngineProofs -----------------------------
(***************************************************************************)
(* Proofs about the playback engine (Engine), for any sets of goroutines,  *)
(* processes, sources, playlists and configurations and any bound on       *)
(* positions.                                                              *)
(*                                                                         *)
(* Five parts: the types of the records; what one step may do to the       *)
(* invariant by the place it is taken from (outside lifeMu, entering,      *)
(* holding, leaving it); one lemma per action of Next, each of which says  *)
(* that the action preserves IInv; the theorems; and the action property   *)
(* of Stop.                                                                *)
(***************************************************************************)
EXTENDS Engine, TLAPS

USE EngineAssumption

-----------------------------------------------------------------------------
(***************************************************************************)
(* The types of the records.                                               *)
(***************************************************************************)

\* The locals a goroutine starts a method with have the type of a call.
LEMMA AtType ==
  ASSUME NEW pc \in Labels, NEW op \in Methods, NEW item \in Item \cup {NoItem},
         NEW pos \in 0..MaxPos
  PROVE  /\ At(pc, op, item, pos) \in Call
         /\ At(pc, op, item, pos).pc = pc
         /\ At(pc, op, item, pos).op = op
         /\ At(pc, op, item, pos).item = item
         /\ At(pc, op, item, pos).seek = pos
  BY DEF At, Call, Config, NoConfig

\* A goroutine between calls is a call with no method.
LEMMA IdleType == Idle \in Call /\ Idle.pc = "idle" /\ Idle.op = "none"
  BY AtType DEF Idle, Labels, Methods

\* Moving a goroutine to another label changes nothing else it captured.
LEMMA GotoType ==
  ASSUME NEW c \in Call, NEW pc \in Labels
  PROVE  /\ [c EXCEPT !.pc = pc] \in Call
         /\ [c EXCEPT !.pc = pc].pc = pc
         /\ [c EXCEPT !.pc = pc].op = c.op
         /\ [c EXCEPT !.pc = pc].item = c.item
         /\ [c EXCEPT !.pc = pc].seek = c.seek
         /\ [c EXCEPT !.pc = pc].conf = c.conf
         /\ [c EXCEPT !.pc = pc].target = c.target
  BY DEF Call

\* StartAt and the reconnect wrap a path of Sources in an item.
LEMMA BareType == ASSUME NEW s \in Sources PROVE Bare(s) \in Item /\ Bare(s).path = s
  BY DEF Bare, Item

\* "No item" is not an item, and every item names a source.
LEMMA ItemType == /\ NoItem \notin Item
                  /\ \A i \in Item : i.path \in Sources
                  /\ NoItem.path = NoSource
  BY DEF Item, NoItem

\* The fields of a call, one by one.
LEMMA CallFields ==
  ASSUME NEW c \in Call
  PROVE  /\ c.pc \in Labels /\ c.op \in Methods /\ c.item \in Item \cup {NoItem}
         /\ c.seek \in 0..MaxPos /\ c.conf \in Config /\ c.target \in Procs \cup {NoProc}
  BY DEF Call

\* Every update the actions make to a process and its watcher has its type.
LEMMA WatchType ==
  /\ Free \in Watch
  /\ [Free EXCEPT !.stage = "alive"] \in Watch
  /\ \A w \in Watch :
       /\ \A s \in Stages : [w EXCEPT !.stage = s] \in Watch
       /\ [w EXCEPT !.killed = TRUE] \in Watch
       /\ \A c \in {0, 1} : [w EXCEPT !.stage = "dead", !.code = c] \in Watch
       /\ \A n \in Nat \cup {-1}, i \in Item \cup {NoItem} :
            [w EXCEPT !.stage = "commit", !.next = n, !.item = i] \in Watch
       /\ w.stage \in Stages /\ w.code \in {0, 1} /\ w.killed \in BOOLEAN
       /\ w.next \in Nat \cup {-1} /\ w.item \in Item \cup {NoItem}
  BY DEF Free, Watch, Stages

\* The successor of an index in a queue is an index of the queue or -1.
LEMMA NextIdxType ==
  ASSUME NEW q \in Seq(Item), NEW i \in Nat, NEW l \in BOOLEAN, q # <<>>
  PROVE  /\ NextIdx(q, i, l) \in Nat \cup {-1}
         /\ NextIdx(q, i, l) >= 0 => q[NextIdx(q, i, l) + 1] \in Item
  BY DEF NextIdx

\* Replacing the locals of one goroutine leaves the others as they were.
LEMMA CallUpdate ==
  ASSUME TypeOK, NEW t \in Threads, NEW c1 \in Call, call' = [call EXCEPT ![t] = c1]
  PROVE  /\ call' \in [Threads -> Call]
         /\ call'[t] = c1
         /\ \A u \in Threads : u # t => call'[u] = call[u]
  BY DEF TypeOK

-----------------------------------------------------------------------------
(***************************************************************************)
(* Steps by where they are taken from.                                     *)
(***************************************************************************)

\* A step that takes, holds and frees no lock, and at most lets reaped
\* watchers go on and goroutines outside lifeMu move, preserves the invariant.
LEMMA OutsideStep ==
  ASSUME IInv,
         call' \in [Threads -> Call],
         \A u \in Threads : \/ call'[u] = call[u]
                            \/ /\ ~Holding(u)
                               /\ call'[u].pc \notin HoldLabels /\ Labelled(call'[u]),
         watch' \in [Procs -> Watch],
         \A p \in Procs :
           /\ IF Exited(p) THEN Exited(p)' ELSE watch'[p] = watch[p]
           /\ watch'[p].stage \in {"clean", "commit"} => ~watch'[p].killed
           /\ watch'[p].stage = "commit" /\ watch'[p].next >= 0 => watch'[p].item \in Item,
         UNCHANGED <<lifeMu, procVars, posVars, pauseVars>>,
         queue' \in Seq(Item), queueIdx' \in Nat, loop' \in BOOLEAN,
         cfg' \in Config, cfgFile' \in Config, halted' \in BOOLEAN
  PROVE  IInv'
<1>0. /\ TypeOK /\ LockInv /\ LabelInv /\ TargetInv /\ SingleProcess
      /\ StopRemembered /\ SignalledNeverAdvances /\ PauseCaptured
      /\ PausedHeld /\ Bounds
  BY DEF IInv
<1>2. TypeOK'
  BY <1>0 DEF TypeOK, procVars, posVars, pauseVars
<1>3. LockInv'
  BY <1>0 DEF LockInv, Holding
<1>4. LabelInv'
  BY <1>0 DEF LabelInv
<1>5. TargetInv'
  BY <1>0 DEF TargetInv, HoldLabels, procVars
<1>6. (SingleProcess /\ StopRemembered)'
  BY <1>0 DEF SingleProcess, StopRemembered, procVars, Exited, TypeOK
<1>7. (SignalledNeverAdvances /\ PausedHeld /\ Bounds)'
  BY <1>0 DEF SignalledNeverAdvances, PausedHeld, Bounds, procVars, posVars, pauseVars, Position
<1>8. PauseCaptured'
  BY <1>0 DEF PauseCaptured, Holding, posVars, Position
<1>. QED BY <1>2, <1>3, <1>4, <1>5, <1>6, <1>7, <1>8 DEF IInv

\* A call or a timer that changes nothing but its own locals, the queue and
\* the configuration.
LEMMA OutsideCall ==
  ASSUME IInv, NEW t \in Threads, ~Holding(t),
         NEW c1 \in Call, c1.pc \notin HoldLabels, Labelled(c1),
         call' = [call EXCEPT ![t] = c1],
         UNCHANGED <<lifeMu, procVars, posVars, pauseVars, watch>>,
         queue' \in Seq(Item), queueIdx' \in Nat, loop' \in BOOLEAN,
         cfg' \in Config, cfgFile' \in Config, halted' \in BOOLEAN
  PROVE  IInv'
<1>1. /\ call' \in [Threads -> Call]
      /\ call'[t] = c1
      /\ \A u \in Threads : u # t => call'[u] = call[u]
  BY CallUpdate DEF IInv
<1>2. \A u \in Threads : \/ call'[u] = call[u]
                         \/ /\ ~Holding(u)
                            /\ call'[u].pc \notin HoldLabels /\ Labelled(call'[u])
  BY <1>1
<1>3. \A p \in Procs :
        /\ IF Exited(p) THEN Exited(p)' ELSE watch'[p] = watch[p]
        /\ watch'[p].stage \in {"clean", "commit"} => ~watch'[p].killed
        /\ watch'[p].stage = "commit" /\ watch'[p].next >= 0 => watch'[p].item \in Item
  BY DEF IInv, Exited, SignalledNeverAdvances, Bounds
<1>4. watch' \in [Procs -> Watch]
  BY DEF IInv, TypeOK
<1>. QED BY <1>1, <1>2, <1>3, <1>4, OutsideStep

\* A goroutine between calls is outside lifeMu.
LEMMA IdleOutside == /\ Idle \in Call /\ Idle.pc \notin HoldLabels /\ Labelled(Idle)
  BY IdleType DEF HoldLabels, Labelled

\* A goroutine about to ask for lifeMu, or with an armed timer, is outside it.
LEMMA AtOutside ==
  ASSUME NEW pc \in {"armed", "startAt", "acquire"}, NEW op \in {"start", "advance", "reconnect"},
         pc = "acquire" => op = "start",
         NEW item \in Item, NEW pos \in 0..MaxPos
  PROVE  /\ At(pc, op, item, pos) \in Call /\ At(pc, op, item, pos).pc \notin HoldLabels
         /\ Labelled(At(pc, op, item, pos))
  BY AtType DEF HoldLabels, Labelled, Labels, Methods

\* lifeMu is taken at a label that has nothing to show yet.
LEMMA EnterStep ==
  ASSUME IInv, NEW t \in Threads, lifeMu = NoThread,
         NEW c1 \in Call, c1.pc \in {"stop", "spawn"}, Labelled(c1),
         c1.pc = "spawn" => ~running,
         c1.op = "pause" => c1.item = current /\ c1.seek = Position,
         call' = [call EXCEPT ![t] = c1], lifeMu' = t,
         UNCHANGED <<procVars, posVars, queueVars, pauseVars, cfgVars, watch, halted>>
  PROVE  IInv'
<1>0. /\ TypeOK /\ LockInv /\ LabelInv /\ TargetInv /\ SingleProcess
      /\ StopRemembered /\ SignalledNeverAdvances /\ PauseCaptured
      /\ PausedHeld /\ Bounds
  BY DEF IInv
<1>1. /\ call' \in [Threads -> Call]
      /\ call'[t] = c1
      /\ \A u \in Threads : u # t => call'[u] = call[u]
  BY <1>0, CallUpdate
<1>2. TypeOK'
  BY <1>0, <1>1 DEF TypeOK, procVars, posVars, queueVars, pauseVars, cfgVars
<1>3. LockInv'
  BY <1>0, <1>1 DEF LockInv, Holding, HoldLabels, Threads
<1>4. LabelInv'
  BY <1>0, <1>1 DEF LabelInv
<1>5. TargetInv'
  BY <1>0, <1>1 DEF TargetInv, procVars
<1>6. (SingleProcess /\ StopRemembered /\ SignalledNeverAdvances /\ PausedHeld /\ Bounds)'
  BY <1>0 DEF SingleProcess, StopRemembered, SignalledNeverAdvances, PausedHeld, Bounds,
             procVars, posVars, pauseVars, Exited, Position
<1>7. PauseCaptured'
  <2>1. lastSeek <= Position
    BY <1>0 DEF TypeOK, Position
  <2>. QED BY <1>0, <1>1, <2>1 DEF PauseCaptured, Holding, posVars, Position, TypeOK
<1>. QED BY <1>2, <1>3, <1>4, <1>5, <1>6, <1>7 DEF IInv

\* A goroutine that lets lifeMu go and touches nothing else, at the end of a
\* failed stop, a failed start or a Stop that found the process gone.
LEMMA LeaveStep ==
  ASSUME IInv, NEW t \in Threads, lifeMu = t,
         NEW c1 \in Call, c1.pc \notin HoldLabels, Labelled(c1),
         call' = [call EXCEPT ![t] = c1], lifeMu' = NoThread, halted' \in BOOLEAN,
         UNCHANGED <<procVars, posVars, queueVars, pauseVars, cfgVars, watch>>
  PROVE  IInv'
<1>0. /\ TypeOK /\ LockInv /\ LabelInv /\ TargetInv /\ SingleProcess
      /\ StopRemembered /\ SignalledNeverAdvances /\ PauseCaptured
      /\ PausedHeld /\ Bounds
  BY DEF IInv
<1>1. /\ call' \in [Threads -> Call]
      /\ call'[t] = c1
      /\ \A u \in Threads : u # t => call'[u] = call[u]
  BY <1>0, CallUpdate
<1>2. TypeOK'
  BY <1>0, <1>1 DEF TypeOK, procVars, posVars, queueVars, pauseVars, cfgVars
<1>3. LockInv'
  BY <1>0, <1>1 DEF LockInv, Holding, Threads
<1>4. LabelInv'
  BY <1>0, <1>1 DEF LabelInv
<1>5. TargetInv'
  BY <1>0, <1>1 DEF TargetInv, HoldLabels, procVars
<1>6. (SingleProcess /\ StopRemembered /\ SignalledNeverAdvances /\ PausedHeld /\ Bounds)'
  BY <1>0 DEF SingleProcess, StopRemembered, SignalledNeverAdvances, PausedHeld, Bounds,
             procVars, posVars, pauseVars, Exited, Position
<1>7. PauseCaptured'
  BY <1>0, <1>1 DEF PauseCaptured, Holding, posVars, Position
<1>. QED BY <1>2, <1>3, <1>4, <1>5, <1>6, <1>7 DEF IInv

\* A step of the goroutine that holds lifeMu and goes on holding it.
LEMMA HoldStep ==
  ASSUME IInv, NEW t \in Threads, lifeMu = t,
         NEW c1 \in Call, c1.pc \in HoldLabels, Labelled(c1),
         c1.pc \in {"mark", "wait"} => c1.target \in Procs /\ (running => cmd = c1.target),
         c1.pc \in {"spawn", "pause"} => ~running,
         c1.op = call[t].op /\ c1.item = call[t].item /\ c1.seek = call[t].seek,
         call' = [call EXCEPT ![t] = c1],
         UNCHANGED <<lifeMu, procVars, posVars, queueVars, pauseVars, cfgVars, watch, halted>>
  PROVE  IInv'
<1>0. /\ TypeOK /\ LockInv /\ LabelInv /\ TargetInv /\ SingleProcess
      /\ StopRemembered /\ SignalledNeverAdvances /\ PauseCaptured
      /\ PausedHeld /\ Bounds
  BY DEF IInv
<1>1. /\ call' \in [Threads -> Call]
      /\ call'[t] = c1
      /\ \A u \in Threads : u # t => call'[u] = call[u]
  BY <1>0, CallUpdate
<1>2. TypeOK'
  BY <1>0, <1>1 DEF TypeOK, procVars, posVars, queueVars, pauseVars, cfgVars
<1>3. LockInv'
  BY <1>0, <1>1 DEF LockInv, Holding
<1>4. LabelInv'
  BY <1>0, <1>1 DEF LabelInv
<1>5. TargetInv'
  BY <1>0, <1>1 DEF TargetInv, procVars
<1>6. (SingleProcess /\ StopRemembered /\ SignalledNeverAdvances /\ PausedHeld /\ Bounds)'
  BY <1>0 DEF SingleProcess, StopRemembered, SignalledNeverAdvances, PausedHeld, Bounds,
             procVars, posVars, pauseVars, Exited, Position
<1>7. PauseCaptured'
  BY <1>0, <1>1 DEF PauseCaptured, Holding, posVars, Position, LockInv
<1>. QED BY <1>2, <1>3, <1>4, <1>5, <1>6, <1>7 DEF IInv

-----------------------------------------------------------------------------
(***************************************************************************)
(* One lemma per action.                                                   *)
(***************************************************************************)

\* Start and StartAt are called: the goroutine has touched no shared state.
LEMMA StepCallStartAt == ASSUME IInv, NEW c \in Callers, CallStartAt(c) PROVE IInv'
<1>1. PICK s \in Sources, pos \in 0..MaxPos :
        Begin(c, At("startAt", "start", Bare(s), pos))
  BY DEF CallStartAt
<1>2. c \in Threads /\ ~Holding(c)
  BY <1>1, IdleOutside DEF Begin, Threads, Holding
<1>3. halted' \in BOOLEAN /\ UNCHANGED <<lifeMu, procVars, posVars, pauseVars, watch, queueVars, cfgVars>>
  BY DEF CallStartAt
<1>. QED BY <1>1, <1>2, <1>3, OutsideCall, AtOutside, BareType
         DEF Begin, queueVars, cfgVars, IInv, TypeOK

\* The two outcomes of startItem's entry.
LEMMA EnterOutcome ==
  ASSUME NEW t \in Threads, NEW item \in Item, NEW pos \in 0..MaxPos,
         EnterStartItem(t, item, pos)
  PROVE  \E c1 \in Call : /\ c1.pc \notin HoldLabels /\ Labelled(c1)
                          /\ call' = [call EXCEPT ![t] = c1]
BY IdleOutside, AtOutside DEF EnterStartItem

\* StartQueue replaces the queue before lifeMu is asked for.
LEMMA StepStartQueue == ASSUME IInv, NEW c \in Callers, StartQueue(c) PROVE IInv'
<1>1. PICK q \in Playlists, l \in BOOLEAN :
        /\ queue' = q /\ queueIdx' = 0 /\ loop' = l
        /\ EnterStartItem(c, q[1], 0)
  BY DEF StartQueue
<1>2. q \in Seq(Item) /\ q[1] \in Item
  OBVIOUS
<1>3. c \in Threads /\ ~Holding(c)
  BY IdleOutside DEF StartQueue, Threads, Holding
<1>4. PICK c1 \in Call : /\ c1.pc \notin HoldLabels /\ Labelled(c1)
                         /\ call' = [call EXCEPT ![c] = c1]
  BY <1>1, <1>2, <1>3, EnterOutcome
<1>5. /\ halted' \in BOOLEAN
      /\ UNCHANGED <<lifeMu, procVars, posVars, pauseVars, watch, cfgVars>>
  BY DEF StartQueue
<1>6. queueIdx' \in Nat /\ loop' \in BOOLEAN
  BY <1>1
<1>. QED BY <1>1, <1>2, <1>3, <1>4, <1>5, <1>6, OutsideCall DEF cfgVars, IInv, TypeOK

\* Stop is called.
LEMMA StepCallStop == ASSUME IInv, NEW c \in Callers, CallStop(c) PROVE IInv'
<1>1. /\ At("lock", "stop", NoItem, 0) \in Call
      /\ At("lock", "stop", NoItem, 0).pc \notin HoldLabels
      /\ Labelled(At("lock", "stop", NoItem, 0))
  BY AtType DEF HoldLabels, Labelled, Labels, Methods
<1>2. c \in Threads /\ ~Holding(c)
  BY IdleOutside DEF CallStop, Begin, Threads, Holding
<1>. QED BY <1>1, <1>2, OutsideCall DEF CallStop, Begin, queueVars, cfgVars, IInv, TypeOK

\* Pause is called.
LEMMA StepCallPause == ASSUME IInv, NEW c \in Callers, CallPause(c) PROVE IInv'
<1>1. /\ At("lock", "pause", NoItem, 0) \in Call
      /\ At("lock", "pause", NoItem, 0).pc \notin HoldLabels
      /\ Labelled(At("lock", "pause", NoItem, 0))
  BY AtType DEF HoldLabels, Labelled, Labels, Methods
<1>2. c \in Threads /\ ~Holding(c)
  BY IdleOutside DEF CallPause, Begin, Threads, Holding
<1>. QED BY <1>1, <1>2, OutsideCall DEF CallPause, Begin, queueVars, cfgVars, IInv, TypeOK

\* Continue captures the resume position and goes on as a StartAt.
LEMMA StepContinue == ASSUME IInv, NEW c \in Callers, Continue(c) PROVE IInv'
<1>1. resumeSource \in Sources /\ resumeSeek \in 0..MaxPos
  BY ItemType DEF Continue, IInv, TypeOK
<1>2. c \in Threads /\ ~Holding(c)
  BY IdleOutside DEF Continue, Begin, Threads, Holding
<1>. QED BY <1>1, <1>2, OutsideCall, AtOutside, BareType
         DEF Continue, Begin, queueVars, cfgVars, IInv, TypeOK

\* Skip captures the current source and goes on as a StartAt.
LEMMA StepSkip == ASSUME IInv, NEW c \in Callers, Skip(c) PROVE IInv'
<1>1. current.path \in Sources /\ 0 \in 0..MaxPos
  BY ItemType DEF Skip, IInv, TypeOK
<1>2. c \in Threads /\ ~Holding(c)
  BY IdleOutside DEF Skip, Begin, Threads, Holding
<1>. QED BY <1>1, <1>2, OutsideCall, AtOutside, BareType
         DEF Skip, Begin, queueVars, cfgVars, IInv, TypeOK

\* Restart is called.
LEMMA StepCallRestart ==
  ASSUME IInv, NEW c \in Callers, NEW s \in Sources, CallRestart(c, s) PROVE IInv'
<1> DEFINE c1 == At("lock", "restart", Bare(s), 0)
<1>a. c1 \in Call /\ c1.pc = "lock" /\ c1.op = "restart" /\ c1.item \in Item
  BY AtType, BareType DEF Labels, Methods
<1>1. c1 \in Call /\ c1.pc \notin HoldLabels /\ Labelled(c1)
  BY <1>a DEF HoldLabels, Labelled
<1>2. c \in Threads /\ ~Holding(c)
  BY IdleOutside DEF CallRestart, Begin, Threads, Holding
<1>. QED BY <1>1, <1>2, OutsideCall DEF CallRestart, Begin, queueVars, cfgVars, IInv, TypeOK

\* Apply restarts the current source.
LEMMA StepApply == ASSUME IInv, NEW c \in Callers, Apply(c) PROVE IInv'
<1>1. current.path \in Sources
  BY ItemType DEF Apply, IInv, TypeOK
<1>. QED BY <1>1, StepCallRestart DEF Apply

\* UpdateConfig writes engine.json.
LEMMA StepUpdateConfig == ASSUME IInv, NEW c \in Callers, UpdateConfig(c) PROVE IInv'
<1>1. PICK new \in Configs :
        /\ Begin(c, [At("config", "config", NoItem, 0) EXCEPT !.conf = new])
        /\ cfgFile' = new
  BY DEF UpdateConfig
<1> DEFINE c1 == [At("config", "config", NoItem, 0) EXCEPT !.conf = new]
<1>2. c1 \in Call /\ c1.pc \notin HoldLabels /\ Labelled(c1)
  <2>1. new \in Config
    OBVIOUS
  <2>2. c1 \in Call /\ c1.pc = "config" /\ c1.op = "config"
    BY <2>1 DEF At, Call, Labels, Methods
  <2> HIDE DEF c1
  <2>. QED BY <2>2 DEF HoldLabels, Labelled
<1>3. c \in Threads /\ ~Holding(c)
  BY <1>1, IdleOutside DEF Begin, Threads, Holding
<1>. QED BY <1>1, <1>2, <1>3, OutsideCall DEF UpdateConfig, Begin, queueVars, IInv, TypeOK

\* UpdateConfig replaces the configuration in memory.
LEMMA StepConfigInMemory == ASSUME IInv, NEW t \in Threads, ConfigInMemory(t) PROVE IInv'
<1>1. ~Holding(t) /\ cfg' \in Config
  BY CallFields DEF ConfigInMemory, Holding, HoldLabels, IInv, TypeOK
<1>. QED BY <1>1, IdleOutside, OutsideCall DEF ConfigInMemory, queueVars, IInv, TypeOK

\* StartAt resets the queue to its single item.
LEMMA StepStartAt == ASSUME IInv, NEW t \in Threads, StartAt(t) PROVE IInv'
<1>1. ~Holding(t) /\ call[t].item \in Item /\ call[t].seek \in 0..MaxPos
  BY CallFields DEF StartAt, Holding, HoldLabels, IInv, TypeOK, LabelInv, Labelled
<1>2. Bare(call[t].item.path) \in Item
  BY <1>1, BareType, ItemType
<1>3. PICK c1 \in Call : /\ c1.pc \notin HoldLabels /\ Labelled(c1)
                         /\ call' = [call EXCEPT ![t] = c1]
  BY <1>1, <1>2, EnterOutcome DEF StartAt
<1>4. <<Bare(call[t].item.path)>> \in Seq(Item)
  BY <1>2
<1>5. queue' \in Seq(Item) /\ queueIdx' \in Nat /\ loop' \in BOOLEAN
  BY <1>4 DEF StartAt
<1>. QED BY <1>1, <1>3, <1>5, OutsideCall DEF StartAt, cfgVars, IInv, TypeOK

\* The timer of a queue advance fires.
LEMMA StepAdvanceFires == ASSUME IInv, NEW t \in Threads, AdvanceFires(t) PROVE IInv'
<1>1. ~Holding(t) /\ call[t].item \in Item /\ 0 \in 0..MaxPos
  BY CallFields DEF AdvanceFires, Holding, HoldLabels, IInv, TypeOK, LabelInv, Labelled
<1>3. PICK c1 \in Call : /\ c1.pc \notin HoldLabels /\ Labelled(c1)
                         /\ call' = [call EXCEPT ![t] = c1]
  BY <1>1, EnterOutcome DEF AdvanceFires
<1>. QED BY <1>1, <1>3, OutsideCall DEF AdvanceFires, queueVars, cfgVars, IInv, TypeOK

\* The timer of a reconnect fires.
LEMMA StepReconnectFires == ASSUME IInv, NEW t \in Threads, ReconnectFires(t) PROVE IInv'
<1>1. /\ ~Holding(t) /\ call[t].item \in Item /\ call[t] \in Call
      /\ call[t].op = "reconnect"
  BY DEF ReconnectFires, Holding, HoldLabels, IInv, TypeOK, LabelInv, Labelled
<1> DEFINE c1 == [call[t] EXCEPT !.pc = "startAt"]
<1>2. c1 \in Call /\ c1.pc \notin HoldLabels /\ Labelled(c1)
  <2>1. /\ c1 \in Call /\ c1.pc = "startAt" /\ c1.op = "reconnect"
        /\ c1.item \in Item
    BY <1>1, GotoType DEF Labels
  <2> HIDE DEF c1
  <2>. QED BY <2>1 DEF HoldLabels, Labelled
<1>. QED BY <1>1, <1>2, OutsideCall DEF ReconnectFires, Goto, queueVars, cfgVars, IInv, TypeOK

\* startItem takes lifeMu: it goes to the spawn only when nothing runs.
LEMMA StepAcquire == ASSUME IInv, NEW t \in Threads, Acquire(t) PROVE IInv'
<1>1. /\ call[t] \in Call /\ Labelled(call[t]) /\ cfg \in Config
      /\ call[t].pc = "acquire"
  BY DEF Acquire, IInv, TypeOK, LabelInv
<1> DEFINE pc == IF running THEN "stop" ELSE "spawn"
           c1 == [call[t] EXCEPT !.pc = pc, !.conf = cfg]
<1>a. pc \in Labels
  BY DEF Labels
<1>b. /\ c1 \in Call /\ c1.pc = pc /\ c1.op = call[t].op /\ c1.item = call[t].item
  <2> HIDE DEF pc
  <2>. QED BY <1>1, <1>a DEF Call
<1>2. /\ c1 \in Call /\ c1.pc = pc /\ c1.op = "start" /\ c1.item \in Item
  BY <1>1, <1>b DEF Labelled
<1>3. c1.pc \in {"stop", "spawn"} /\ Labelled(c1)
  BY <1>2 DEF Labelled, HoldLabels
<1>4. c1.pc = "spawn" => ~running
  BY <1>2
<1>. QED BY <1>2, <1>3, <1>4, EnterStep DEF Acquire, Lock

\* Stop and Restart take lifeMu.
LEMMA StepAcquireStop == ASSUME IInv, NEW t \in Threads, AcquireStop(t) PROVE IInv'
<1>1. call[t] \in Call /\ Labelled(call[t])
  BY DEF IInv, TypeOK, LabelInv
<1> DEFINE c1 == [call[t] EXCEPT !.pc = "stop"]
<1>2. c1 \in Call /\ c1.pc = "stop" /\ c1.op \in {"stop", "restart"} /\ Labelled(c1)
  BY <1>1, GotoType DEF AcquireStop, Labels, Labelled, HoldLabels
<1>. QED BY <1>2, EnterStep DEF AcquireStop, Lock, Goto

\* Pause takes lifeMu and captures an item and a position that nothing can
\* move before it is done.
LEMMA StepAcquirePause == ASSUME IInv, NEW t \in Threads, AcquirePause(t) PROVE IInv'
<1>1. /\ call[t] \in Call /\ call[t].op = "pause" /\ call[t].pc = "lock"
      /\ current \in Item \cup {NoItem} /\ Position \in 0..MaxPos
  BY DEF AcquirePause, IInv, TypeOK, Bounds, Position
<1>2. CASE running
  <2> DEFINE c1 == [call[t] EXCEPT !.pc = "stop", !.item = current, !.seek = Position]
  <2>1. /\ c1 \in Call /\ c1.pc = "stop" /\ c1.op = "pause"
        /\ c1.item = current /\ c1.seek = Position
    <3>1. "stop" \in Labels
      BY DEF Labels
    <3>. QED BY <1>1, <3>1 DEF Call
  <2>2. Labelled(c1)
    BY <2>1 DEF Labelled, HoldLabels
  <2>. QED BY <1>2, <2>1, <2>2, EnterStep DEF AcquirePause
<1>3. CASE ~running
  <2>1. ~Holding(t)
    BY <1>1 DEF Holding, HoldLabels
  <2>. QED BY <1>3, <2>1, IdleOutside, OutsideCall DEF AcquirePause, queueVars, cfgVars, IInv, TypeOK
<1>. QED BY <1>2, <1>3

\* A successful stopLocked: the continuation of each method.
LEMMA StoppedStep ==
  ASSUME IInv, NEW t \in Threads, lifeMu = t, ~running, Stopped(t),
         UNCHANGED <<procVars, posVars, queueVars, pauseVars, cfgVars, watch>>
  PROVE  IInv'
<1>1. /\ call[t] \in Call /\ Labelled(call[t]) /\ Holding(t)
  BY DEF IInv, TypeOK, LabelInv, LockInv
<1>0. halted \in BOOLEAN
  BY DEF IInv, TypeOK
<1>2. ASSUME NEW pc \in {"spawn", "pause", "startAt"}
      PROVE  /\ [call[t] EXCEPT !.pc = pc] \in Call
             /\ [call[t] EXCEPT !.pc = pc].pc = pc
             /\ [call[t] EXCEPT !.pc = pc].op = call[t].op
             /\ [call[t] EXCEPT !.pc = pc].item = call[t].item
             /\ [call[t] EXCEPT !.pc = pc].seek = call[t].seek
  <2>1. pc \in Labels
    BY DEF Labels
  <2>. QED BY <1>1, <2>1 DEF Call
<1>3. CASE call[t].op = "start" /\ Goto(t, "spawn") /\ UNCHANGED <<lifeMu, halted>>
  <2> DEFINE c1 == [call[t] EXCEPT !.pc = "spawn"]
  <2>1. c1.pc \in HoldLabels /\ Labelled(c1)
    BY <1>1, <1>2, <1>3 DEF HoldLabels, Labelled, Holding
  <2>. QED BY <1>2, <1>3, <2>1, HoldStep DEF Goto
<1>4. CASE call[t].op = "pause" /\ Goto(t, "pause") /\ UNCHANGED <<lifeMu, halted>>
  <2> DEFINE c1 == [call[t] EXCEPT !.pc = "pause"]
  <2>1. c1.pc \in HoldLabels /\ Labelled(c1)
    BY <1>1, <1>2, <1>4 DEF HoldLabels, Labelled, Holding
  <2>. QED BY <1>2, <1>4, <2>1, HoldStep DEF Goto
<1>5. CASE /\ call[t].op = "restart" /\ Goto(t, "startAt") /\ lifeMu' = NoThread
           /\ UNCHANGED halted
  <2> DEFINE c1 == [call[t] EXCEPT !.pc = "startAt"]
  <2>1. c1.pc \notin HoldLabels /\ Labelled(c1)
    BY <1>1, <1>2, <1>5 DEF HoldLabels, Labelled, Holding
  <2>. QED BY <1>0, <1>1, <1>2, <1>5, <2>1, LeaveStep DEF Goto
<1>6. CASE call[t].op = "stop" /\ Leave(t) /\ halted' = LastCaller(t)
  <2>1. halted' \in BOOLEAN
    BY <1>6 DEF LastCaller
  <2>. QED BY <1>6, <2>1, IdleOutside, LeaveStep DEF Leave
<1>. QED BY <1>3, <1>4, <1>5, <1>6 DEF Stopped

\* stopLocked reads the process it is going to wait for.
LEMMA StepStopRead == ASSUME IInv, NEW t \in Threads, StopRead(t) PROVE IInv'
<1>1. lifeMu = t /\ call[t].pc = "stop" /\ call[t] \in Call /\ Labelled(call[t])
  BY DEF StopRead, IInv, LockInv, Holding, HoldLabels, TypeOK, LabelInv
<1>2. CASE running
  <2> DEFINE c1 == [call[t] EXCEPT !.pc = "mark", !.target = cmd]
  <2>1. cmd \in Procs /\ "mark" \in Labels
    BY <1>2 DEF IInv, SingleProcess, Labels
  <2>2. /\ c1 \in Call /\ c1.pc = "mark" /\ c1.target = cmd
        /\ c1.op = call[t].op /\ c1.item = call[t].item /\ c1.seek = call[t].seek
    BY <1>1, <2>1 DEF Call
  <2>3. c1.pc \in HoldLabels /\ Labelled(c1)
    BY <1>1, <2>2 DEF HoldLabels, Labelled
  <2>4. call' = [call EXCEPT ![t] = c1] /\ UNCHANGED <<lifeMu, halted>>
    BY <1>2 DEF StopRead
  <2>. QED BY <1>1, <2>1, <2>2, <2>3, <2>4, HoldStep DEF StopRead
<1>3. CASE ~running
  BY <1>1, <1>3, StoppedStep DEF StopRead
<1>. QED BY <1>2, <1>3

\* stopLocked saw the exited channel closed: nothing runs any more.
LEMMA StepStopWaited == ASSUME IInv, NEW t \in Threads, StopWaited(t) PROVE IInv'
<1>1. lifeMu = t
  BY DEF StopWaited, IInv, LockInv, Holding, HoldLabels
<1>2. ~running
  BY DEF StopWaited, IInv, TargetInv, SingleProcess
<1>. QED BY <1>1, <1>2, StoppedStep DEF StopWaited

\* stopLocked gives up on a process that does not die.
LEMMA StepStopGivesUp == ASSUME IInv, NEW t \in Threads, StopGivesUp(t) PROVE IInv'
<1>1. lifeMu = t /\ halted \in BOOLEAN
  BY DEF StopGivesUp, IInv, LockInv, Holding, HoldLabels, TypeOK
<1>. QED BY <1>1, IdleOutside, LeaveStep DEF StopGivesUp, Leave

\* startItem fails under lifeMu.
LEMMA StepSpawnFails == ASSUME IInv, NEW t \in Threads, SpawnFails(t) PROVE IInv'
<1>1. lifeMu = t /\ halted \in BOOLEAN
  BY DEF SpawnFails, IInv, LockInv, Holding, HoldLabels, TypeOK
<1>. QED BY <1>1, IdleOutside, LeaveStep DEF SpawnFails, Leave

\* stopLocked marks the stop intentional and signals the process: every
\* signalled process is remembered until it is reaped.
LEMMA StepStopMark == ASSUME IInv, NEW t \in Threads, StopMark(t) PROVE IInv'
<1>0. /\ TypeOK /\ LockInv /\ LabelInv /\ TargetInv /\ SingleProcess
      /\ StopRemembered /\ SignalledNeverAdvances /\ PauseCaptured
      /\ PausedHeld /\ Bounds
  BY DEF IInv
<1> DEFINE c1 == [call[t] EXCEPT !.pc = "wait"]
           p == call[t].target
           w1 == [watch[p] EXCEPT !.killed = TRUE]
<1>1. /\ call[t] \in Call /\ Labelled(call[t]) /\ call[t].pc = "mark"
      /\ lifeMu = t /\ p \in Procs /\ (running => cmd = p)
  BY <1>0 DEF StopMark, TypeOK, LabelInv, LockInv, Holding, HoldLabels, TargetInv
<1>2. /\ c1 \in Call /\ c1.pc = "wait" /\ c1.op = call[t].op /\ c1.item = call[t].item
      /\ c1.seek = call[t].seek /\ c1.target = p
  BY <1>1, GotoType DEF Labels
<1>3. Labelled(c1)
  BY <1>1, <1>2 DEF Labelled, HoldLabels
<1>4. /\ call' \in [Threads -> Call]
      /\ call'[t] = c1
      /\ \A u \in Threads : u # t => call'[u] = call[u]
  BY <1>0, <1>2, CallUpdate DEF StopMark, Goto
<1>a. watch[p] \in Watch
  BY <1>0, <1>1 DEF TypeOK
<1>5. /\ w1 \in Watch
      /\ w1.stage = watch[p].stage /\ w1.next = watch[p].next /\ w1.item = watch[p].item
  <2> HIDE DEF p
  <2>. QED BY <1>a DEF Watch
<1>6. /\ watch' \in [Procs -> Watch]
      /\ \A q \in Procs : \/ watch'[q] = watch[q]
                          \/ q = p /\ watch[q].stage = "alive" /\ watch'[q] = w1
  BY <1>0, <1>1, <1>5 DEF StopMark, TypeOK
<1>7. TypeOK'
  BY <1>0, <1>4, <1>6 DEF StopMark, TypeOK, posVars, queueVars, pauseVars, cfgVars
<1>8. LockInv' /\ LabelInv'
  BY <1>0, <1>1, <1>2, <1>3, <1>4 DEF StopMark, LockInv, LabelInv, Holding, HoldLabels
<1>9. TargetInv'
  BY <1>0, <1>1, <1>2, <1>4 DEF StopMark, TargetInv
<1>10. (SingleProcess /\ StopRemembered)'
  BY <1>0, <1>5, <1>6 DEF StopMark, SingleProcess, StopRemembered, Exited, TypeOK
<1>11. SignalledNeverAdvances' /\ PausedHeld' /\ Bounds'
  BY <1>0, <1>5, <1>6 DEF StopMark, SignalledNeverAdvances, PausedHeld, Bounds, posVars,
                         pauseVars, Position
<1>12. PauseCaptured'
  BY <1>0, <1>1, <1>2, <1>4 DEF StopMark, PauseCaptured, Holding, HoldLabels, posVars, Position
<1>. QED BY <1>7, <1>8, <1>9, <1>10, <1>11, <1>12 DEF IInv


\* Pause publishes what it captured, with nothing running.
LEMMA StepPauseDone == ASSUME IInv, NEW t \in Threads, PauseDone(t) PROVE IInv'
<1>0. /\ TypeOK /\ LockInv /\ LabelInv /\ TargetInv /\ SingleProcess
      /\ StopRemembered /\ SignalledNeverAdvances /\ PauseCaptured
      /\ PausedHeld /\ Bounds
  BY DEF IInv
<1>1. /\ call[t] \in Call /\ call[t].pc = "pause" /\ call[t].op = "pause"
      /\ lifeMu = t /\ ~running /\ call[t].item = current
      /\ lastSeek <= call[t].seek /\ call[t].seek <= Position
      /\ call[t].seek \in 0..MaxPos
  BY <1>0, CallFields DEF PauseDone, TypeOK, LabelInv, Labelled, LockInv, Holding, HoldLabels,
                          TargetInv, PauseCaptured
<1>2. /\ call' \in [Threads -> Call]
      /\ call'[t] = Idle
      /\ \A u \in Threads : u # t => call'[u] = call[u]
  BY <1>0, IdleType, CallUpdate DEF PauseDone, Leave
<1>3. resumeSource' = current.path /\ resumeSource' \in Sources \cup {NoSource}
  BY <1>0, <1>1, ItemType DEF PauseDone, TypeOK
<1>4. resumeSeek' = call[t].seek /\ paused' = TRUE /\ halted' \in BOOLEAN
  BY DEF PauseDone, LastCaller
<1>5. TypeOK'
  BY <1>0, <1>1, <1>2, <1>3, <1>4 DEF PauseDone, Leave, TypeOK, posVars, queueVars, procVars,
                                      cfgVars
<1>6. LockInv' /\ LabelInv'
  BY <1>0, <1>1, <1>2, IdleOutside DEF PauseDone, Leave, LockInv, LabelInv, Holding, Threads
<1>7. (TargetInv /\ PauseCaptured)'
  BY <1>0, <1>1, <1>2, IdleOutside DEF PauseDone, TargetInv, PauseCaptured, procVars, posVars,
                                       Holding, HoldLabels, Position
<1>8. (SingleProcess /\ StopRemembered /\ SignalledNeverAdvances)'
  BY <1>0 DEF PauseDone, SingleProcess, StopRemembered, SignalledNeverAdvances, procVars, Exited
<1>9. (PausedHeld /\ Bounds)'
  BY <1>0, <1>1, <1>3, <1>4 DEF PauseDone, PausedHeld, Bounds, procVars, posVars, Position
<1>. QED BY <1>5, <1>6, <1>7, <1>8, <1>9 DEF IInv

\* startItem publishes a new process, and there was none before.
LEMMA StepSpawn == ASSUME IInv, NEW t \in Threads, Spawn(t) PROVE IInv'
<1>0. /\ TypeOK /\ LockInv /\ LabelInv /\ TargetInv /\ SingleProcess
      /\ StopRemembered /\ SignalledNeverAdvances /\ PauseCaptured
      /\ PausedHeld /\ Bounds
  BY DEF IInv
<1> DEFINE w1 == [Free EXCEPT !.stage = "alive"]
<1>1. /\ call[t] \in Call /\ call[t].pc = "spawn" /\ lifeMu = t /\ ~running
      /\ call[t].item \in Item /\ call[t].seek \in 0..MaxPos
  BY <1>0, CallFields DEF Spawn, TypeOK, LabelInv, Labelled, LockInv, Holding, HoldLabels,
                          TargetInv
<1>2. /\ call' \in [Threads -> Call]
      /\ call'[t] = Idle
      /\ \A u \in Threads : u # t => call'[u] = call[u]
  BY <1>0, IdleType, CallUpdate DEF Spawn, Leave
<1>3. PICK p \in Procs : /\ watch[p].stage = "free"
                         /\ watch' = [watch EXCEPT ![p] = w1]
                         /\ cmd' = p
  BY DEF Spawn
<1>4. w1 \in Watch /\ w1.stage = "alive" /\ w1.killed = FALSE
  BY DEF Free, Watch, Stages
<1>5. /\ watch' \in [Procs -> Watch]
      /\ watch'[p] = w1
      /\ \A q \in Procs : q # p => watch'[q] = watch[q]
  BY <1>0, <1>3, <1>4 DEF TypeOK
<1>a. /\ lifeMu' = NoThread /\ cmd' \in Procs /\ running' = TRUE /\ paused' = FALSE
      /\ intentionalStop' = FALSE /\ current' \in Item /\ lastSeek' \in 0..MaxPos
      /\ elapsedSec' = 0 /\ resumeSource' = NoSource /\ resumeSeek' = 0
      /\ UNCHANGED <<queueVars, cfgVars, halted>>
  BY <1>1, <1>3 DEF Spawn, Leave
<1>b. /\ queue' = queue /\ queueIdx' = queueIdx /\ loop' = loop
      /\ cfg' = cfg /\ cfgFile' = cfgFile /\ halted' = halted
  BY <1>a DEF queueVars, cfgVars
<1>c. 0 \in 0..MaxPos
  OBVIOUS
<1>6. TypeOK'
  BY <1>0, <1>2, <1>5, <1>a, <1>b, <1>c DEF TypeOK
<1>7. LockInv' /\ LabelInv'
  BY <1>0, <1>1, <1>2, IdleOutside DEF Spawn, Leave, LockInv, LabelInv, Holding, Threads
<1>8. \A u \in Threads : ~Holding(u)'
  BY <1>7, EngineAssumption DEF Spawn, Leave, LockInv, Threads
<1>9. (TargetInv /\ PauseCaptured)'
  BY <1>8 DEF TargetInv, PauseCaptured, Holding, HoldLabels
<1>10. \A q \in Procs : Exited(q)
  BY <1>0, <1>1 DEF SingleProcess, Exited
<1>11. (SingleProcess /\ StopRemembered)'
  BY <1>3, <1>4, <1>5, <1>10 DEF Spawn, SingleProcess, StopRemembered, Exited
<1>12. (SignalledNeverAdvances /\ PausedHeld /\ Bounds)'
  BY <1>0, <1>1, <1>4, <1>5 DEF Spawn, SignalledNeverAdvances, PausedHeld, Bounds, Position,
                               TypeOK
<1>. QED BY <1>6, <1>7, <1>9, <1>11, <1>12 DEF IInv

\* A progress line moves the position forward, never back.
LEMMA StepProgress == ASSUME IInv, Progress PROVE IInv'
<1>0. /\ TypeOK /\ LockInv /\ LabelInv /\ TargetInv /\ SingleProcess
      /\ StopRemembered /\ SignalledNeverAdvances /\ PauseCaptured
      /\ PausedHeld /\ Bounds
  BY DEF IInv
<1>1. /\ lastSeek' = lastSeek /\ elapsedSec' = elapsedSec + 1 /\ elapsedSec' \in 0..MaxPos
      /\ Position' <= MaxPos /\ Position <= Position'
  BY <1>0 DEF Progress, TypeOK, Position
<1>2. TypeOK'
  BY <1>0, <1>1 DEF Progress, TypeOK, procVars, queueVars, pauseVars, cfgVars
<1>3. (LockInv /\ LabelInv /\ TargetInv /\ SingleProcess /\ StopRemembered
        /\ SignalledNeverAdvances)'
  BY <1>0 DEF Progress, LockInv, LabelInv, TargetInv, SingleProcess, StopRemembered,
             SignalledNeverAdvances, Holding, Exited, procVars
<1>4. (PausedHeld /\ Bounds)'
  BY <1>0, <1>1 DEF Progress, PausedHeld, Bounds, procVars, pauseVars
<1>5. PauseCaptured'
  <2> SUFFICES ASSUME NEW u \in Threads, Holding(u)', call'[u].op = "pause"
               PROVE  /\ call'[u].item = current'
                      /\ lastSeek' <= call'[u].seek /\ call'[u].seek <= Position'
    BY DEF PauseCaptured
  <2>1. /\ call' = call /\ current' = current
        /\ call[u].seek \in 0..MaxPos
    BY <1>0, CallFields DEF Progress, TypeOK
  <2>2. /\ call[u].item = current
        /\ lastSeek <= call[u].seek /\ call[u].seek <= Position
    BY <1>0, <2>1 DEF PauseCaptured, Holding
  <2>. QED BY <1>0, <1>1, <2>1, <2>2 DEF TypeOK, Position
<1>. QED BY <1>2, <1>3, <1>4, <1>5 DEF IInv

\* A process ends and waits for its watcher.
LEMMA StepExit == ASSUME IInv, NEW p \in Procs, Exit(p) PROVE IInv'
<1>0. /\ TypeOK /\ LockInv /\ LabelInv /\ TargetInv /\ SingleProcess
      /\ StopRemembered /\ SignalledNeverAdvances /\ PauseCaptured
      /\ PausedHeld /\ Bounds
  BY DEF IInv
<1>1. PICK code \in {0, 1} :
        watch' = [watch EXCEPT ![p] = [@ EXCEPT !.stage = "dead", !.code = code]]
  BY DEF Exit
<1> DEFINE w1 == [watch[p] EXCEPT !.stage = "dead", !.code = code]
<1>2. watch[p] \in Watch /\ watch[p].stage = "alive"
  BY <1>0 DEF TypeOK, Exit
<1>3. w1 \in Watch /\ w1.stage = "dead" /\ w1.killed = watch[p].killed
  BY <1>2 DEF Watch, Stages
<1>4. /\ watch' \in [Procs -> Watch]
      /\ watch'[p] = w1
      /\ \A q \in Procs : q # p => watch'[q] = watch[q]
  BY <1>0, <1>1, <1>3 DEF TypeOK
<1>5. TypeOK'
  BY <1>0, <1>4 DEF Exit, TypeOK, procVars, posVars, queueVars, pauseVars, cfgVars
<1>6. (LockInv /\ LabelInv /\ TargetInv /\ PauseCaptured)'
  BY <1>0 DEF Exit, LockInv, LabelInv, TargetInv, PauseCaptured, Holding, procVars, posVars,
             Position
<1>7. (SingleProcess /\ StopRemembered)'
  BY <1>0, <1>2, <1>3, <1>4 DEF Exit, SingleProcess, StopRemembered, Exited, procVars, TypeOK
<1>8. (SignalledNeverAdvances /\ PausedHeld /\ Bounds)'
  BY <1>0, <1>3, <1>4 DEF Exit, SignalledNeverAdvances, PausedHeld, Bounds, procVars, posVars,
                         pauseVars, Position
<1>. QED BY <1>5, <1>6, <1>7, <1>8 DEF IInv

\* The watcher finalizes the status: only a process nobody signalled goes on
\* to advance the queue.
LEMMA StepReap == ASSUME IInv, NEW p \in Procs, Reap(p) PROVE IInv'
<1>0. /\ TypeOK /\ LockInv /\ LabelInv /\ TargetInv /\ SingleProcess
      /\ StopRemembered /\ SignalledNeverAdvances /\ PauseCaptured
      /\ PausedHeld /\ Bounds
  BY DEF IInv
<1>1. /\ watch[p] \in Watch /\ watch[p].stage = "dead" /\ cmd = p /\ p # NoProc
  BY <1>0 DEF Reap, TypeOK, SingleProcess, Exited
<1>2. running' = FALSE /\ cmd' = NoProc /\ UNCHANGED <<lifeMu, intentionalStop, posVars,
        queueVars, pauseVars, cfgVars, call, halted>>
  BY <1>1 DEF Reap
<1>3. PICK w1 \in Watch :
        /\ watch' = [watch EXCEPT ![p] = w1]
        /\ w1.stage \in {"failed", "clean", "free"}
        /\ w1.stage = "clean" => ~w1.killed
  <2> DEFINE failed == [watch[p] EXCEPT !.stage = "failed"]
             clean  == [watch[p] EXCEPT !.stage = "clean"]
  <2>1. /\ failed \in Watch /\ failed.stage = "failed"
        /\ clean \in Watch /\ clean.stage = "clean" /\ clean.killed = watch[p].killed
    BY <1>1 DEF Watch, Stages
  <2>2. Free \in Watch /\ Free.stage = "free"
    BY DEF Free, Watch, Stages
  <2>3. ~intentionalStop => ~watch[p].killed
    BY <1>0, <1>1 DEF StopRemembered, Exited
  <2>4. CASE watch[p].code = 1
    <3>1. watch' = [watch EXCEPT ![p] = failed]
      BY <1>1, <2>4 DEF Reap
    <3>. QED BY <2>1, <3>1
  <2>5. CASE watch[p].code # 1 /\ watch[p].code = 0 /\ ~intentionalStop
    <3>1. watch' = [watch EXCEPT ![p] = clean]
      BY <1>1, <2>5 DEF Reap
    <3>. QED BY <2>1, <2>3, <2>5, <3>1
  <2>6. CASE watch[p].code # 1 /\ ~(watch[p].code = 0 /\ ~intentionalStop)
    <3>1. watch' = [watch EXCEPT ![p] = Free]
      BY <1>1, <2>6 DEF Reap
    <3>. QED BY <2>2, <3>1
  <2>. QED BY <2>4, <2>5, <2>6
<1>4. /\ watch' \in [Procs -> Watch]
      /\ watch'[p] = w1
      /\ \A q \in Procs : q # p => watch'[q] = watch[q]
  BY <1>0, <1>3 DEF TypeOK
<1>5. TypeOK'
  BY <1>0, <1>2, <1>4 DEF TypeOK, posVars, queueVars, pauseVars, cfgVars
<1>6. (LockInv /\ LabelInv /\ TargetInv /\ PauseCaptured)'
  BY <1>0, <1>2 DEF LockInv, LabelInv, TargetInv, PauseCaptured, Holding, posVars, Position
<1>7. (SingleProcess /\ StopRemembered)'
  BY <1>0, <1>1, <1>2, <1>3, <1>4, EngineAssumption DEF SingleProcess, StopRemembered, Exited
<1>8. (SignalledNeverAdvances /\ PausedHeld /\ Bounds)'
  BY <1>0, <1>2, <1>3, <1>4 DEF SignalledNeverAdvances, PausedHeld, Bounds, posVars, pauseVars,
                               Position
<1>. QED BY <1>5, <1>6, <1>7, <1>8 DEF IInv

\* A watcher that is done with its sections, or goes from "clean" to "commit".
LEMMA WatcherStep ==
  ASSUME IInv, NEW p \in Procs, Exited(p),
         NEW w1 \in Watch, w1.stage \in {"free", "commit"},
         w1.stage = "commit" => ~w1.killed /\ (w1.next >= 0 => w1.item \in Item),
         watch' = [watch EXCEPT ![p] = w1]
  PROVE  /\ watch' \in [Procs -> Watch]
         /\ \A q \in Procs :
              /\ IF Exited(q) THEN Exited(q)' ELSE watch'[q] = watch[q]
              /\ watch'[q].stage \in {"clean", "commit"} => ~watch'[q].killed
              /\ watch'[q].stage = "commit" /\ watch'[q].next >= 0 => watch'[q].item \in Item
<1>1. /\ watch' \in [Procs -> Watch]
      /\ watch'[p] = w1
      /\ \A q \in Procs : q # p => watch'[q] = watch[q]
  BY DEF IInv, TypeOK
<1>. QED BY <1>1 DEF IInv, SignalledNeverAdvances, Bounds, Exited

\* A free slot has the type of a watcher.
LEMMA FreeWatch == Free \in Watch /\ Free.stage = "free"
  BY DEF Free, Watch, Stages

\* The watcher chooses the next item of the queue.
LEMMA StepAdvanceRead == ASSUME IInv, NEW p \in Procs, AdvanceRead(p) PROVE IInv'
<1> DEFINE next == NextIdx(queue, queueIdx, loop)
           item == IF next >= 0 THEN queue[next + 1] ELSE NoItem
           commit == [watch[p] EXCEPT !.stage = "commit", !.next = next, !.item = item]
<1>1. /\ watch[p] \in Watch /\ watch[p].stage = "clean" /\ ~watch[p].killed /\ Exited(p)
      /\ queue \in Seq(Item) /\ queueIdx \in Nat /\ loop \in BOOLEAN
  BY DEF AdvanceRead, IInv, TypeOK, SignalledNeverAdvances, Exited
<1>2. PICK w1 \in Watch :
        /\ watch' = [watch EXCEPT ![p] = w1]
        /\ w1.stage \in {"free", "commit"}
        /\ w1.stage = "commit" => ~w1.killed /\ (w1.next >= 0 => w1.item \in Item)
  <2>1. CASE Len(queue) > 1
    <3>1. queue # <<>>
      BY <2>1
    <3>2. next \in Nat \cup {-1} /\ (next >= 0 => item \in Item) /\ item \in Item \cup {NoItem}
      BY <1>1, <3>1, NextIdxType
    <3>3. /\ commit \in Watch /\ commit.stage = "commit" /\ commit.killed = watch[p].killed
          /\ commit.next = next /\ commit.item = item
      <4> HIDE DEF next, item
      <4>. QED BY <1>1, <3>2 DEF Watch, Stages
    <3>4. watch' = [watch EXCEPT ![p] = commit]
      BY <2>1 DEF AdvanceRead
    <3> HIDE DEF commit, next, item
    <3>. QED BY <1>1, <3>2, <3>3, <3>4
  <2>2. CASE ~(Len(queue) > 1)
    BY <2>2, FreeWatch DEF AdvanceRead
  <2>. QED BY <2>1, <2>2
<1>3. /\ UNCHANGED <<lifeMu, procVars, posVars, pauseVars, queueVars, cfgVars, call, halted>>
  BY DEF AdvanceRead
<1>4. call' \in [Threads -> Call] /\ \A u \in Threads : call'[u] = call[u]
  BY <1>3 DEF IInv, TypeOK
<1>. QED BY <1>1, <1>2, <1>3, <1>4, WatcherStep, OutsideStep DEF queueVars, cfgVars, IInv, TypeOK

\* The watcher stores the index and arms the timer, or ends the queue.
LEMMA StepAdvanceCommit == ASSUME IInv, NEW p \in Procs, AdvanceCommit(p) PROVE IInv'
<1>1. /\ watch[p] \in Watch /\ watch[p].stage = "commit" /\ Exited(p)
      /\ watch[p].next \in Nat \cup {-1}
      /\ watch[p].next >= 0 => watch[p].item \in Item
  BY WatchType DEF AdvanceCommit, IInv, TypeOK, Bounds, Exited
<1>2. /\ watch' \in [Procs -> Watch]
      /\ \A q \in Procs :
           /\ IF Exited(q) THEN Exited(q)' ELSE watch'[q] = watch[q]
           /\ watch'[q].stage \in {"clean", "commit"} => ~watch'[q].killed
           /\ watch'[q].stage = "commit" /\ watch'[q].next >= 0 => watch'[q].item \in Item
  BY <1>1, FreeWatch, WatcherStep DEF AdvanceCommit
<1>3. UNCHANGED <<lifeMu, procVars, posVars, loop, pauseVars, cfgVars, halted>>
  BY DEF AdvanceCommit
<1>4. CASE watch[p].next >= 0
  <2>1. PICK t \in Timers : Begin(t, At("armed", "advance", watch[p].item, 0))
    BY <1>4 DEF AdvanceCommit
  <2> DEFINE c1 == At("armed", "advance", watch[p].item, 0)
  <2>2. c1 \in Call /\ c1.pc \notin HoldLabels /\ Labelled(c1)
    BY <1>1, <1>4, AtOutside
  <2>3. t \in Threads /\ ~Holding(t)
    BY <2>1, IdleOutside DEF Begin, Threads, Holding
  <2>4. /\ call' \in [Threads -> Call]
        /\ call'[t] = c1
        /\ \A u \in Threads : u # t => call'[u] = call[u]
    <3> HIDE DEF c1
    <3>1. call' = [call EXCEPT ![t] = c1]
      BY <2>1 DEF Begin, c1
    <3>. QED BY <2>2, <2>3, <3>1, CallUpdate DEF IInv
  <2>5. \A u \in Threads : \/ call'[u] = call[u]
                           \/ /\ ~Holding(u)
                              /\ call'[u].pc \notin HoldLabels /\ Labelled(call'[u])
    BY <2>2, <2>3, <2>4
  <2>6. queue' = queue /\ queueIdx' \in Nat
    BY <1>1, <1>4 DEF AdvanceCommit
  <2>. QED BY <1>2, <1>3, <2>4, <2>5, <2>6, OutsideStep DEF cfgVars, IInv, TypeOK
<1>5. CASE ~(watch[p].next >= 0)
  <2>1. queue' = <<>> /\ queueIdx' = queueIdx /\ call' = call
    BY <1>5 DEF AdvanceCommit
  <2>2. call' \in [Threads -> Call] /\ \A u \in Threads : call'[u] = call[u]
    BY <2>1 DEF IInv, TypeOK
  <2>3. queue' \in Seq(Item)
    BY <2>1
  <2>. QED BY <1>2, <1>3, <2>1, <2>2, <2>3, OutsideStep DEF cfgVars, IInv, TypeOK
<1>. QED BY <1>4, <1>5

\* The watcher decides on a reconnect.
LEMMA StepReconnect == ASSUME IInv, NEW p \in Procs, Reconnect(p) PROVE IInv'
<1>1. /\ watch[p] \in Watch /\ watch[p].stage = "failed" /\ Exited(p)
  BY DEF Reconnect, IInv, TypeOK, Exited
<1>2. /\ watch' \in [Procs -> Watch]
      /\ \A q \in Procs :
           /\ IF Exited(q) THEN Exited(q)' ELSE watch'[q] = watch[q]
           /\ watch'[q].stage \in {"clean", "commit"} => ~watch'[q].killed
           /\ watch'[q].stage = "commit" /\ watch'[q].next >= 0 => watch'[q].item \in Item
  BY <1>1, FreeWatch, WatcherStep DEF Reconnect
<1>3. UNCHANGED <<lifeMu, procVars, posVars, queueVars, pauseVars, cfgVars, halted>>
  BY DEF Reconnect
<1>4. CASE cfg.reconnect /\ current # NoItem /\ ~intentionalStop
  <2> DEFINE c1 == At("armed", "reconnect", Bare(current.path), lastSeek)
  <2>1. PICK t \in Timers : Begin(t, c1)
    BY <1>4 DEF Reconnect
  <2>2. c1 \in Call /\ c1.pc \notin HoldLabels /\ Labelled(c1)
    <3>1. Bare(current.path) \in Item /\ lastSeek \in 0..MaxPos
      BY <1>4, BareType, ItemType DEF IInv, TypeOK
    <3>. QED BY <3>1, AtOutside
  <2>3. t \in Threads /\ ~Holding(t)
    BY <2>1, IdleOutside DEF Begin, Threads, Holding
  <2>4. /\ call' \in [Threads -> Call]
        /\ call'[t] = c1
        /\ \A u \in Threads : u # t => call'[u] = call[u]
    <3> HIDE DEF c1
    <3>1. call' = [call EXCEPT ![t] = c1]
      BY <2>1 DEF Begin
    <3>. QED BY <2>2, <2>3, <3>1, CallUpdate DEF IInv
  <2>5. \A u \in Threads : \/ call'[u] = call[u]
                           \/ /\ ~Holding(u)
                              /\ call'[u].pc \notin HoldLabels /\ Labelled(call'[u])
    BY <2>2, <2>3, <2>4
  <2>. QED BY <1>2, <1>3, <2>4, <2>5, OutsideStep DEF queueVars, cfgVars, IInv, TypeOK
<1>5. CASE ~(cfg.reconnect /\ current # NoItem /\ ~intentionalStop)
  <2>1. call' = call
    BY <1>5 DEF Reconnect
  <2>2. call' \in [Threads -> Call] /\ \A u \in Threads : call'[u] = call[u]
    BY <2>1 DEF IInv, TypeOK
  <2>. QED BY <1>2, <1>3, <2>2, OutsideStep DEF queueVars, cfgVars, IInv, TypeOK
<1>. QED BY <1>4, <1>5

-----------------------------------------------------------------------------
(***************************************************************************)
(* The theorems.                                                           *)
(***************************************************************************)

-----------------------------------------------------------------------------
\* The initial states satisfy the invariant.
LEMMA InitIInv == Init => IInv
<1> SUFFICES ASSUME Init PROVE IInv
  OBVIOUS
<1>1. /\ call = [t \in Threads |-> Idle] /\ watch = [p \in Procs |-> Free]
      /\ \A p \in Procs : watch[p] = Free
      /\ \A t \in Threads : call[t] = Idle
  BY DEF Init
<1>2. TypeOK
  <2>1. call \in [Threads -> Call] /\ watch \in [Procs -> Watch]
    BY <1>1, IdleType, FreeWatch
  <2>2. 0 \in 0..MaxPos /\ 0 \in Nat /\ cfg \in Config /\ cfgFile \in Config
    BY DEF Init
  <2>3. queue \in Seq(Item) /\ queueIdx \in Nat /\ resumeSeek \in 0..MaxPos
        /\ lastSeek \in 0..MaxPos /\ elapsedSec \in 0..MaxPos
    BY <2>2 DEF Init
  <2>. QED BY <2>1, <2>2, <2>3 DEF Init, TypeOK
<1>3. LockInv /\ LabelInv /\ TargetInv /\ PauseCaptured
  BY <1>1, IdleOutside DEF Init, LockInv, LabelInv, TargetInv, PauseCaptured, Holding, HoldLabels,
                           Threads
<1>4. SingleProcess /\ StopRemembered /\ SignalledNeverAdvances /\ PausedHeld /\ Bounds
  BY <1>1, FreeWatch DEF Init, SingleProcess, StopRemembered, SignalledNeverAdvances, PausedHeld,
                         Bounds, Exited, Position, Free
<1>. QED BY <1>2, <1>3, <1>4 DEF IInv

\* A step that changes no variable preserves the invariant.
LEMMA StutterIInv == IInv /\ UNCHANGED vars => IInv'
BY DEF vars, procVars, posVars, queueVars, pauseVars, cfgVars, IInv, TypeOK, LockInv, LabelInv,
       TargetInv, SingleProcess, StopRemembered, SignalledNeverAdvances, PauseCaptured,
       PausedHeld, Bounds, Holding, Exited, Position

\* Every step of the engine preserves the invariant.
LEMMA NextIInv == IInv /\ [Next]_vars => IInv'
<1> SUFFICES ASSUME IInv, [Next]_vars PROVE IInv'
  OBVIOUS
<1>1. ASSUME NEW c \in Callers, Calls(c) PROVE IInv'
  BY <1>1, StepCallStartAt, StepStartQueue, StepCallStop, StepCallPause, StepContinue, StepSkip,
     StepApply, StepUpdateConfig, StepCallRestart DEF Calls
<1>2. ASSUME NEW t \in Threads, Locking(t) PROVE IInv'
  BY <1>2, StepAcquire, StepAcquireStop, StepAcquirePause DEF Locking
<1>3. ASSUME NEW t \in Threads, Working(t) PROVE IInv'
  BY <1>3, StepStartAt, StepConfigInMemory, StepStopRead, StepStopMark, StepStopWaited,
     StepStopGivesUp, StepPauseDone, StepSpawn, StepSpawnFails, StepAdvanceFires,
     StepReconnectFires DEF Working
<1>4. ASSUME NEW p \in Procs, Exit(p) \/ Watching(p) PROVE IInv'
  BY <1>4, StepExit, StepReap, StepAdvanceRead, StepAdvanceCommit, StepReconnect DEF Watching
<1>. QED BY <1>1, <1>2, <1>3, <1>4, StepProgress, StutterIInv DEF Next

\* The inductive invariant holds of every behaviour of the engine.
THEOREM Invariance == Spec => []IInv
BY InitIInv, NextIInv, PTL DEF Spec

\* Type correctness.
THEOREM TypeCorrect == Spec => []TypeOK
BY Invariance, PTL DEF IInv

\* At most one ffmpeg process is up and it is the one the engine tracks,
\* however Start, Stop, Pause, Restart, timers and watchers overlap.
THEOREM OneProcess == Spec => []SingleProcess
BY Invariance, PTL DEF IInv

\* A paused stream does not run, and its resume position is one the paused
\* process had reached.
THEOREM PausedStreamHeld == Spec => []PausedHeld
BY Invariance, PTL DEF IInv

\* A process that was stopped never advances the queue.
THEOREM StoppedItemNeverAdvances == Spec => []SignalledNeverAdvances
BY Invariance, PTL DEF IInv

-----------------------------------------------------------------------------
(***************************************************************************)
(* What Stop promises when it returns.                                     *)
(***************************************************************************)

\* A step changes the locals of the goroutine that takes it and of no other.
LEMMA OwnLocals ==
  ASSUME TypeOK, NEW u \in Threads, NEW t \in Threads, u # t, Locking(u) \/ Working(u)
  PROVE  call'[t] = call[t]
<1>1. call \in [Threads -> Call]
  BY DEF TypeOK
<1>2. CASE Acquire(u) \/ AcquireStop(u) \/ AcquirePause(u)
  BY <1>1, <1>2 DEF Acquire, AcquireStop, AcquirePause, Goto
<1>3. CASE StartAt(u) \/ ConfigInMemory(u) \/ AdvanceFires(u) \/ ReconnectFires(u)
  BY <1>1, <1>3 DEF StartAt, ConfigInMemory, AdvanceFires, ReconnectFires, EnterStartItem, Goto
<1>4. CASE StopRead(u) \/ StopMark(u) \/ StopWaited(u) \/ StopGivesUp(u)
  BY <1>1, <1>4 DEF StopRead, StopMark, StopWaited, StopGivesUp, Stopped, Goto, Leave
<1>5. CASE PauseDone(u) \/ Spawn(u) \/ SpawnFails(u)
  BY <1>1, <1>5 DEF PauseDone, Spawn, SpawnFails, Leave
<1>. QED BY <1>2, <1>3, <1>4, <1>5 DEF Locking, Working

\* The step in which Stop returns success finds every process reaped.
LEMMA StopReturnStep ==
  ASSUME IInv, [Next]_vars, NEW t \in Callers,
         call[t].op = "stop", call[t].pc # "lock", call'[t] = Idle, ~StopGivesUp(t)
  PROVE  ~running' /\ \A p \in Procs : Exited(p)'
<1>1. /\ call[t].pc \in {"stop", "mark", "wait"} /\ t \in Threads /\ call[t] # Idle
      /\ call \in [Threads -> Call] /\ call[t] \in Call /\ TypeOK
  BY IdleType DEF IInv, LabelInv, Labelled, Threads, TypeOK
<1>2. CASE StopRead(t)
  <2>1. CASE running
    <3> DEFINE c1 == [call[t] EXCEPT !.pc = "mark", !.target = cmd]
    <3>1. c1.pc = "mark"
      BY <1>1 DEF Call
    <3>2. call' = [call EXCEPT ![t] = c1]
      BY <1>2, <2>1 DEF StopRead
    <3>3. call'[t].pc = "mark"
      <4> HIDE DEF c1
      <4>. QED BY <1>1, <3>1, <3>2
    <3>. QED BY <3>3, IdleType
  <2>2. CASE ~running
    BY <1>2, <2>2 DEF StopRead, procVars, IInv, SingleProcess, Exited
  <2>. QED BY <2>1, <2>2
<1>3. CASE StopWaited(t)
  <2>1. ~running
    BY <1>1, <1>3 DEF StopWaited, IInv, TargetInv, SingleProcess
  <2>. QED BY <1>3, <2>1 DEF StopWaited, procVars, IInv, SingleProcess, Exited
<1>4. CASE StopMark(t)
  <2>1. call'[t].pc = "wait"
    BY <1>1, <1>4, GotoType DEF StopMark, Goto, Labels
  <2>. QED BY <2>1, IdleType
<1>5. ASSUME NEW c \in Callers, Calls(c) PROVE FALSE
  <2>1. call[c] = Idle
    BY <1>5 DEF Calls, CallStartAt, StartQueue, CallStop, CallPause, Continue, Skip, Apply,
                UpdateConfig, CallRestart, Begin
  <2>2. call'[t] = call[t]
    BY <1>1, <1>5, <2>1 DEF Calls, CallStartAt, StartQueue, CallStop, CallPause, Continue, Skip,
                            Apply, UpdateConfig, CallRestart, Begin, EnterStartItem
  <2>. QED BY <1>1, <2>2
<1>6. ASSUME NEW u \in Threads, Locking(u) \/ Working(u), u # t PROVE FALSE
  BY <1>1, <1>6, OwnLocals
<1>7. CASE Locking(t)
  BY <1>1, <1>7 DEF Locking, Acquire, AcquireStop, AcquirePause
<1>8. CASE StartAt(t) \/ ConfigInMemory(t) \/ PauseDone(t) \/ Spawn(t) \/ SpawnFails(t)
           \/ AdvanceFires(t) \/ ReconnectFires(t)
  BY <1>1, <1>8 DEF StartAt, ConfigInMemory, PauseDone, Spawn, SpawnFails, AdvanceFires,
                    ReconnectFires
<1>9. ASSUME NEW p \in Procs, Exit(p) \/ Watching(p) PROVE FALSE
  <2>1. call'[t] = call[t]
    BY <1>1, <1>9 DEF Exit, Watching, Reap, AdvanceRead, AdvanceCommit, Reconnect, Begin
  <2>. QED BY <1>1, <2>1
<1>10. CASE Progress
  BY <1>1, <1>10 DEF Progress
<1>11. CASE UNCHANGED vars
  BY <1>1, <1>11 DEF vars
<1>. QED BY <1>2, <1>3, <1>4, <1>5, <1>6, <1>7, <1>8, <1>9, <1>10, <1>11 DEF Next, Working

\* Stop returns without an error only when nothing runs.
THEOREM StopMeansStopped == Spec => StopReturnsStopped
<1>1. IInv /\ [Next]_vars =>
        [\A t \in Callers :
           (/\ call[t].op = "stop" /\ call[t].pc # "lock"
            /\ call'[t] = Idle /\ ~StopGivesUp(t))
             => ~running' /\ \A p \in Procs : Exited(p)']_vars
  BY StopReturnStep
<1>. QED BY <1>1, Invariance, PTL DEF Spec, StopReturnsStopped
====
