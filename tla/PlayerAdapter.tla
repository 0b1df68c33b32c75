---------------------------- MODULE PlayerAdapter ----------------------------
(***************************************************************************)
(* The adapter between what asks for playback (scheduler, management API)  *)
(* and the ffmpeg engine: playerAdapter of src/server/management_api.go.   *)
(*                                                                         *)
(* The adapter keeps a queue and an index of its own for Skip; the engine  *)
(* has another queue and moves on by itself when an item ends.  A start is *)
(* two steps of the engine: StartQueue or StartAt replaces its queue, and  *)
(* startItem, under its lifecycle lock, stops what plays and launches.     *)
(* The rest of the engine is in Engine.  A programme is what a request     *)
(* resolves to (Library), empty for the media of an empty directory;       *)
(* playback without an engine is left out.                                 *)
(***************************************************************************)
EXTENDS Naturals, Sequences, FiniteSets

CONSTANTS Callers,
          Programmes,     \* sequences of items
          MaxTimers,      \* bounds the timers the engine has set
          None

VARIABLES queue, queueIdx,  \* of the adapter, from 1 here
          holder,           \* who holds queueMu
          engine,           \* the queue of the engine, its index and loop
          playing, resume,  \* the item that plays; the one that was paused
          source,           \* the item the engine has started last
          timers,           \* advances and reconnects the engine has set
          call,
          disturbed         \* history: calls and timers overlapped, or a start failed

playerVars == <<queue, queueIdx, holder, engine, playing, resume, source, timers, call, disturbed>>

Items == UNION {{p[k] : k \in DOMAIN p} : p \in Programmes}
Opt(S) == S \cup {None}
Queues == Programmes \cup {<<i>> : i \in Items}
Timer == [kind : {"advance", "reconnect"}, item : Items]
Idle == [at |-> "idle"]
Busy == {c \in Callers : call[c] # Idle}

TypeOK ==
  /\ queue \in Queues \cup {<<>>} /\ queueIdx \in 1..(Len(queue) + 1)
  /\ holder \in Opt(Callers)
  /\ engine.queue \in Queues \cup {<<>>} /\ engine.loop \in BOOLEAN
  /\ engine.idx \in 1..(Len(engine.queue) + 1)
  /\ playing \in Opt(Items) /\ resume \in Opt(Items) /\ source \in Opt(Items)
  /\ timers \subseteq Timer /\ Cardinality(timers) <= MaxTimers
  /\ \A c \in Callers : call[c].at \in {"idle", "play", "queued", "skip", "startAt", "start"}

Init ==
  /\ queue = <<>> /\ queueIdx = 1 /\ holder = None
  /\ engine = [queue |-> <<>>, idx |-> 1, loop |-> FALSE]
  /\ playing = None /\ resume = None /\ source = None /\ timers = {}
  /\ call = [c \in Callers |-> Idle] /\ disturbed = FALSE

-----------------------------------------------------------------------------
(* The requests *)

Goto(c, r) == call' = [call EXCEPT ![c] = r]
EngineUnchanged == UNCHANGED <<engine, playing, resume, source, timers>>

\* Play resolves its target first. An error ends it, and so does a playlist that
\* is empty; the media of an empty directory goes on, with an empty programme.
Play(c) == \E p \in Programmes, loop \in BOOLEAN :
  /\ call[c] = Idle
  /\ Goto(c, [at |-> "play", programme |-> p, loop |-> loop])
  /\ EngineUnchanged /\ UNCHANGED <<queue, queueIdx, holder>>

\* Mutant of setQueue.
setQueue_Kept(c) ==
  /\ call[c].at = "play" /\ holder = None
  /\ IF queue = <<>> THEN queue' = call[c].programme /\ queueIdx' = 1
     ELSE UNCHANGED <<queue, queueIdx>>
  /\ Goto(c, [call[c] EXCEPT !.at = "queued"])
  /\ EngineUnchanged /\ UNCHANGED holder
setQueue(c) ==
  /\ call[c].at = "play" /\ holder = None
  /\ queue' = call[c].programme /\ queueIdx' = 1
  /\ Goto(c, [call[c] EXCEPT !.at = "queued"])
  /\ EngineUnchanged /\ UNCHANGED holder

StartQueue(c) ==
  /\ call[c].at = "queued" /\ call[c].programme # <<>>
  /\ engine' = [queue |-> call[c].programme, idx |-> 1, loop |-> call[c].loop]
  /\ Goto(c, [at |-> "start", item |-> call[c].programme[1]])
  /\ UNCHANGED <<queue, queueIdx, holder, playing, resume, source, timers>>

\* The engine refuses an empty queue: what it plays goes on, but the adapter has
\* forgotten it.
StartRefused(c) ==
  /\ call[c].at = "queued" /\ call[c].programme = <<>>
  /\ Goto(c, Idle)
  /\ EngineUnchanged /\ UNCHANGED <<queue, queueIdx, holder>>

\* Skip steps the adapter's index and keeps queueMu until the item has been
\* started; with an empty queue it has the engine start its source again.
Skip(c) ==
  /\ call[c] = Idle /\ holder = None /\ queue # <<>>
  /\ queueIdx' = (queueIdx % Len(queue)) + 1
  /\ holder' = c
  /\ Goto(c, [at |-> "skip", item |-> queue[queueIdx']])
  /\ EngineUnchanged /\ UNCHANGED queue
EngineSkip(c) ==
  /\ call[c] = Idle /\ holder = None /\ queue = <<>> /\ source # None
  /\ holder' = c
  /\ Goto(c, [at |-> "skip", item |-> source])
  /\ EngineUnchanged /\ UNCHANGED <<queue, queueIdx>>

\* Seek restarts what Status says is the source, whether it plays or not,
\* Continue what was paused.
Seek(c) ==
  /\ call[c] = Idle /\ source # None
  /\ Goto(c, [at |-> "startAt", item |-> source])
  /\ EngineUnchanged /\ UNCHANGED <<queue, queueIdx, holder>>
Continue(c) ==
  /\ call[c] = Idle /\ resume # None
  /\ Goto(c, [at |-> "startAt", item |-> resume])
  /\ EngineUnchanged /\ UNCHANGED <<queue, queueIdx, holder>>

StartAt(c) ==
  /\ call[c].at \in {"skip", "startAt"}
  /\ engine' = [queue |-> <<call[c].item>>, idx |-> 1, loop |-> FALSE]
  /\ Goto(c, [at |-> "start", item |-> call[c].item])
  /\ UNCHANGED <<queue, queueIdx, holder, playing, resume, source, timers>>

Unlock(c) == holder' = IF holder = c THEN None ELSE holder

startItem(c) ==
  /\ call[c].at = "start"
  /\ playing' = call[c].item /\ resume' = None /\ source' = call[c].item
  /\ Goto(c, Idle) /\ Unlock(c)
  /\ UNCHANGED <<queue, queueIdx, engine, timers>>

\* The source is gone, or the launch fails after the old process was stopped.
\* Mutant of StartFails.
StartFails_KeepsLock(c) ==
  /\ call[c].at = "start"
  /\ playing' \in {playing, None}
  /\ Goto(c, Idle)
  /\ UNCHANGED <<queue, queueIdx, holder, engine, resume, source, timers>>
StartFails(c) ==
  /\ call[c].at = "start"
  /\ playing' \in {playing, None}
  /\ Goto(c, Idle) /\ Unlock(c)
  /\ UNCHANGED <<queue, queueIdx, engine, resume, source, timers>>

Stop(c) == /\ call[c] = Idle /\ playing # None
           /\ playing' = None
           /\ UNCHANGED <<queue, queueIdx, holder, engine, resume, source, timers, call>>
Pause(c) == /\ call[c] = Idle /\ playing # None
            /\ playing' = None /\ resume' = playing
            /\ UNCHANGED <<queue, queueIdx, holder, engine, source, timers, call>>

handlePlayer(c) ==
  \/ Play(c) \/ setQueue(c) \/ StartQueue(c) \/ StartRefused(c)
  \/ Skip(c) \/ EngineSkip(c) \/ Seek(c) \/ Continue(c) \/ StartAt(c)
  \/ startItem(c) \/ StartFails(c) \/ Stop(c) \/ Pause(c)

-----------------------------------------------------------------------------
(* The engine by itself *)

\* An item ends: the engine moves its index and sets a timer for the next.
AdvanceTo == LET n == engine.idx + 1
             IN IF n <= Len(engine.queue) THEN n ELSE IF engine.loop THEN 1 ELSE 0
Ends ==
  /\ playing # None
  /\ playing' = None
  /\ IF Len(engine.queue) <= 1 THEN UNCHANGED <<engine, timers>>
     ELSE IF AdvanceTo = 0 THEN engine' = [engine EXCEPT !.queue = <<>>, !.idx = 1] /\ UNCHANGED timers
     ELSE /\ engine' = [engine EXCEPT !.idx = AdvanceTo]
          /\ timers' = timers \cup {[kind |-> "advance", item |-> engine.queue[AdvanceTo]]}
  /\ UNCHANGED <<queue, queueIdx, holder, resume, source, call>>

\* The process dies: a reconnect is set.
Dies ==
  /\ playing # None
  /\ playing' = None
  /\ timers' = timers \cup {[kind |-> "reconnect", item |-> playing]}
  /\ UNCHANGED <<queue, queueIdx, holder, engine, resume, source, call>>

Fires == \E t \in timers :
  /\ timers' = timers \ {t}
  /\ engine' = IF t.kind = "advance" THEN engine
               ELSE [queue |-> <<t.item>>, idx |-> 1, loop |-> FALSE]
  /\ playing' = t.item /\ resume' = None /\ source' = t.item
  /\ UNCHANGED <<queue, queueIdx, holder, call>>

EngineMoves == Ends \/ Dies \/ Fires

Disturb ==
  /\ Cardinality(timers') <= MaxTimers
  /\ disturbed' = \/ disturbed
                  \/ Cardinality(Busy') > 1
                  \/ Busy' # {} /\ timers' # {}
                  \/ \E c \in Callers : call[c].at = "start" /\ call'[c] = Idle
                                        /\ playing' # call[c].item

Next == ((\E c \in Callers : handlePlayer(c)) \/ EngineMoves) /\ Disturb

Spec == Init /\ [][Next]_playerVars

\* A call that has begun goes on, and the mutex is handed to who waits.
Fairness == \A c \in Callers :
  /\ SF_playerVars(setQueue(c) /\ Disturb)
  /\ WF_playerVars((StartQueue(c) \/ StartRefused(c) \/ StartAt(c) \/ startItem(c)
                    \/ StartFails(c)) /\ Disturb)

-----------------------------------------------------------------------------
(* Properties *)

\* What plays, was paused or was started last is of the programme Skip works on,
\* as long as no two calls overlap, no timer is pending under a call and no start
\* fails: the two queues and their indices, each moved on its own, then agree
\* about it. The exception is the empty queue: the play of an empty directory
\* leaves it beside what goes on playing (management_api.go:2336-2339), until the
\* next play.
OneProgramme ==
  Busy = {} /\ ~disturbed /\ queue # <<>> =>
    /\ \A i \in {playing, resume, source} \ {None} : \E k \in DOMAIN queue : queue[k] = i
    /\ \A t \in timers : \E k \in DOMAIN queue : queue[k] = t.item

\* "Skip advances to the next item of the playback queue"
\* (management_api.go:2310): what it starts follows what was playing. No run has
\* this: the engine that has moved on by itself restarts the item it is at,
\* since the adapter's index stayed behind.
Follows(a, b) == \E k \in DOMAIN queue : queue[k] = a /\ queue[(k % Len(queue)) + 1] = b
SkipAdvances == [][\A c \in Callers :
  call[c] = Idle /\ call'[c].at = "skip" /\ playing # None /\ ~disturbed
     => Follows(playing, call'[c].item)]_playerVars

\* Every request to the player returns: the lock Skip holds while it starts an
\* item is given back, also when the start fails.
PlayerReturns == \A c \in Callers : call[c] # Idle ~> call[c] = Idle
=============================================================================
