---------------------------- MODULE StreamManager ----------------------------
(***************************************************************************)
(* The push tasks of src/server/stream.go: StreamManager keeps the task    *)
(* definitions, their file stream.json and one engine per started task.    *)
(*                                                                         *)
(* An action is a section under m.mu, or a call of an engine made outside  *)
(* of it. An engine is what its callers see of module Engine: a process    *)
(* that is up or not, and a reconnect timer that may be armed. Engines is  *)
(* a pool: an engine nobody refers to any more is collected.               *)
(***************************************************************************)
EXTENDS FiniteSets

CONSTANTS
  Ids,       \* task ids
  Defs,      \* what a task can be defined to be: content and outputs
  Effects,   \* global effect chains
  Engines,   \* FFmpegEngine instances
  Callers,   \* goroutines of the HTTP handlers
  Faults,    \* what may go wrong: see FaultKinds
  NoDef, NoEffect, NoEngine

FaultKinds == {"disk",   \* persistLocked fails
               "kill",   \* an engine's Stop gives up
               "timer"}  \* a process dies and a reconnect is armed

ASSUME StreamAssumption ==
  /\ NoDef \notin Defs /\ NoEffect \notin Effects /\ NoEngine \notin Engines
  /\ Defs # {} /\ Effects # {} /\ Faults \subseteq FaultKinds

VARIABLES
  listed,        \* the ids in m.tasks and m.order
  def,           \* each StreamTask object; it outlives its listing
  engs,          \* m.engs
  file,          \* stream.json
  effectSource,  \* whether SetEffectSource was called
  effect,        \* the global effect chain
  engine,        \* the engines
  call,          \* what each goroutine is doing
  attempted,     \* history: what each task was set to since its last write
  slipped        \* history: engines out of the map that may run, see Orphans

taskVars == <<listed, def, file, attempted>>
vars == <<taskVars, engs, effectSource, effect, engine, call, slipped>>

-----------------------------------------------------------------------------
\* What taskEngine hands to NewFFmpegEngine.
Conf == [def : Defs, effect : Effects \cup {NoEffect}]
Current(id) ==
  [def |-> def[id], effect |-> IF effectSource THEN effect ELSE NoEffect]

Engine == [task : Ids, conf : Conf, up : BOOLEAN, timer : BOOLEAN]
Unused == [up |-> FALSE, timer |-> FALSE]
Up(e) == engine[e].up
On(e) == engine[e].up \/ engine[e].timer

\* The locals of a call: where it is, its task and engine, and the
\* configurations its task had while it was under way.
Steps == {"idle", "drop", "engine", "launch", "stop", "delete"}
Idle == [pc |-> "idle"]
Call == [pc : Steps \ {"idle"}, id : Ids, eng : Engines \cup {NoEngine},
         seen : SUBSET Conf]
At(pc, id, e) == [pc |-> pc, id |-> id, eng |-> e, seen |-> {Current(id)}]
Starting(c) == call[c].pc \in {"drop", "engine", "launch"}
Held(e) == \E c \in Callers : call[c].pc = "launch" /\ call[c].eng = e

Mapped == {engs[id] : id \in Ids} \ {NoEngine}
Collected(e) ==
  /\ ~On(e) /\ e \notin Mapped
  /\ \A c \in Callers : call[c] # Idle => call[c].eng # e

\* What is in memory, as persistLocked writes it.
Listing(ids, defs) == [id \in Ids |-> IF id \in ids THEN defs[id] ELSE NoDef]

Init ==
  /\ listed = {} /\ def = [id \in Ids |-> NoDef]
  /\ file = Listing({}, def) /\ engs = [id \in Ids |-> NoEngine]
  /\ effectSource \in BOOLEAN /\ effect \in Effects
  /\ engine = [e \in Engines |-> Unused]
  /\ call = [c \in Callers |-> Idle]
  /\ attempted = [id \in Ids |-> {NoDef}] /\ slipped = {}

-----------------------------------------------------------------------------
(***************************************************************************)
(* The task definitions. A write that fails leaves memory changed.         *)
(***************************************************************************)
Set_FileFirst(id, ids, defs, ok) ==
  /\ listed' = ids /\ def' = defs
  /\ attempted' = LET now == Listing(ids, defs) IN
       IF ok THEN [i \in Ids |-> {now[i]}]
       ELSE [attempted EXCEPT ![id] = @ \cup {now[id]}]
  /\ file' = IF ok THEN Listing(listed, def) ELSE file
Set(id, ids, defs, ok) ==
  /\ listed' = ids /\ def' = defs
  /\ attempted' = LET now == Listing(ids, defs) IN
       IF ok THEN [i \in Ids |-> {now[i]}]
       ELSE [attempted EXCEPT ![id] = @ \cup {now[id]}]
  /\ file' = IF ok THEN Listing(ids, defs) ELSE file

\* Create and Update are one section, on any goroutine that is free.
Available == \E c \in Callers : call[c] = Idle
MayFail(fault, ok) == ok \/ fault \in Faults

\* A Start under way on one of ids has now seen the configuration change.
Witness(ids) ==
  LET now == [id \in Ids |-> Current(id)]' IN
  call' = [c \in Callers |->
    IF Starting(c) /\ call[c].id \in ids
    THEN [call[c] EXCEPT !.seen = @ \cup {now[call[c].id]}] ELSE call[c]]

\* An engine that leaves the map although it may run is remembered.
Startable(e) == e # NoEngine /\ (On(e) \/ Held(e))
Slip(e, astray) == slipped' = IF astray THEN slipped \cup {e} ELSE slipped

Create ==
  \E id \in Ids, d \in Defs, ok \in BOOLEAN :
    /\ Available /\ def[id] = NoDef /\ MayFail("disk", ok)
    /\ Set(id, listed \cup {id}, [def EXCEPT ![id] = d], ok)
    /\ UNCHANGED <<engs, effectSource, effect, engine, call, slipped>>

\* An engine gets on or off or has its timer set; what it was made for stays.
Switch(e, up, timer) ==
  engine' = [engine EXCEPT ![e] =
    [task |-> @.task, conf |-> @.conf, up |-> up, timer |-> timer]]

\* Stop of an engine: a pending reconnect timer is not disarmed (see
\* StoppedStaysStopped of MCEngine), and an engine that gives up stays up.
Halt(e, dead) == Switch(e, Up(e) /\ ~dead, engine[e].timer)

\* Update drops the engine from the map, edits the definition in place, writes
\* the file and only then stops the engine, all under m.mu. The two ways out.
UpdateMemory_KeepsEngine(id, d, ok) ==
  /\ Available /\ id \in listed /\ MayFail("disk", ok)
  /\ Set(id, listed, [def EXCEPT ![id] = d], ok)
  /\ engs' = IF ok THEN [engs EXCEPT ![id] = NoEngine] ELSE engs
  /\ UNCHANGED <<effectSource, effect>>
  /\ Witness({id})
UpdateMemory(id, d, ok) ==
  /\ Available /\ id \in listed /\ MayFail("disk", ok)
  /\ Set(id, listed, [def EXCEPT ![id] = d], ok)
  /\ engs' = [engs EXCEPT ![id] = NoEngine]
  /\ UNCHANGED <<effectSource, effect>>
  /\ Witness({id})

Update_NoStop ==
  \E id \in Ids, d \in Defs :
    /\ UpdateMemory(id, d, TRUE) /\ UNCHANGED engine
    /\ Slip(engs[id], engs[id] # NoEngine /\ (engine[engs[id]].timer \/ Held(engs[id])))
Update ==
  \E id \in Ids, d \in Defs, dead \in BOOLEAN :
    LET e == engs[id] IN
    /\ UpdateMemory(id, d, TRUE) /\ MayFail("kill", dead)
    /\ IF e = NoEngine THEN dead /\ UNCHANGED <<engine, slipped>>
       ELSE Halt(e, dead) /\ Slip(e, ~dead \/ engine[e].timer \/ Held(e))

UpdateFails ==
  \E id \in Ids, d \in Defs :
    /\ UpdateMemory(id, d, FALSE)
    /\ Slip(engs[id], Startable(engs[id]))
    /\ UNCHANGED engine

\* Delete leaves the map entry, and stops the engine after it let go of m.mu.
Delete ==
  \E c \in Callers, id \in Ids, ok \in BOOLEAN :
    /\ call[c] = Idle /\ id \in listed /\ MayFail("disk", ok)
    /\ Set(id, listed \ {id}, def, ok)
    /\ call' = IF engs[id] = NoEngine THEN call
               ELSE [call EXCEPT ![c] = At("delete", id, engs[id])]
    /\ UNCHANGED <<engs, effectSource, effect, engine, slipped>>

-----------------------------------------------------------------------------
(***************************************************************************)
(* The streams.                                                            *)
(***************************************************************************)
Goto(c, pc, e) == call' = [call EXCEPT ![c].pc = pc, ![c].eng = e]
Return(c) == call' = [call EXCEPT ![c] = Idle]

\* Start: Get, and the content resolves and expands.
Start_NoGet(c) ==
  /\ call[c] = Idle
  /\ \E id \in Ids :
       call' = [call EXCEPT ![c] =
                  At(IF effectSource THEN "drop" ELSE "engine", id, NoEngine)]
  /\ UNCHANGED <<taskVars, engs, effectSource, effect, engine, slipped>>
Start(c) ==
  /\ call[c] = Idle
  /\ \E id \in listed :
       call' = [call EXCEPT ![c] =
                  At(IF effectSource THEN "drop" ELSE "engine", id, NoEngine)]
  /\ UNCHANGED <<taskVars, engs, effectSource, effect, engine, slipped>>

\* With effects wired the engine in the map makes room, running or not.
Drop(c) ==
  LET id == call[c].id IN
  /\ call[c].pc = "drop" /\ Goto(c, "engine", NoEngine)
  /\ engs' = [engs EXCEPT ![id] = NoEngine]
  /\ Slip(engs[id], Startable(engs[id]))
  /\ UNCHANGED <<taskVars, effectSource, effect, engine>>

TaskEngine(c) ==
  LET id == call[c].id IN
  /\ call[c].pc = "engine"
  /\ IF engs[id] # NoEngine
     THEN /\ Goto(c, "launch", engs[id])
          /\ UNCHANGED <<engs, engine, slipped>>
     ELSE \E e \in Engines :
          /\ Collected(e) /\ Goto(c, "launch", e)
          /\ engs' = [engs EXCEPT ![id] = e]
          /\ engine' = [engine EXCEPT ![e] =
               [task |-> id, conf |-> Current(id), up |-> FALSE, timer |-> FALSE]]
          /\ slipped' = slipped \ {e}
  /\ UNCHANGED <<taskVars, effectSource, effect>>

\* StartQueue: it succeeds, or fails before or after it stopped what ran.
Launch(c) ==
  /\ call[c].pc = "launch" /\ Return(c)
  /\ \E up \in BOOLEAN : Switch(call[c].eng, up, engine[call[c].eng].timer)
  /\ UNCHANGED <<taskVars, engs, effectSource, effect, slipped>>

\* Stop reads the map under m.mu; without an engine there is nothing to do.
StopLookup(c) ==
  /\ call[c] = Idle
  /\ \E id \in listed \cup {i \in Ids : engs[i] # NoEngine} :
       call' = [call EXCEPT ![c] = At("stop", id, engs[id])]
  /\ UNCHANGED <<taskVars, engs, effectSource, effect, engine, slipped>>

\* The engine's Stop, for Stop and for Delete.
StopEngine(c) ==
  /\ call[c].pc \in {"stop", "delete"} /\ Return(c)
  /\ IF call[c].eng = NoEngine THEN UNCHANGED engine
     ELSE \E dead \in BOOLEAN : MayFail("kill", dead) /\ Halt(call[c].eng, dead)
  /\ UNCHANGED <<taskVars, engs, effectSource, effect, slipped>>

-----------------------------------------------------------------------------
(***************************************************************************)
(* Around it: the engines, the effect chain, the program.                  *)
(***************************************************************************)
Exits(e) ==
  /\ Up(e)
  /\ \E armed \in BOOLEAN :
       /\ armed => "timer" \in Faults
       /\ Switch(e, FALSE, engine[e].timer \/ armed)
  /\ UNCHANGED <<taskVars, engs, effectSource, effect, call, slipped>>

TimerFires(e) ==
  /\ engine[e].timer
  /\ \E up \in BOOLEAN : Switch(e, up, FALSE)
  /\ UNCHANGED <<taskVars, engs, effectSource, effect, call, slipped>>

SetEffect ==
  /\ effect' \in Effects /\ UNCHANGED <<def, effectSource>>
  /\ Witness(Ids)
  /\ UNCHANGED <<listed, file, attempted, engs, engine, slipped>>

\* The program ends and NewStreamManager loads the file. Its ffmpeg processes
\* end with it: nobody reads their progress pipe any more.
Restart ==
  /\ def' = file /\ listed' = {id \in Ids : file[id] # NoDef}
  /\ attempted' = [id \in Ids |-> {file[id]}]
  /\ engs' = [id \in Ids |-> NoEngine] /\ engine' = [e \in Engines |-> Unused]
  /\ call' = [c \in Callers |-> Idle] /\ slipped' = {}
  /\ UNCHANGED <<file, effectSource, effect>>

Requests == Create \/ Update \/ UpdateFails \/ Delete
Calls ==
  \E c \in Callers : \/ Start(c) \/ Drop(c) \/ TaskEngine(c) \/ Launch(c)
                     \/ StopLookup(c) \/ StopEngine(c)
Environment ==
  \/ \E e \in Engines : Exits(e) \/ TimerFires(e)
  \/ SetEffect \/ Restart

Next == Requests \/ Calls \/ Environment
Spec == Init /\ [][Next]_vars

-----------------------------------------------------------------------------
(***************************************************************************)
(* Properties.                                                             *)
(***************************************************************************)

\* Every variable has its type; an engine that is on was built for a task.
TypeOK ==
  /\ listed \subseteq Ids /\ def \in [Ids -> Defs \cup {NoDef}]
  /\ file \in [Ids -> Defs \cup {NoDef}]
  /\ engs \in [Ids -> Engines \cup {NoEngine}]
  /\ effectSource \in BOOLEAN /\ effect \in Effects
  /\ engine \in [Engines -> Engine \cup {Unused}]
  /\ call \in [Callers -> Call \cup {Idle}]
  /\ attempted \in [Ids -> SUBSET (Defs \cup {NoDef})]
  /\ slipped \subseteq Engines

\* "A running engine is stopped and discarded so the new outputs apply on the
\* next Start" (Update), and an effect change applies at the next start: the
\* engine a Start launches was built from a definition and an effect chain its
\* task had while the Start was under way, whatever is updated and started
\* beside it, and whichever write fails.
LaunchesCurrent ==
  \A c \in Callers :
    call[c] # Idle /\ call[c].pc = "launch"
      => engine[call[c].eng].conf \in call[c].seen

\* The engines that run or will and that no request can reach any more. They
\* come from: a Start over a stream that is on; an Update during a Start, with
\* a reconnect pending, whose stop gives up or whose write fails. From nothing
\* else.
Orphans == {e \in Engines : On(e)} \ Mapped
OrphansExplained == Orphans \subseteq slipped

\* Every change that was reported as done is on disk until the next one: what
\* the file says of a task is its last written definition or one that failed
\* to be written since and went out with a later write.
AcknowledgedIsStored == \A id \in Ids : file[id] \in attempted[id]

\* "Stop halts the task's stream": a Stop that took down the engine it found
\* leaves no process of the task up.
StopHalts ==
  [][\A c \in Callers :
       (/\ call[c].pc = "stop" /\ call'[c] = Idle
        /\ call[c].eng # NoEngine => ~engine'[call[c].eng].up)
       => \A e \in Engines : Up(e)' => engine'[e].task # call[c].id]_vars

-----------------------------------------------------------------------------
(***************************************************************************)
(* The inductive invariant.                                                *)
(***************************************************************************)

\* An engine that was made is never mistaken for an empty place of the pool.
Made(e) == e \in Engines /\ engine[e] \in Engine

\* A task that is listed or has an engine has a definition. Without effects an
\* engine stays in the map for as long as it is what its task says.
MapInv ==
  \A id \in Ids :
    /\ id \in listed => def[id] \in Defs
    /\ engs[id] # NoEngine =>
         /\ Made(engs[id]) /\ def[id] \in Defs
         /\ ~effectSource => engine[engs[id]].conf = Current(id)

\* A call on an engine holds one that was made. A Start has seen what its task
\* is now, and from its Drop on what the engine in the map was made from.
CallOk(c) ==
  LET e == call[c].eng
      m == engs[call[c].id] IN
  /\ e # NoEngine => Made(e)
  /\ Starting(c) => def[call[c].id] \in Defs /\ Current(call[c].id) \in call[c].seen
  /\ call[c].pc = "engine" /\ m # NoEngine => engine[m].conf \in call[c].seen
  /\ call[c].pc = "launch" =>
       Made(e) /\ engine[e].conf \in call[c].seen /\ e \in Mapped \cup slipped
CallInv == \A c \in Callers : call[c] # Idle => CallOk(c)

IInv ==
  /\ TypeOK /\ MapInv /\ CallInv
  /\ OrphansExplained /\ AcknowledgedIsStored
=============================================================================
