----------------------------- MODULE StreamProofs -----------------------------
(***************************************************************************)
(* Proofs about the push tasks (StreamManager), for any number of tasks,   *)
(* definitions, effect chains, engines and callers and whatever fails.     *)
(***************************************************************************)
EXTENDS StreamManager, TLAPS

USE StreamAssumption
USE DEF taskVars

\* What a defined task is turned into is a configuration.
LEMMA CurrentType ==
  ASSUME TypeOK, NEW id \in Ids, def[id] \in Defs
  PROVE  Current(id) \in Conf
  BY DEF TypeOK, Current, Conf

\* The fields of a call that is under way.
LEMMA CallType ==
  ASSUME TypeOK, NEW c \in Callers
  PROVE  /\ Idle.pc = "idle"
         /\ call[c] # Idle => call[c] \in Call
         /\ call[c].pc # "idle" => call[c] # Idle
         /\ call[c] # Idle =>
              /\ call[c].pc \in Steps \ {"idle"} /\ call[c].id \in Ids
              /\ call[c].eng \in Engines \cup {NoEngine} /\ call[c].seen \subseteq Conf
  BY DEF TypeOK, Call, Idle

\* A call that begins.
LEMMA AtType ==
  ASSUME TypeOK, NEW id \in Ids, def[id] \in Defs, NEW pc \in Steps \ {"idle"},
         NEW e \in Engines \cup {NoEngine}
  PROVE  /\ At(pc, id, e) \in Call /\ At(pc, id, e) # Idle
         /\ At(pc, id, e).pc = pc /\ At(pc, id, e).id = id /\ At(pc, id, e).eng = e
         /\ At(pc, id, e).seen = {Current(id)}
<1>1. Current(id) \in Conf
  BY CurrentType
<1>. QED BY <1>1 DEF At, Call, Idle, Steps

\* Only an engine that was made can be on; switching it keeps what it is.
LEMMA EngineType ==
  ASSUME TypeOK, NEW e \in Engines
  PROVE  /\ On(e) => Made(e)
         /\ Made(e) => /\ engine[e].up \in BOOLEAN /\ engine[e].timer \in BOOLEAN
                       /\ engine[e].conf \in Conf
  BY DEF TypeOK, On, Made, Unused, Engine

-----------------------------------------------------------------------------
(***************************************************************************)
(* The definitions and their file.                                         *)
(***************************************************************************)

\* A change is stored or remembered as attempted.
LEMMA SetStored ==
  ASSUME TypeOK, AcknowledgedIsStored,
         NEW id \in Ids, NEW ids \in SUBSET Ids, NEW defs \in [Ids -> Defs \cup {NoDef}],
         NEW ok \in BOOLEAN, Set(id, ids, defs, ok)
  PROVE  /\ AcknowledgedIsStored'
         /\ listed' = ids /\ def' = defs
         /\ file' \in [Ids -> Defs \cup {NoDef}]
         /\ attempted' \in [Ids -> SUBSET (Defs \cup {NoDef})]
<1>1. Listing(ids, defs) \in [Ids -> Defs \cup {NoDef}]
  BY DEF Listing
<1>2. CASE ok
  BY <1>1, <1>2 DEF Set, AcknowledgedIsStored, TypeOK
<1>3. CASE ~ok
  BY <1>1, <1>3 DEF Set, AcknowledgedIsStored, TypeOK
<1>. QED BY <1>2, <1>3

\* A Start under way has seen the change of its task, and nothing else changed
\* in any call.
LEMMA WitnessKeeps ==
  ASSUME TypeOK, CallInv, NEW ids \in SUBSET Ids, Witness(ids),
         effectSource' = effectSource, effect' \in Effects,
         \A id \in Ids : def[id] \in Defs => def'[id] \in Defs,
         \A id \in Ids \ ids : Current(id)' = Current(id)
  PROVE  /\ call' \in [Callers -> Call \cup {Idle}]
         /\ \A c \in Callers :
              /\ call'[c] = Idle <=> call[c] = Idle
              /\ call[c] # Idle =>
                   /\ call'[c].pc = call[c].pc /\ call'[c].id = call[c].id
                   /\ call'[c].eng = call[c].eng
                   /\ call[c].seen \subseteq call'[c].seen
              /\ \A id \in Ids : call[c] # Idle /\ Starting(c) /\ call[c].id = id =>
                   def'[id] \in Defs /\ Current(id)' \in call'[c].seen
<1>. DEFINE now == [id \in Ids |-> Current(id)']
<1>1. ASSUME NEW c \in Callers
      PROVE  call'[c] = IF Starting(c) /\ call[c].id \in ids
                        THEN [call[c] EXCEPT !.seen = @ \cup {now[call[c].id]}]
                        ELSE call[c]
  BY DEF Witness
<1>2. ASSUME NEW c \in Callers, call[c] # Idle, Starting(c), NEW id \in Ids,
             call[c].id = id
      PROVE  /\ def'[id] \in Defs /\ Current(id)' \in Conf
             /\ now[id] = Current(id)'
  <2>1. def'[id] \in Defs
    BY <1>2 DEF CallInv, CallOk
  <2>. QED BY <2>1 DEF Current, Conf
<1>3. ASSUME NEW c \in Callers, call[c] # Idle, Starting(c), NEW id \in ids,
             call[c].id = id
      PROVE  /\ call'[c] \in Call /\ call'[c] # Idle
             /\ call'[c].pc = call[c].pc /\ call'[c].id = call[c].id
             /\ call'[c].eng = call[c].eng
             /\ call'[c].seen = call[c].seen \cup {Current(id)'}
  <2>1. call[c] \in Call
    BY <1>3, CallType
  <2>2. call'[c] = [call[c] EXCEPT !.seen = @ \cup {Current(id)'}]
    BY <1>1, <1>2, <1>3
  <2>. QED BY <2>1, <2>2, <1>2, <1>3 DEF Call, Idle
<1>4. ASSUME NEW c \in Callers, ~(Starting(c) /\ call[c].id \in ids)
      PROVE  call'[c] = call[c]
  BY <1>1, <1>4
<1>5. ASSUME NEW c \in Callers, Starting(c)
      PROVE  call[c] # Idle
  BY <1>5, CallType DEF Starting
<1>6. call' \in [Callers -> Call \cup {Idle}]
  <2>1. \A c \in Callers : call'[c] \in Call \cup {Idle}
    BY <1>3, <1>4, <1>5 DEF TypeOK
  <2>2. call' = [c \in Callers |-> call'[c]]
    BY DEF Witness
  <2>. QED BY <2>1, <2>2
<1>7. ASSUME NEW c \in Callers, call[c] # Idle, Starting(c), NEW id \in Ids,
             call[c].id = id
      PROVE  def'[id] \in Defs /\ Current(id)' \in call'[c].seen
  <2>1. CASE id \in ids
    BY <1>2, <1>3, <1>7, <2>1
  <2>2. CASE id \notin ids
    BY <1>2, <1>4, <1>7, <2>2 DEF CallInv, CallOk
  <2>. QED BY <2>1, <2>2
<1>. QED BY <1>3, <1>4, <1>5, <1>6, <1>7, CallType

-----------------------------------------------------------------------------
(***************************************************************************)
(* Every action keeps the invariant.                                       *)
(***************************************************************************)

\* A call in terms of its own fields, which a primed Current would hide.
LEMMA CallOkAt ==
  ASSUME NEW c \in Callers, NEW id, NEW e, call[c].id = id, call[c].eng = e
  PROVE  CallOk(c) <=>
           /\ e # NoEngine => Made(e)
           /\ Starting(c) => def[id] \in Defs /\ Current(id) \in call[c].seen
           /\ call[c].pc = "engine" /\ engs[id] # NoEngine
                => engine[engs[id]].conf \in call[c].seen
           /\ call[c].pc = "launch" =>
                Made(e) /\ engine[e].conf \in call[c].seen /\ e \in Mapped \cup slipped
  BY DEF CallOk

LEMMA CreateStep == IInv /\ Create => IInv'
<1>. SUFFICES ASSUME IInv, Create
              PROVE  IInv'
  OBVIOUS
<1>. USE DEF IInv
<1>1. PICK id \in Ids, d \in Defs, ok \in BOOLEAN :
        /\ def[id] = NoDef
        /\ Set(id, listed \cup {id}, [def EXCEPT ![id] = d], ok)
  BY DEF Create
<1>2. UNCHANGED <<engs, effectSource, effect, engine, call, slipped>>
  BY DEF Create
<1>3. /\ AcknowledgedIsStored' /\ listed' = listed \cup {id}
      /\ def' = [def EXCEPT ![id] = d] /\ def' \in [Ids -> Defs \cup {NoDef}]
      /\ file' \in [Ids -> Defs \cup {NoDef}]
      /\ attempted' \in [Ids -> SUBSET (Defs \cup {NoDef})]
  <2>. DEFINE defs == [def EXCEPT ![id] = d]
              ids == listed \cup {id}
  <2>1. defs \in [Ids -> Defs \cup {NoDef}] /\ ids \in SUBSET Ids
    BY DEF TypeOK
  <2>2. Set(id, ids, defs, ok)
    BY <1>1
  <2>. HIDE DEF defs, ids
  <2>3. /\ AcknowledgedIsStored' /\ listed' = ids /\ def' = defs
        /\ file' \in [Ids -> Defs \cup {NoDef}]
        /\ attempted' \in [Ids -> SUBSET (Defs \cup {NoDef})]
    BY <2>1, <2>2, SetStored
  <2>. QED BY <2>1, <2>3 DEF defs, ids
<1>4. TypeOK'
  BY <1>2, <1>3 DEF TypeOK
<1>5. ASSUME NEW i \in Ids, def[i] \in Defs
      PROVE  def'[i] = def[i] /\ Current(i)' = Current(i)
  BY <1>1, <1>2, <1>3, <1>5 DEF Current, TypeOK
<1>6. MapInv'
  <2>1. ASSUME NEW i \in listed'
        PROVE  def'[i] \in Defs
    BY <1>3, <1>5, <2>1 DEF MapInv, TypeOK
  <2>2. ASSUME NEW i \in Ids, engs[i] # NoEngine
        PROVE  /\ Made(engs[i])' /\ def'[i] \in Defs
               /\ ~effectSource => engine[engs[i]].conf = Current(i)'
    BY <1>2, <1>5, <2>2 DEF MapInv, Made
  <2>. QED BY <1>2, <2>1, <2>2 DEF MapInv
<1>7. CallInv'
  <2>. SUFFICES ASSUME NEW c \in Callers, call[c] # Idle
                PROVE  CallOk(c)'
    BY <1>2 DEF CallInv
  <2>1. PICK i \in Ids, e \in Engines \cup {NoEngine} : call[c].id = i /\ call[c].eng = e
    BY CallType
  <2>2. CallOk(c)
    BY DEF CallInv
  <2>3. Starting(c) => def'[i] \in Defs /\ Current(i)' \in call[c].seen
    BY <2>1, <2>2, <1>5, CallOkAt
  <2>. QED BY <1>2, <2>1, <2>2, <2>3 DEF CallOk, Starting, Made, Mapped, Current
<1>8. OrphansExplained'
  BY <1>2 DEF OrphansExplained, Orphans, On, Mapped
<1>. QED BY <1>3, <1>4, <1>6, <1>7, <1>8

\* Starting, stopping, dying and reconnecting: an engine that was made remains
\* what it is, and none gets on that was neither on nor accounted for.
EngineKept ==
  /\ engine' \in [Engines -> Engine \cup {Unused}]
  /\ \A e \in Engines : /\ Made(e) => Made(e)' /\ engine'[e].conf = engine[e].conf
                        /\ On(e)' => On(e) \/ e \in Mapped \cup slipped

LEMMA SwitchKeeps ==
  ASSUME TypeOK, NEW e \in Engines, Made(e), NEW up \in BOOLEAN, NEW timer \in BOOLEAN,
         Switch(e, up, timer), up \/ timer => On(e) \/ e \in Mapped \cup slipped
  PROVE  /\ EngineKept /\ engine'[e].up = up /\ engine'[e].timer = timer
<1>1. /\ engine'[e] = [task |-> engine[e].task, conf |-> engine[e].conf,
                       up |-> up, timer |-> timer]
      /\ \A f \in Engines \ {e} : engine'[f] = engine[f]
  BY DEF Switch, TypeOK
<1>2. /\ engine'[e] \in Engine /\ engine'[e].conf = engine[e].conf
      /\ engine'[e].up = up /\ engine'[e].timer = timer
  BY <1>1 DEF Made, Engine
<1>3. engine' \in [Engines -> Engine \cup {Unused}]
  BY <1>1, <1>2 DEF Switch, TypeOK
<1>. QED BY <1>1, <1>2, <1>3 DEF EngineKept, Made, On

LEMMA HaltKeeps ==
  ASSUME TypeOK, NEW e \in Engines, Made(e), NEW dead \in BOOLEAN, Halt(e, dead)
  PROVE  /\ EngineKept
         /\ On(e)' => ~dead \/ engine[e].timer
<1>1. PICK up \in BOOLEAN, timer \in BOOLEAN :
        up = (Up(e) /\ ~dead) /\ timer = engine[e].timer
  BY EngineType
<1>2. Switch(e, up, timer)
  BY <1>1, Zenon DEF Halt
<1>3. /\ up => engine[e].up /\ ~dead
      /\ timer => engine[e].timer
  BY <1>1 DEF Up
<1>. QED BY <1>2, <1>3, SwitchKeeps DEF On

LEMMA UnchangedKeeps == TypeOK /\ UNCHANGED engine => EngineKept
  BY DEF TypeOK, EngineKept, Made, On

\* What both ways out of Update have in common.
LEMMA UpdateKeeps ==
  ASSUME IInv, NEW id \in Ids, NEW d \in Defs, NEW ok \in BOOLEAN,
         UpdateMemory(id, d, ok), EngineKept,
         slipped \subseteq slipped', slipped' \subseteq Engines,
         \A e \in Engines : engs[id] = e /\ (On(e)' \/ Held(e)) => e \in slipped'
  PROVE  IInv'
<1>. USE DEF IInv
<1>. DEFINE defs == [def EXCEPT ![id] = d]
<1>1. /\ id \in listed /\ Set(id, listed, defs, ok)
      /\ engs' = [engs EXCEPT ![id] = NoEngine]
      /\ UNCHANGED <<effectSource, effect>> /\ Witness({id})
  BY DEF UpdateMemory
<1>2. defs \in [Ids -> Defs \cup {NoDef}] /\ listed \in SUBSET Ids
  BY DEF TypeOK
<1>. HIDE DEF defs
<1>3. /\ AcknowledgedIsStored' /\ listed' = listed /\ def' = defs
      /\ file' \in [Ids -> Defs \cup {NoDef}]
      /\ attempted' \in [Ids -> SUBSET (Defs \cup {NoDef})]
  BY <1>1, <1>2, SetStored
<1>4. /\ def'[id] = d
      /\ \A i \in Ids \ {id} : def'[i] = def[i] /\ Current(i)' = Current(i)
  BY <1>1, <1>3 DEF defs, TypeOK, Current
<1>5. /\ call' \in [Callers -> Call \cup {Idle}]
      /\ \A c \in Callers :
           /\ call'[c] = Idle <=> call[c] = Idle
           /\ call[c] # Idle =>
                /\ call'[c].pc = call[c].pc /\ call'[c].id = call[c].id
                /\ call'[c].eng = call[c].eng
                /\ call[c].seen \subseteq call'[c].seen
           /\ \A i \in Ids : call[c] # Idle /\ Starting(c) /\ call[c].id = i =>
                def'[i] \in Defs /\ Current(i)' \in call'[c].seen
  <2>1. effect' \in Effects /\ {id} \in SUBSET Ids
    BY <1>1 DEF TypeOK
  <2>2. \A i \in Ids : def[i] \in Defs => def'[i] \in Defs
    BY <1>4
  <2>. QED BY <1>1, <1>4, <2>1, <2>2, WitnessKeeps
<1>6. TypeOK'
  BY <1>1, <1>2, <1>3, <1>5 DEF TypeOK, EngineKept
<1>7. \A i \in Ids : engs'[i] = IF i = id THEN NoEngine ELSE engs[i]
  BY <1>1 DEF TypeOK
<1>8. MapInv'
  <2>1. ASSUME NEW i \in Ids, i \in listed'
        PROVE  def'[i] \in Defs
    BY <1>3, <1>4, <2>1 DEF MapInv
  <2>2. ASSUME NEW i \in Ids, NEW e, engs'[i] = e, e # NoEngine
        PROVE  /\ Made(e)' /\ def'[i] \in Defs
               /\ ~effectSource' => engine'[e].conf = Current(i)'
    <3>1. i # id /\ engs[i] = e
      BY <1>7, <2>2
    <3>2. Made(e) /\ e \in Engines
      BY <2>2, <3>1 DEF MapInv, Made
    <3>. QED BY <1>1, <1>4, <2>2, <3>1, <3>2 DEF MapInv, EngineKept
  <2>. QED BY <2>1, <2>2 DEF MapInv
<1>9. CallInv'
  <2>. SUFFICES ASSUME NEW c \in Callers, call'[c] # Idle
                PROVE  CallOk(c)'
    BY DEF CallInv
  <2>1. PICK i \in Ids, e \in Engines \cup {NoEngine} : call[c].id = i /\ call[c].eng = e
    BY <1>5, CallType
  <2>2. CallOk(c)
    BY <1>5 DEF CallInv
  <2>3. call'[c].id = i /\ call'[c].eng = e /\ call'[c].pc = call[c].pc
    BY <1>5, <2>1
  <2>4. e # NoEngine => Made(e)'
    BY <2>1, <2>2 DEF CallOk, EngineKept
  <2>5. Starting(c)' => def'[i] \in Defs /\ Current(i)' \in call'[c].seen
    BY <1>5, <2>1, <2>3 DEF Starting
  <2>6. call'[c].pc = "engine" /\ engs'[i] # NoEngine
          => engine'[engs'[i]].conf \in call'[c].seen
    <3>1. engs'[i] # NoEngine => engs'[i] = engs[i] /\ Made(engs[i])
      BY <1>7 DEF MapInv
    <3>. QED BY <1>5, <2>1, <2>2, <2>3, <3>1 DEF CallOk, EngineKept, Made
  <2>7. ASSUME call'[c].pc = "launch"
        PROVE  Made(e)' /\ engine'[e].conf \in call'[c].seen /\ e \in Mapped' \cup slipped'
    <3>1. Made(e) /\ engine[e].conf \in call[c].seen /\ e \in Mapped \cup slipped
      BY <2>1, <2>2, <2>3, <2>7 DEF CallOk
    <3>2. e \in Engines /\ Held(e)
      BY <2>1, <2>3, <2>7, <3>1 DEF Made, Held
    <3>3. e \in Mapped => e \in Mapped' \cup slipped'
      BY <1>7, <3>2 DEF Mapped
    <3>. QED BY <1>5, <3>1, <3>2, <3>3 DEF EngineKept
  <2>. QED BY <2>3, <2>4, <2>5, <2>6, <2>7 DEF CallOk, Current
<1>10. OrphansExplained'
  <2>. SUFFICES ASSUME NEW e \in Engines, On(e)', e \notin Mapped'
                PROVE  e \in slipped'
    BY DEF OrphansExplained, Orphans
  <2>1. e \in Mapped \/ e \in slipped
    BY DEF EngineKept, OrphansExplained, Orphans
  <2>2. CASE e \in Mapped
    BY <1>7, <2>2 DEF Mapped
  <2>. QED BY <2>1, <2>2
<1>. QED BY <1>3, <1>6, <1>8, <1>9, <1>10

LEMMA UpdateStep == IInv /\ (Update \/ UpdateFails) => IInv'
<1>. USE DEF IInv
<1>1. ASSUME IInv, Update
      PROVE  IInv'
  <2>1. PICK id \in Ids, d \in Defs, dead \in BOOLEAN :
          /\ UpdateMemory(id, d, TRUE)
          /\ IF engs[id] = NoEngine THEN dead /\ UNCHANGED <<engine, slipped>>
             ELSE /\ Halt(engs[id], dead)
                  /\ Slip(engs[id], ~dead \/ engine[engs[id]].timer \/ Held(engs[id]))
    BY <1>1 DEF Update
  <2>2. /\ EngineKept /\ slipped \subseteq slipped' /\ slipped' \subseteq Engines
        /\ \A e \in Engines : engs[id] = e /\ (On(e)' \/ Held(e)) => e \in slipped'
    <3>1. CASE engs[id] = NoEngine
      BY <1>1, <2>1, <3>1, UnchangedKeeps DEF TypeOK
    <3>2. CASE engs[id] # NoEngine
      <4>1. engs[id] \in Engines /\ Made(engs[id])
        BY <1>1, <3>2 DEF MapInv, Made
      <4>. QED BY <1>1, <2>1, <3>2, <4>1, HaltKeeps DEF Slip, TypeOK
    <3>. QED BY <3>1, <3>2
  <2>. QED BY <1>1, <2>1, <2>2, UpdateKeeps
<1>2. ASSUME IInv, UpdateFails
      PROVE  IInv'
  <2>1. PICK id \in Ids, d \in Defs :
          /\ UpdateMemory(id, d, FALSE) /\ UNCHANGED engine
          /\ Slip(engs[id], Startable(engs[id]))
    BY <1>2 DEF UpdateFails
  <2>2. EngineKept
    BY <1>2, <2>1, UnchangedKeeps
  <2>3. /\ slipped \subseteq slipped' /\ slipped' \subseteq Engines
        /\ \A e \in Engines : engs[id] = e /\ (On(e)' \/ Held(e)) => e \in slipped'
    BY <1>2, <2>1 DEF Slip, Startable, TypeOK, On
  <2>. QED BY <1>2, <2>1, <2>2, <2>3, UpdateKeeps
<1>. QED BY <1>1, <1>2

\* A section that leaves the tasks, the map and the effects alone disturbs only
\* the calls it changes.
LEMMA CallsKeep ==
  ASSUME IInv, NEW cs \in SUBSET Callers,
         \A c \in Callers \ cs : call'[c] = call[c],
         listed' \subseteq listed,
         UNCHANGED <<def, engs, effectSource, effect, slipped>>, EngineKept
  PROVE  /\ MapInv' /\ OrphansExplained'
         /\ \A c \in Callers \ cs : call'[c] # Idle => CallOk(c)'
<1>. USE DEF IInv
<1>1. \A i \in Ids : Current(i)' = Current(i)
  BY DEF Current
<1>2. MapInv'
  BY <1>1 DEF MapInv, EngineKept, Made
<1>3. OrphansExplained'
  BY DEF OrphansExplained, Orphans, Mapped, EngineKept
<1>4. ASSUME NEW c \in Callers \ cs, call'[c] # Idle
      PROVE  CallOk(c)'
  <2>1. PICK i \in Ids, e \in Engines \cup {NoEngine} : call[c].id = i /\ call[c].eng = e
    BY <1>4, CallType
  <2>2. CallOk(c) /\ call'[c] = call[c]
    BY <1>4 DEF CallInv
  <2>3. e # NoEngine => Made(e)'
    BY <2>1, <2>2 DEF CallOk, EngineKept
  <2>4. Starting(c)' => def'[i] \in Defs /\ Current(i)' \in call'[c].seen
    BY <1>1, <2>1, <2>2, CallOkAt DEF Starting
  <2>5. call'[c].pc = "engine" /\ engs'[i] # NoEngine
          => engine'[engs'[i]].conf \in call'[c].seen
    BY <2>1, <2>2 DEF CallOk, EngineKept, MapInv, Made
  <2>6. call'[c].pc = "launch" =>
          Made(e)' /\ engine'[e].conf \in call'[c].seen /\ e \in Mapped' \cup slipped'
    BY <2>1, <2>2 DEF CallOk, EngineKept, Made, Mapped
  <2>7. call'[c].id = i /\ call'[c].eng = e
    BY <2>1, <2>2
  <2>. QED BY <2>3, <2>4, <2>5, <2>6, <2>7 DEF CallOk, Current
<1>. QED BY <1>2, <1>3, <1>4

\* Start, Stop and Delete: a call begins.
LEMMA BeginKeeps ==
  ASSUME IInv, NEW c \in Callers, NEW id \in Ids, def[id] \in Defs,
         NEW pc \in {"drop", "engine", "stop", "delete"},
         NEW e \in Engines \cup {NoEngine},
         e = NoEngine \/ e = engs[id], pc = "engine" => ~effectSource,
         call' = [call EXCEPT ![c] = At(pc, id, e)], listed' \subseteq listed,
         UNCHANGED <<def, engs, effectSource, effect, engine, slipped>>
  PROVE  /\ call' \in [Callers -> Call \cup {Idle}]
         /\ MapInv' /\ OrphansExplained' /\ CallInv'
<1>. USE DEF IInv
<1>1. /\ At(pc, id, e) \in Call /\ At(pc, id, e).pc = pc
      /\ At(pc, id, e).id = id /\ At(pc, id, e).eng = e
      /\ At(pc, id, e).seen = {Current(id)}
  BY AtType DEF Steps
<1>2. call'[c] = At(pc, id, e) /\ \A d \in Callers \ {c} : call'[d] = call[d]
  BY DEF TypeOK
<1>3. call' \in [Callers -> Call \cup {Idle}]
  BY <1>1 DEF TypeOK
<1>4. /\ MapInv' /\ OrphansExplained'
      /\ \A d \in Callers \ {c} : call'[d] # Idle => CallOk(d)'
  BY <1>2, UnchangedKeeps, CallsKeep
<1>5. CallOk(c)'
  <2>1. call'[c].pc = pc /\ call'[c].id = id /\ call'[c].eng = e /\ call'[c].seen = {Current(id)}
    BY <1>1, <1>2
  <2>2. e # NoEngine => Made(e)'
    BY DEF MapInv, Made
  <2>3. Current(id)' = Current(id)
    BY DEF Current
  <2>4. pc = "engine" /\ engs[id] # NoEngine => engine[engs[id]].conf = Current(id)
    BY DEF MapInv
  <2>. QED BY <2>1, <2>2, <2>3, <2>4 DEF CallOk, Current
<1>. QED BY <1>3, <1>4, <1>5 DEF CallInv

LEMMA StartStep == \A c \in Callers : IInv /\ (Start(c) \/ StopLookup(c)) => IInv'
<1>. SUFFICES ASSUME NEW c \in Callers, IInv, Start(c) \/ StopLookup(c)
              PROVE  IInv'
  OBVIOUS
<1>. USE DEF IInv
<1>1. UNCHANGED <<taskVars, engs, effectSource, effect, engine, slipped>>
  BY DEF Start, StopLookup
<1>2. PICK id \in Ids, pc \in {"drop", "engine", "stop", "delete"}, e \in Engines \cup {NoEngine} :
        /\ def[id] \in Defs /\ (e = NoEngine \/ e = engs[id])
        /\ pc = "engine" => ~effectSource
        /\ call' = [call EXCEPT ![c] = At(pc, id, e)]
  <2>1. CASE Start(c)
    BY <2>1 DEF Start, MapInv, TypeOK
  <2>2. CASE StopLookup(c)
    <3>1. PICK id \in listed \cup {i \in Ids : engs[i] # NoEngine} :
            call' = [call EXCEPT ![c] = At("stop", id, engs[id])]
      BY <2>2 DEF StopLookup
    <3>2. id \in Ids /\ def[id] \in Defs /\ engs[id] \in Engines \cup {NoEngine}
      BY DEF MapInv, TypeOK
    <3>. QED BY <3>1, <3>2
  <2>. QED BY <2>1, <2>2
<1>3. /\ call' \in [Callers -> Call \cup {Idle}]
      /\ MapInv' /\ OrphansExplained' /\ CallInv'
  <2>1. /\ listed' \subseteq listed
        /\ UNCHANGED <<def, engs, effectSource, effect, engine, slipped>>
    BY <1>1
  <2>. QED BY <1>2, <2>1, BeginKeeps
<1>. QED BY <1>1, <1>3 DEF TypeOK, AcknowledgedIsStored

LEMMA DeleteStep == IInv /\ Delete => IInv'
<1>. SUFFICES ASSUME IInv, Delete
              PROVE  IInv'
  OBVIOUS
<1>. USE DEF IInv
<1>1. PICK c \in Callers, id \in listed, ok \in BOOLEAN :
        /\ Set(id, listed \ {id}, def, ok)
        /\ call' = IF engs[id] = NoEngine THEN call
                   ELSE [call EXCEPT ![c] = At("delete", id, engs[id])]
  BY DEF Delete, TypeOK
<1>2. UNCHANGED <<engs, effectSource, effect, engine, slipped>>
  BY DEF Delete
<1>3. /\ id \in Ids /\ def[id] \in Defs /\ engs[id] \in Engines \cup {NoEngine}
      /\ listed \ {id} \in SUBSET Ids /\ def \in [Ids -> Defs \cup {NoDef}]
  BY DEF MapInv, TypeOK
<1>4. /\ AcknowledgedIsStored' /\ listed' = listed \ {id} /\ def' = def
      /\ file' \in [Ids -> Defs \cup {NoDef}]
      /\ attempted' \in [Ids -> SUBSET (Defs \cup {NoDef})]
  BY <1>1, <1>3, SetStored
<1>5. /\ call' \in [Callers -> Call \cup {Idle}]
      /\ MapInv' /\ OrphansExplained' /\ CallInv'
  <2>1. CASE engs[id] = NoEngine
    <3>1. \A d \in Callers \ {} : call'[d] = call[d]
      BY <1>1, <2>1
    <3>2. /\ MapInv' /\ OrphansExplained'
          /\ \A d \in Callers \ {} : call'[d] # Idle => CallOk(d)'
      BY <1>2, <1>4, <3>1, UnchangedKeeps, CallsKeep
    <3>. QED BY <1>1, <2>1, <3>2 DEF CallInv, TypeOK
  <2>2. CASE engs[id] # NoEngine
    BY <1>1, <1>2, <1>3, <1>4, <2>2, BeginKeeps
  <2>. QED BY <2>1, <2>2
<1>. QED BY <1>2, <1>4, <1>5 DEF TypeOK

\* A call of an engine ends the call; processes and timers act by themselves.
LEMMA EngineStep ==
  ASSUME IInv, EngineKept, NEW cs \in SUBSET Callers,
         \A c \in Callers \ cs : call'[c] = call[c],
         \A c \in cs : call'[c] = Idle,
         call' \in [Callers -> Call \cup {Idle}],
         UNCHANGED <<taskVars, engs, effectSource, effect, slipped>>
  PROVE  IInv'
<1>. USE DEF IInv
<1>1. /\ MapInv' /\ OrphansExplained'
      /\ \A c \in Callers \ cs : call'[c] # Idle => CallOk(c)'
  <2>1. /\ listed' \subseteq listed
        /\ UNCHANGED <<def, engs, effectSource, effect, slipped>>
    OBVIOUS
  <2>. QED BY <2>1, CallsKeep
<1>2. CallInv'
  BY <1>1 DEF CallInv
<1>. QED BY <1>1, <1>2 DEF TypeOK, EngineKept, AcknowledgedIsStored

LEMMA LaunchStep == \A c \in Callers : IInv /\ (Launch(c) \/ StopEngine(c)) => IInv'
<1>. SUFFICES ASSUME NEW c \in Callers, IInv, Launch(c) \/ StopEngine(c)
              PROVE  IInv'
  OBVIOUS
<1>. USE DEF IInv
<1>1. /\ call' = [call EXCEPT ![c] = Idle] /\ call[c] # Idle
      /\ UNCHANGED <<taskVars, engs, effectSource, effect, slipped>>
  BY CallType DEF Launch, StopEngine, Return
<1>2. /\ \A d \in Callers \ {c} : call'[d] = call[d]
      /\ \A d \in {c} : call'[d] = Idle
      /\ call' \in [Callers -> Call \cup {Idle}] /\ {c} \in SUBSET Callers
  BY <1>1 DEF TypeOK
<1>3. PICK e \in Engines \cup {NoEngine} : call[c].eng = e
  BY <1>1, CallType
<1>4. CallOk(c)
  BY <1>1 DEF CallInv
<1>5. EngineKept
  <2>1. CASE Launch(c)
    <3>1. Made(e) /\ e \in Engines /\ e \in Mapped \cup slipped
      BY <1>3, <1>4, <2>1 DEF CallOk, Launch, Made
    <3>2. PICK up \in BOOLEAN : Switch(e, up, engine[e].timer)
      BY <1>3, <2>1 DEF Launch
    <3>3. engine[e].timer \in BOOLEAN
      BY <3>1, EngineType
    <3>. QED BY <3>1, <3>2, <3>3, SwitchKeeps
  <2>2. CASE StopEngine(c)
    <3>1. CASE e = NoEngine
      BY <1>3, <2>2, <3>1, UnchangedKeeps DEF StopEngine
    <3>2. CASE e # NoEngine
      <4>1. Made(e) /\ e \in Engines
        BY <1>3, <1>4, <3>2 DEF CallOk
      <4>2. PICK dead \in BOOLEAN : Halt(e, dead)
        BY <1>3, <2>2, <3>2 DEF StopEngine
      <4>. QED BY <4>1, <4>2, HaltKeeps
    <3>. QED BY <3>1, <3>2
  <2>. QED BY <2>1, <2>2
<1>. QED BY <1>1, <1>2, <1>5, EngineStep

LEMMA ProcessStep == \A e \in Engines : IInv /\ (Exits(e) \/ TimerFires(e)) => IInv'
<1>. SUFFICES ASSUME NEW e \in Engines, IInv, Exits(e) \/ TimerFires(e)
              PROVE  IInv'
  OBVIOUS
<1>. USE DEF IInv
<1>1. UNCHANGED <<taskVars, engs, effectSource, effect, call, slipped>>
  BY DEF Exits, TimerFires
<1>2. /\ \A c \in Callers \ {} : call'[c] = call[c]
      /\ \A c \in {} : call'[c] = Idle
      /\ call' \in [Callers -> Call \cup {Idle}] /\ {} \in SUBSET Callers
  BY <1>1 DEF TypeOK
<1>3. On(e) /\ Made(e)
  BY EngineType DEF On, Up, Exits, TimerFires
<1>4. PICK up \in BOOLEAN, timer \in BOOLEAN : Switch(e, up, timer)
  <2>1. CASE Exits(e)
    <3>1. PICK armed \in BOOLEAN : Switch(e, FALSE, engine[e].timer \/ armed)
      BY <2>1 DEF Exits
    <3>2. PICK timer \in BOOLEAN : timer = (engine[e].timer \/ armed)
      OBVIOUS
    <3>3. Switch(e, FALSE, timer)
      BY <3>1, <3>2, Zenon
    <3>. QED BY <3>3
  <2>2. CASE TimerFires(e)
    BY <2>2 DEF TimerFires
  <2>. QED BY <2>1, <2>2
<1>5. EngineKept
  BY <1>3, <1>4, SwitchKeeps
<1>. QED BY <1>1, <1>2, <1>5, EngineStep

LEMMA DropStep == \A c \in Callers : IInv /\ Drop(c) => IInv'
<1>. SUFFICES ASSUME NEW c \in Callers, IInv, Drop(c)
              PROVE  IInv'
  OBVIOUS
<1>. USE DEF IInv
<1>1. PICK id \in Ids : call[c].id = id
  BY CallType DEF Drop
<1>2. /\ call[c].pc = "drop" /\ call[c] # Idle
      /\ call' = [call EXCEPT ![c].pc = "engine", ![c].eng = NoEngine]
      /\ engs' = [engs EXCEPT ![id] = NoEngine]
      /\ Slip(engs[id], Startable(engs[id]))
      /\ UNCHANGED <<taskVars, effectSource, effect, engine>>
  BY <1>1, CallType DEF Drop, Goto
<1>3. /\ call[c] \in Call /\ call'[c] \in Call
      /\ call'[c].pc = "engine" /\ call'[c].id = id /\ call'[c].eng = NoEngine
      /\ call'[c].seen = call[c].seen
      /\ \A d \in Callers \ {c} : call'[d] = call[d]
      /\ call' \in [Callers -> Call \cup {Idle}]
  <2>1. call[c] \in Call
    BY <1>2, CallType
  <2>2. /\ call'[c].pc = "engine" /\ call'[c].id = id /\ call'[c].eng = NoEngine
        /\ call'[c].seen = call[c].seen /\ call'[c] \in Call
    BY <1>1, <1>2, <2>1 DEF Call, Steps, TypeOK
  <2>. QED BY <1>2, <2>1, <2>2 DEF TypeOK
<1>4. /\ \A i \in Ids : engs'[i] = IF i = id THEN NoEngine ELSE engs[i]
      /\ \A i \in Ids : Current(i)' = Current(i)
  BY <1>2 DEF TypeOK, Current
<1>5. /\ slipped \subseteq slipped' /\ slipped' \subseteq Engines
      /\ \A e \in Engines : e = engs[id] /\ (On(e) \/ Held(e)) => e \in slipped'
  BY <1>2 DEF Slip, Startable, TypeOK
<1>6. TypeOK'
  BY <1>2, <1>3, <1>4, <1>5 DEF TypeOK
<1>7. MapInv'
  BY <1>2, <1>4 DEF MapInv, Made
<1>8. CallInv'
  <2>. SUFFICES ASSUME NEW d \in Callers, call'[d] # Idle
                PROVE  CallOk(d)'
    BY DEF CallInv
  <2>1. CASE d = c
    <3>1. CallOk(c)
      BY <1>2 DEF CallInv
    <3>2. def'[id] \in Defs /\ Current(id)' \in call'[c].seen
      BY <1>1, <1>2, <1>3, <1>4, <3>1 DEF CallOk, Starting
    <3>. QED BY <1>3, <1>4, <2>1, <3>2 DEF CallOk, Current
  <2>2. CASE d # c
    <3>1. CallOk(d) /\ call'[d] = call[d]
      BY <1>3, <2>2 DEF CallInv
    <3>2. PICK i \in Ids, e \in Engines \cup {NoEngine} : call[d].id = i /\ call[d].eng = e
      BY <3>1, CallType
    <3>3. e # NoEngine => Made(e)'
      BY <1>2, <3>1, <3>2 DEF CallOk, Made
    <3>4. Starting(d)' => def'[i] \in Defs /\ Current(i)' \in call'[d].seen
      BY <1>2, <1>4, <3>1, <3>2 DEF CallOk, Starting
    <3>5. call'[d].pc = "engine" /\ engs'[i] # NoEngine
            => engine'[engs'[i]].conf \in call'[d].seen
      BY <1>2, <1>4, <3>1, <3>2 DEF CallOk
    <3>6. ASSUME call'[d].pc = "launch"
          PROVE  Made(e)' /\ engine'[e].conf \in call'[d].seen /\ e \in Mapped' \cup slipped'
      <4>1. Made(e) /\ engine[e].conf \in call[d].seen /\ e \in Mapped \cup slipped
        BY <3>1, <3>2, <3>6 DEF CallOk
      <4>2. e \in Engines /\ Held(e)
        BY <3>1, <3>2, <3>6, <4>1 DEF Made, Held
      <4>3. e \in Mapped => e \in Mapped' \cup slipped'
        BY <1>4, <1>5, <4>2 DEF Mapped
      <4>. QED BY <1>2, <1>5, <3>1, <4>1, <4>3 DEF Made
    <3>7. call'[d].id = i /\ call'[d].eng = e
      BY <3>1, <3>2
    <3>. QED BY <3>3, <3>4, <3>5, <3>6, <3>7 DEF CallOk, Current
  <2>. QED BY <2>1, <2>2
<1>9. OrphansExplained'
  <2>. SUFFICES ASSUME NEW e \in Engines, On(e)', e \notin Mapped'
                PROVE  e \in slipped'
    BY DEF OrphansExplained, Orphans
  <2>1. On(e) /\ (e \in Mapped \/ e \in slipped)
    BY <1>2 DEF On, OrphansExplained, Orphans
  <2>2. CASE e \in Mapped
    BY <1>4, <1>5, <2>1, <2>2 DEF Mapped
  <2>. QED BY <1>5, <2>1, <2>2
<1>. QED BY <1>2, <1>6, <1>7, <1>8, <1>9 DEF AcknowledgedIsStored

LEMMA SetEffectStep == IInv /\ SetEffect => IInv'
<1>. SUFFICES ASSUME IInv, SetEffect
              PROVE  IInv'
  OBVIOUS
<1>. USE DEF IInv
<1>1. /\ effect' \in Effects /\ Witness(Ids)
      /\ UNCHANGED <<def, effectSource, listed, file, attempted, engs, engine, slipped>>
  BY DEF SetEffect
<1>2. /\ call' \in [Callers -> Call \cup {Idle}]
      /\ \A c \in Callers :
           /\ call'[c] = Idle <=> call[c] = Idle
           /\ call[c] # Idle =>
                /\ call'[c].pc = call[c].pc /\ call'[c].id = call[c].id
                /\ call'[c].eng = call[c].eng
                /\ call[c].seen \subseteq call'[c].seen
           /\ \A i \in Ids : call[c] # Idle /\ Starting(c) /\ call[c].id = i =>
                def'[i] \in Defs /\ Current(i)' \in call'[c].seen
  <2>1. /\ Ids \in SUBSET Ids /\ \A i \in Ids : def[i] \in Defs => def'[i] \in Defs
        /\ \A i \in Ids \ Ids : Current(i)' = Current(i)
    BY <1>1
  <2>. QED BY <1>1, <2>1, WitnessKeeps
<1>3. TypeOK'
  BY <1>1, <1>2 DEF TypeOK
<1>4. MapInv'
  BY <1>1 DEF MapInv, Made, Current
<1>5. CallInv'
  <2>. SUFFICES ASSUME NEW c \in Callers, call'[c] # Idle
                PROVE  CallOk(c)'
    BY DEF CallInv
  <2>1. PICK i \in Ids, e \in Engines \cup {NoEngine} : call[c].id = i /\ call[c].eng = e
    BY <1>2, CallType
  <2>2. CallOk(c)
    BY <1>2 DEF CallInv
  <2>3. call'[c].id = i /\ call'[c].eng = e /\ call'[c].pc = call[c].pc
    BY <1>2, <2>1
  <2>4. Starting(c)' => def'[i] \in Defs /\ Current(i)' \in call'[c].seen
    BY <1>2, <2>1, <2>3 DEF Starting
  <2>. QED BY <1>1, <1>2, <2>1, <2>2, <2>3, <2>4 DEF CallOk, Made, Mapped, Current
<1>6. OrphansExplained' /\ AcknowledgedIsStored'
  BY <1>1 DEF OrphansExplained, Orphans, On, Mapped, AcknowledgedIsStored
<1>. QED BY <1>3, <1>4, <1>5, <1>6

\* The engine that is launched is the one in the map: one that was there since
\* the Start has seen what it was made from, or a new one.
LEMMA TaskEngineStep == \A c \in Callers : IInv /\ TaskEngine(c) => IInv'
<1>. SUFFICES ASSUME NEW c \in Callers, IInv, TaskEngine(c)
              PROVE  IInv'
  OBVIOUS
<1>. USE DEF IInv
<1>1. PICK id \in Ids : call[c].id = id
  BY CallType DEF TaskEngine
<1>2. /\ call[c].pc = "engine" /\ call[c] # Idle /\ call[c] \in Call /\ CallOk(c)
      /\ UNCHANGED <<taskVars, effectSource, effect>>
  BY CallType DEF TaskEngine, CallInv
<1>3. def[id] \in Defs /\ Current(id) \in call[c].seen /\ Current(id) \in Conf
  BY <1>1, <1>2, CurrentType DEF CallOk, Starting
<1>4. \A i \in Ids : Current(i)' = Current(i)
  BY <1>2 DEF Current
<1>5. ASSUME NEW e \in Engines, Goto(c, "launch", e)
      PROVE  /\ call'[c] \in Call /\ call'[c].pc = "launch" /\ call'[c].id = id
             /\ call'[c].eng = e /\ call'[c].seen = call[c].seen
             /\ \A d \in Callers \ {c} : call'[d] = call[d]
             /\ call' \in [Callers -> Call \cup {Idle}]
  <2>1. /\ call'[c] \in Call /\ call'[c].pc = "launch" /\ call'[c].id = id
        /\ call'[c].eng = e /\ call'[c].seen = call[c].seen
    BY <1>1, <1>2, <1>5 DEF Call, Steps, Goto, TypeOK
  <2>. QED BY <1>5, <2>1 DEF Goto, TypeOK
<1>6. CASE engs[id] # NoEngine
  <2>1. PICK e \in Engines : e = engs[id] /\ Made(e)
    BY <1>6 DEF MapInv, Made
  <2>2. /\ Goto(c, "launch", e) /\ UNCHANGED <<engs, engine, slipped>>
    BY <1>1, <1>6, <2>1 DEF TaskEngine
  <2>3. TypeOK'
    BY <1>2, <1>5, <2>2 DEF TypeOK
  <2>4. /\ MapInv' /\ OrphansExplained'
        /\ \A d \in Callers \ {c} : call'[d] # Idle => CallOk(d)'
    <3>1. EngineKept
      BY <2>2, UnchangedKeeps
    <3>2. /\ \A d \in Callers \ {c} : call'[d] = call[d]
          /\ listed' \subseteq listed
          /\ UNCHANGED <<def, engs, effectSource, effect, slipped>>
      BY <1>2, <1>5, <2>2
    <3>3. {c} \in SUBSET Callers
      OBVIOUS
    <3>. QED BY <3>1, <3>2, <3>3, CallsKeep
  <2>5. CallOk(c)'
    <3>1. engine[e].conf \in call[c].seen
      BY <1>1, <1>2, <2>1 DEF CallOk
    <3>2. e \in Mapped'
      BY <2>1, <2>2 DEF Mapped
    <3>. QED BY <1>2, <1>3, <1>4, <1>5, <2>1, <2>2, <3>1, <3>2 DEF CallOk, Made, Current
  <2>. QED BY <1>2, <2>3, <2>4, <2>5 DEF CallInv, AcknowledgedIsStored
<1>7. CASE engs[id] = NoEngine
  <2>1. PICK e \in Engines :
          /\ Collected(e) /\ Goto(c, "launch", e)
          /\ engs' = [engs EXCEPT ![id] = e]
          /\ engine' = [engine EXCEPT ![e] =
               [task |-> id, conf |-> Current(id), up |-> FALSE, timer |-> FALSE]]
          /\ slipped' = slipped \ {e}
    BY <1>1, <1>7 DEF TaskEngine
  <2>2. /\ engine'[e] \in Engine /\ engine'[e].conf = Current(id)
        /\ ~engine'[e].up /\ ~engine'[e].timer
        /\ \A f \in Engines \ {e} : engine'[f] = engine[f]
        /\ engine' \in [Engines -> Engine \cup {Unused}]
    <3>1. [task |-> id, conf |-> Current(id), up |-> FALSE, timer |-> FALSE] \in Engine
      BY <1>3 DEF Engine
    <3>. QED BY <2>1, <3>1 DEF TypeOK
  <2>3. /\ engs'[id] = e /\ \A i \in Ids \ {id} : engs'[i] = engs[i]
        /\ engs' \in [Ids -> Engines \cup {NoEngine}]
    BY <2>1 DEF TypeOK
  <2>4. /\ \A i \in Ids : engs[i] # e
        /\ \A d \in Callers : call[d] # Idle => call[d].eng # e
    BY <2>1 DEF Collected, Mapped
  <2>5. TypeOK'
    BY <1>2, <1>5, <2>1, <2>2, <2>3 DEF TypeOK
  <2>6. MapInv'
    <3>1. \A i \in Ids : i \in listed' => def'[i] \in Defs
      BY <1>2 DEF MapInv
    <3>2. ASSUME NEW i \in Ids, NEW f, engs'[i] = f, f # NoEngine
          PROVE  /\ Made(f)' /\ def'[i] \in Defs
                 /\ ~effectSource' => engine'[f].conf = Current(i)'
      <4>1. CASE i = id
        BY <1>2, <1>3, <1>4, <2>2, <2>3, <3>2, <4>1 DEF Made
      <4>2. CASE i # id
        BY <1>2, <1>4, <2>2, <2>3, <2>4, <3>2, <4>2 DEF Made, MapInv
      <4>. QED BY <4>1, <4>2
    <3>. QED BY <3>1, <3>2 DEF MapInv
  <2>7. CallInv'
    <3>. SUFFICES ASSUME NEW d \in Callers, call'[d] # Idle
                  PROVE  CallOk(d)'
      BY DEF CallInv
    <3>1. CASE d = c
      <4>1. e \in Mapped' /\ e # NoEngine
        BY <2>3 DEF Mapped
      <4>. QED BY <1>2, <1>3, <1>4, <1>5, <2>1, <2>2, <3>1, <4>1 DEF CallOk, Made, Current
    <3>2. CASE d # c
      <4>1. CallOk(d) /\ call'[d] = call[d]
        BY <1>5, <2>1, <3>2 DEF CallInv
      <4>2. PICK i \in Ids, f \in Engines \cup {NoEngine} :
              call'[d].id = i /\ call'[d].eng = f /\ f # e
        BY <2>4, <4>1, CallType
      <4>3. f # NoEngine => Made(f)'
        BY <2>2, <4>1, <4>2 DEF CallOk, Made
      <4>4. Starting(d)' => def'[i] \in Defs /\ Current(i)' \in call'[d].seen
        BY <1>2, <1>4, <4>1, <4>2 DEF CallOk, Starting
      <4>5. call'[d].pc = "engine" /\ engs'[i] # NoEngine
              => engine'[engs'[i]].conf \in call'[d].seen
        <5>1. CASE i = id
          BY <1>2, <1>4, <2>2, <2>3, <4>1, <4>2, <5>1 DEF CallOk, Starting
        <5>2. CASE i # id
          BY <2>2, <2>3, <2>4, <4>1, <4>2, <5>2 DEF CallOk, MapInv, Made
        <5>. QED BY <5>1, <5>2
      <4>6. call'[d].pc = "launch" =>
              Made(f)' /\ engine'[f].conf \in call'[d].seen /\ f \in Mapped' \cup slipped'
        <5>1. f \in Mapped => f \in Mapped'
          BY <1>7, <2>3 DEF Mapped
        <5>. QED BY <2>1, <2>2, <4>1, <4>2, <5>1 DEF CallOk, Made
      <4>. QED BY <4>2, <4>3, <4>4, <4>5, <4>6 DEF CallOk, Current
    <3>. QED BY <3>1, <3>2
  <2>8. OrphansExplained'
    <3>. SUFFICES ASSUME NEW f \in Engines, On(f)', f \notin Mapped'
                  PROVE  f \in slipped'
      BY DEF OrphansExplained, Orphans
    <3>1. f # e /\ On(f)
      BY <2>2 DEF On
    <3>2. f \in Mapped => f \in Mapped'
      BY <1>7, <2>3 DEF Mapped
    <3>. QED BY <2>1, <3>1, <3>2 DEF OrphansExplained, Orphans
  <2>. QED BY <1>2, <2>5, <2>6, <2>7, <2>8 DEF AcknowledgedIsStored
<1>. QED BY <1>6, <1>7

-----------------------------------------------------------------------------
(***************************************************************************)
(* The theorems.                                                           *)
(***************************************************************************)

LEMMA InitInv == Init => IInv
<1>. SUFFICES ASSUME Init
              PROVE  IInv
  OBVIOUS
<1>1. TypeOK
  BY DEF Init, TypeOK, Listing
<1>2. MapInv /\ CallInv /\ OrphansExplained /\ AcknowledgedIsStored
  BY DEF Init, MapInv, CallInv, OrphansExplained, Orphans, On, Unused,
         AcknowledgedIsStored, Listing
<1>. QED BY <1>1, <1>2 DEF IInv

LEMMA RestartStep == IInv /\ Restart => IInv'
<1>. SUFFICES ASSUME IInv, Restart
              PROVE  IInv'
  OBVIOUS
<1>. USE DEF IInv
<1>1. TypeOK'
  BY DEF Restart, TypeOK
<1>2. MapInv'
  BY DEF Restart, TypeOK, MapInv
<1>3. CallInv' /\ OrphansExplained' /\ AcknowledgedIsStored'
  BY DEF Restart, TypeOK, CallInv, OrphansExplained, Orphans, On, Unused,
         AcknowledgedIsStored
<1>. QED BY <1>1, <1>2, <1>3

LEMMA StutterStep == IInv /\ UNCHANGED vars => IInv'
<1>. SUFFICES ASSUME IInv, UNCHANGED vars
              PROVE  IInv'
  OBVIOUS
<1>1. EngineKept
  BY UnchangedKeeps DEF IInv, vars
<1>2. /\ \A c \in Callers \ {} : call'[c] = call[c]
      /\ \A c \in {} : call'[c] = Idle
      /\ call' \in [Callers -> Call \cup {Idle}] /\ {} \in SUBSET Callers
      /\ UNCHANGED <<taskVars, engs, effectSource, effect, slipped>>
  BY DEF IInv, TypeOK, vars
<1>. QED BY <1>1, <1>2, EngineStep

\* The invariant that carries the properties below is inductive.
THEOREM Invariance == Spec => []IInv
<1>1. IInv /\ [Next]_vars => IInv'
  <2>. SUFFICES ASSUME IInv, [Next]_vars
                PROVE  IInv'
    OBVIOUS
  <2>1. CASE Requests
    BY <2>1, CreateStep, UpdateStep, DeleteStep DEF Requests
  <2>2. CASE Calls
    BY <2>2, StartStep, DropStep, TaskEngineStep, LaunchStep DEF Calls
  <2>3. CASE Environment
    BY <2>3, ProcessStep, SetEffectStep, RestartStep DEF Environment
  <2>4. CASE UNCHANGED vars
    BY <2>4, StutterStep
  <2>. QED BY <2>1, <2>2, <2>3, <2>4 DEF Next
<1>. QED BY <1>1, InitInv, PTL DEF Spec

\* Every variable keeps its type.
THEOREM TypeCorrect == Spec => []TypeOK
<1>1. IInv => TypeOK
  BY DEF IInv
<1>. QED BY <1>1, Invariance, PTL

\* What a Start launches was made from what its task was while it started: no
\* update, effect change or failed write beside it leaves it a stale engine.
THEOREM NeverStale == Spec => []LaunchesCurrent
<1>1. IInv => LaunchesCurrent
  BY DEF IInv, CallInv, CallOk, LaunchesCurrent
<1>. QED BY <1>1, Invariance, PTL

\* An ffmpeg gets out of reach for the reasons named by Drop, Update and
\* UpdateFails and for no other.
THEOREM NoOtherOrphans == Spec => []OrphansExplained
<1>1. IInv => OrphansExplained
  BY DEF IInv
<1>. QED BY <1>1, Invariance, PTL

\* A change that was acknowledged is in the file until the next one.
THEOREM Durable == Spec => []AcknowledgedIsStored
<1>1. IInv => AcknowledgedIsStored
  BY DEF IInv
<1>. QED BY <1>1, Invariance, PTL
=============================================================================
