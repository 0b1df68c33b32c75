---------------------------- MODULE FailoverProofs ----------------------------
(***************************************************************************)
(* Proofs about the failover monitor (FailoverMonitor), for any number of  *)
(* failovers, outputs and configurations: the monitor never gives a        *)
(* primary up before its threshold.                                        *)
(***************************************************************************)
EXTENDS FailoverMonitor, TLAPS

USE FailoverAssumption
USE DEF tickVars, histVars

\* Ages are integers from -1 on, and getting older keeps their order.
LEMMA AgeType ==
  /\ \A a \in Ages : a \in Int /\ a >= -1 /\ Older(a) \in Ages /\ Older(a) >= a
  /\ Never \in Ages /\ Never = -1 /\ 0 \in Ages
  /\ \A a, b \in Ages : a <= b => Older(a) <= Older(b)
  BY DEF Ages, Never, Older

\* Only the timer of a runtime changes when it is set.
LEMMA RuntimeType ==
  \A rt \in Runtime, a \in Ages :
    /\ [rt EXCEPT !.downFor = a] \in Runtime
    /\ [rt EXCEPT !.downFor = a].active = rt.active
    /\ [rt EXCEPT !.downFor = a].downFor = a
    /\ rt.active \in Outputs /\ rt.downFor \in Ages
  BY DEF Runtime

\* A configuration of the store or of a snapshot.
LEMMA SpecType ==
  \A c \in Specs : /\ c.primary \in Outputs /\ c.backup \in Outputs /\ c.primary # c.backup
                   /\ c.threshold \in Int /\ c.threshold >= 1 /\ c # NoSpec
  BY DEF Spec0

\* What a failover has in runtime once its timer is set.
LEMMA AfterType ==
  ASSUME TypeOK, NEW id \in Ids, Evaluating(id)
  PROVE  /\ snap[id] \in Specs /\ Entry(id) \in Runtime /\ After(id) \in Runtime
         /\ After(id).active = Entry(id).active
         /\ snap[id].primary \in seen => After(id).downFor = Never
         /\ snap[id].primary \notin seen =>
              After(id).downFor = Entry(id).downFor \/ After(id).downFor = 0
         /\ runtime[id] # NoRuntime => Entry(id) = runtime[id]
         /\ runtime[id] = NoRuntime => Entry(id).downFor = Never
<1>1. snap[id] \in Specs
  BY DEF TypeOK, Evaluating
<1>2. Fresh(snap[id]) \in Runtime /\ Fresh(snap[id]).downFor = Never
  BY <1>1, SpecType, AgeType DEF Fresh, Runtime
<1>3. /\ Entry(id) \in Runtime
      /\ runtime[id] # NoRuntime => Entry(id) = runtime[id]
      /\ runtime[id] = NoRuntime => Entry(id).downFor = Never
  BY <1>2 DEF Entry, TypeOK
<1>. QED BY <1>1, <1>3, RuntimeType, AgeType DEF After, Timed

-----------------------------------------------------------------------------
(***************************************************************************)
(* Type correctness.                                                       *)
(***************************************************************************)

\* An evaluation leaves a runtime and takes the failover off the list.
LEMMA EvaluateType ==
  ASSUME TypeOK, NEW id \in Ids, Stay(id) \/ Switch(id) \/ SwitchFails(id) \/ SwitchPanics(id)
  PROVE  TypeOK'
<1>1. /\ snap[id] \in Specs /\ After(id) \in Runtime
      /\ [active |-> Target(snap[id]), downFor |-> Never] \in Runtime
      /\ Target(snap[id]) \in Outputs
  BY AfterType, SpecType, AgeType DEF Stay, Switch, SwitchFails, SwitchPanics, Target, Runtime
<1>2. CASE Stay(id) \/ SwitchFails(id)
  BY <1>1, <1>2 DEF TypeOK, Stay, SwitchFails, Evaluating
<1>3. CASE Switch(id)
  BY <1>1, <1>3 DEF TypeOK, Switch, Evaluating
<1>4. CASE SwitchPanics(id)
  BY <1>1, <1>4 DEF TypeOK, SwitchPanics, Evaluating
<1>. QED BY <1>2, <1>3, <1>4

\* Every step preserves the types.
LEMMA NextType == TypeOK /\ [Next]_vars => TypeOK'
<1> SUFFICES ASSUME TypeOK, [Next]_vars PROVE TypeOK'
  OBVIOUS
<1>1. CASE Service
  BY <1>1 DEF TypeOK, Service, Create, Update, Delete, Restore
<1>2. CASE Connectivity
  BY <1>2 DEF TypeOK, Connectivity
<1>3. CASE Pass
  <2>1. \A id \in Ids : runtime[id] # NoRuntime =>
          [runtime[id] EXCEPT !.downFor = Older(@)] \in Runtime
    <3>1. \A id \in Ids : runtime[id] # NoRuntime => runtime[id] \in Runtime
      BY DEF TypeOK
    <3>2. \A id \in Ids : runtime[id] # NoRuntime => Older(runtime[id].downFor) \in Ages
      BY <3>1, RuntimeType, AgeType
    <3>. QED BY <3>1, <3>2, RuntimeType
  <2>2. runtime' \in [Ids -> Runtime \cup {NoRuntime}]
    BY <1>3, <2>1 DEF Pass
  <2>3. seenDown' \in [Outputs -> Ages]
    BY <1>3, AgeType DEF Pass, TypeOK
  <2>. QED BY <1>3, <2>2, <2>3 DEF TypeOK, Pass
<1>4. CASE Start \/ Stop \/ LoopExits
  <2>1. CASE Start
    <3>1. runtime' \in [Ids -> Runtime \cup {NoRuntime}]
      BY <2>1 DEF Start
    <3>. QED BY <2>1, <3>1 DEF TypeOK, Start
  <2>2. CASE Stop
    BY <2>2 DEF TypeOK, Stop
  <2>3. CASE LoopExits
    BY <2>3 DEF TypeOK, LoopExits
  <2>. QED BY <1>4, <2>1, <2>2, <2>3
<1>5. CASE Read
  <2>1. seenDown' \in [Outputs -> Ages]
    BY <1>5, AgeType DEF Read, TypeOK
  <2>. QED BY <1>5, <2>1 DEF TypeOK, Read
<1>6. CASE Snapshot
  BY <1>6 DEF TypeOK, Snapshot, Enabled
<1>7. CASE Prune
  <2>1. seenDown' \in [Outputs -> Ages]
    BY <1>7, AgeType DEF Prune, TypeOK
  <2>. QED BY <1>7, <2>1 DEF TypeOK, Prune
<1>8. CASE UNCHANGED vars
  BY <1>8 DEF TypeOK, vars
<1>. QED BY <1>1, <1>2, <1>3, <1>4, <1>5, <1>6, <1>7, <1>8, EvaluateType DEF Next, Tick

-----------------------------------------------------------------------------
(***************************************************************************)
(* The timer of the failovers whose outputs were not changed is backed by  *)
(* an outage.                                                              *)
(***************************************************************************)

\* The service and the environment, and the life of the loop.
LEMMA StepOutside ==
  ASSUME IInv, TypeOK', Service \/ Connectivity \/ Start \/ Stop \/ LoopExits
  PROVE  PairInv' /\ TimerInv' /\ TickInv'
<1>1. TypeOK /\ PairInv /\ TimerInv /\ TickInv
  BY DEF IInv
<1>2. CASE \E id \in Ids : Create(id)
  <2>1. PICK id \in Ids, c \in Specs :
          /\ snap[id] = NoSpec /\ runtime[id] = NoRuntime
          /\ last' = [last EXCEPT ![id] = c]
          /\ renamed' = renamed \ {id}
          /\ UNCHANGED <<tickVars, runtime, seenDown>>
    BY <1>2 DEF Create
  <2>2. last'[id] = c /\ \A i \in Ids \ {id} : last'[i] = last[i]
    BY <1>1, <2>1 DEF TypeOK
  <2>3. PairInv'
    BY <1>1, <2>1, <2>2 DEF PairInv
  <2>4. TimerInv'
    BY <1>1, <2>1, <2>2 DEF TimerInv, TimerBacked
  <2>5. TickInv'
    BY <1>1, <2>1 DEF TickInv
  <2>. QED BY <2>3, <2>4, <2>5
<1>3. CASE \E id \in Ids : Update(id) \/ Restore(id)
  <2>1. PICK id \in Ids, c \in Specs :
          /\ last[id] # NoSpec
          /\ last' = [last EXCEPT ![id] = c]
          /\ renamed' = IF SamePair(c, last[id]) THEN renamed ELSE renamed \cup {id}
          /\ UNCHANGED <<tickVars, runtime, seenDown>>
    BY <1>1, <1>3 DEF Update, Restore, TypeOK
  <2>2. last'[id] = c /\ \A i \in Ids \ {id} : last'[i] = last[i]
    BY <1>1, <2>1 DEF TypeOK
  <2>3. PairInv'
    BY <1>1, <2>1, <2>2 DEF PairInv, SamePair
  <2>4. TimerInv'
    BY <1>1, <2>1, <2>2 DEF TimerInv, TimerBacked, SamePair
  <2>5. TickInv'
    BY <1>1, <2>1 DEF TickInv
  <2>. QED BY <2>3, <2>4, <2>5
<1>4. CASE \E id \in Ids : Delete(id)
  BY <1>1, <1>4 DEF Delete, PairInv, TimerInv, TimerBacked, TickInv
<1>5. CASE Connectivity \/ Stop
  BY <1>1, <1>5 DEF PairInv, TimerInv, TimerBacked, TickInv, Connectivity, Stop
<1>6. CASE Start \/ LoopExits
  BY <1>1, <1>6 DEF PairInv, TimerInv, TimerBacked, TickInv, TypeOK, Start, LoopExits
<1>. QED BY <1>2, <1>3, <1>4, <1>5, <1>6 DEF Service

\* Timers and outages get older together.
LEMMA StepPass ==
  ASSUME IInv, Pass PROVE PairInv' /\ TimerInv' /\ TickInv'
<1>1. TypeOK /\ PairInv /\ TimerInv /\ TickInv
  BY DEF IInv
<1>2. \A id \in Ids : /\ runtime'[id] = NoRuntime <=> runtime[id] = NoRuntime
                      /\ runtime[id] # NoRuntime =>
                           /\ runtime'[id].downFor = Older(runtime[id].downFor)
                           /\ runtime[id].downFor \in Ages
  <2>1. ASSUME NEW id \in Ids, runtime[id] # NoRuntime
        PROVE  /\ runtime'[id] # NoRuntime
               /\ runtime'[id].downFor = Older(runtime[id].downFor)
               /\ runtime[id].downFor \in Ages
    <3>1. runtime[id] \in Runtime
      BY <1>1, <2>1 DEF TypeOK
    <3>2. runtime'[id] = [runtime[id] EXCEPT !.downFor = Older(runtime[id].downFor)]
      BY <2>1 DEF Pass
    <3>3. Older(runtime[id].downFor) \in Ages
      BY <3>1, RuntimeType, AgeType
    <3> DEFINE rt == runtime[id]
               age == Older(rt.downFor)
    <3> HIDE DEF rt, age
    <3>4. [rt EXCEPT !.downFor = age] \in Runtime /\ [rt EXCEPT !.downFor = age].downFor = age
      BY <3>1, <3>3, RuntimeType DEF rt, age
    <3>5. runtime'[id] = [rt EXCEPT !.downFor = age]
      BY <3>2 DEF rt, age
    <3>6. runtime'[id] \in Runtime /\ runtime'[id].downFor = age
      BY <3>4, <3>5
    <3>7. runtime[id].downFor \in Ages /\ age = Older(runtime[id].downFor)
      BY <3>1, RuntimeType, AgeType DEF rt, age
    <3>. QED BY <3>6, <3>7
  <2>2. \A id \in Ids : runtime[id] = NoRuntime => runtime'[id] = NoRuntime
    BY DEF Pass
  <2>. QED BY <2>1, <2>2
<1>3. \A u \in Outputs : seenDown'[u] = Older(seenDown[u]) /\ seenDown[u] \in Ages
  BY <1>1 DEF Pass, TypeOK
<1>4. PairInv'
  BY <1>1 DEF PairInv, Pass
<1>5. TimerInv'
  BY <1>1, <1>2, <1>3, AgeType, SpecType DEF TimerInv, TimerBacked, Pass, TypeOK
<1>6. TickInv'
  BY <1>1 DEF TickInv, Pass, TypeOK
<1>. QED BY <1>4, <1>5, <1>6

\* A read starts the outages it finds; the snapshot takes what the store has.
LEMMA StepReadSnapshot ==
  ASSUME IInv, Read \/ Snapshot PROVE PairInv' /\ TimerInv' /\ TickInv'
<1>1. TypeOK /\ PairInv /\ TimerInv /\ TickInv
  BY DEF IInv
<1>2. CASE Read
  <2>1. \A u \in Outputs : /\ seenDown'[u] \in Int /\ seenDown[u] \in Int
                           /\ seenDown'[u] >= seenDown[u]
                           /\ u \notin seen' => seenDown'[u] >= 0
    BY <1>1, <1>2 DEF Read, TypeOK, Ages, Never
  <2>2. \A id \in Ids : runtime[id] # NoRuntime => runtime[id].downFor \in Int
    <3>1. \A id \in Ids : runtime[id] # NoRuntime => runtime[id] \in Runtime
      BY <1>1 DEF TypeOK
    <3>. QED BY <3>1, RuntimeType, AgeType
  <2>3. TimerInv'
    BY <1>1, <1>2, <2>1, <2>2, SpecType DEF TimerInv, TimerBacked, Read, TypeOK
  <2>4. TickInv'
    BY <1>1, <1>2, <2>1 DEF TickInv, Read, TypeOK
  <2>. QED BY <1>1, <1>2, <2>3, <2>4 DEF PairInv, Read
<1>3. CASE Snapshot
  <2>1. \A id \in Ids : snap'[id] # NoSpec => snap'[id] = last[id] /\ id \in todo'
    BY <1>1, <1>3 DEF Snapshot, Enabled, TypeOK
  <2>2. PairInv'
    BY <1>1, <1>3, <2>1 DEF PairInv, Snapshot, SamePair
  <2>3. TimerInv'
    BY <1>1, <1>3, <2>1 DEF TimerInv, TimerBacked, Snapshot
  <2>4. TickInv'
    BY <1>1, <1>3, <2>1 DEF TickInv, Snapshot
  <2>. QED BY <2>2, <2>3, <2>4
<1>. QED BY <1>2, <1>3

\* The timer an evaluation leaves is backed as the one it found was.
LEMMA AfterBacked ==
  ASSUME IInv, NEW id \in Ids, Evaluating(id), NEW c \in Specs,
         id \notin renamed, c = last[id] \/ c = snap[id]
  PROVE  After(id).downFor <= seenDown[c.primary]
<1>1. TypeOK /\ PairInv /\ TimerInv /\ TickInv /\ loop = "evaluating"
  BY DEF IInv, Evaluating
<1>2. c.primary = snap[id].primary /\ c.primary \in Outputs
  BY <1>1, AfterType, SpecType DEF PairInv, SamePair
<1>3. seenDown[c.primary] \in Int /\ seenDown[c.primary] >= -1
  BY <1>1, <1>2, AgeType DEF TypeOK
<1>4. runtime[id] # NoRuntime => runtime[id].downFor <= seenDown[c.primary]
  BY <1>1, SpecType DEF TimerInv, TimerBacked
<1>5. c.primary \notin seen => seenDown[c.primary] >= 0
  BY <1>1, <1>2 DEF TickInv
<1>. QED BY <1>1, <1>2, <1>3, <1>4, <1>5, AfterType, AgeType

\* An evaluation.
LEMMA StepEvaluate ==
  ASSUME IInv, NEW id \in Ids, Stay(id) \/ Switch(id) \/ SwitchFails(id) \/ SwitchPanics(id)
  PROVE  PairInv' /\ TimerInv' /\ TickInv'
<1>1. TypeOK /\ PairInv /\ TimerInv /\ TickInv /\ Evaluating(id)
  BY DEF IInv, Stay, Switch, SwitchFails, SwitchPanics
<1>2. PICK rt \in Runtime :
        /\ runtime' = [runtime EXCEPT ![id] = rt]
        /\ rt.downFor = After(id).downFor \/ rt.downFor = Never
        /\ snap[id].primary \in seen => rt.downFor = Never
  <2>1. /\ After(id) \in Runtime
        /\ [active |-> Target(snap[id]), downFor |-> Never] \in Runtime
    BY <1>1, AfterType, SpecType, AgeType DEF Target, Runtime
  <2>. QED BY <1>1, <2>1, AfterType DEF Stay, Switch, SwitchFails, SwitchPanics
<1>3. runtime'[id] = rt /\ rt # NoRuntime /\ \A i \in Ids \ {id} : runtime'[i] = runtime[i]
  BY <1>1, <1>2 DEF TypeOK
<1>4. /\ last' = last /\ seenDown' = seenDown /\ renamed' = renamed
      /\ \A i \in Ids : snap'[i] = snap[i] \/ snap'[i] = NoSpec
  BY <1>1 DEF Stay, Switch, SwitchFails, SwitchPanics
<1>5. \A c \in Specs : (id \notin renamed /\ (c = last[id] \/ c = snap[id]))
                         => rt.downFor <= seenDown[c.primary]
  BY <1>1, <1>2, AfterBacked, AgeType, SpecType DEF TypeOK
<1>6. PairInv'
  BY <1>1, <1>4 DEF PairInv
<1>7. TimerInv'
  BY <1>1, <1>3, <1>4, <1>5 DEF TimerInv, TimerBacked, TypeOK
<1>8. TickInv'
  <2>1. CASE SwitchPanics(id)
    BY <1>1, <2>1 DEF TickInv, SwitchPanics
  <2>2. CASE Stay(id) \/ Switch(id) \/ SwitchFails(id)
    <3>1. todo' = todo \ {id} /\ UNCHANGED <<loop, seen, snap>>
      BY <2>2 DEF Stay, Switch, SwitchFails
    <3>. QED BY <1>1, <1>2, <1>3, <1>4, <3>1 DEF TickInv
  <2>. QED BY <2>1, <2>2
<1>. QED BY <1>6, <1>7, <1>8

\* The end of a tick: the outages of the outputs it found up are over, and so
\* are their timers.
LEMMA StepPrune ==
  ASSUME IInv, Prune PROVE PairInv' /\ TimerInv' /\ TickInv'
<1>1. TypeOK /\ PairInv /\ TimerInv /\ TickInv
  BY DEF IInv
<1>2. /\ PairInv' /\ TickInv'
      /\ \A id \in Ids : snap'[id] = NoSpec
  BY <1>1 DEF PairInv, TickInv, Prune
<1>3. ASSUME NEW id \in Ids \ renamed, last[id] # NoSpec, runtime'[id] # NoRuntime
      PROVE  runtime'[id].downFor <= seenDown'[last[id].primary]
  <2>1. /\ snap[id] # NoSpec /\ runtime'[id] = runtime[id] /\ runtime[id] # NoRuntime
        /\ last[id] \in Specs /\ last[id].primary \in Outputs
        /\ last[id].primary = snap[id].primary
    BY <1>1, <1>3, SpecType DEF Prune, PairInv, SamePair, TypeOK
  <2>2. CASE last[id].primary \in seen
    <3>1. runtime[id].downFor = Never
      BY <1>1, <2>1, <2>2 DEF TickInv, Prune
    <3>2. seenDown'[last[id].primary] = Never
      BY <2>1, <2>2 DEF Prune
    <3>. QED BY <2>1, <3>1, <3>2, AgeType
  <2>3. CASE last[id].primary \notin seen
    BY <1>1, <1>3, <2>1, <2>3 DEF TimerInv, TimerBacked, Prune
  <2>. QED BY <2>2, <2>3
<1>4. TimerInv'
  BY <1>2, <1>3 DEF TimerInv, TimerBacked, Prune
<1>. QED BY <1>2, <1>4

\* The initial states satisfy the invariant.
LEMMA InitIInv == Init => IInv
<1> SUFFICES ASSUME Init PROVE IInv
  OBVIOUS
<1>1. /\ failovers \in [Ids -> Specs \cup {NoSpec}] /\ snap \in [Ids -> Specs \cup {NoSpec}]
      /\ runtime \in [Ids -> Runtime \cup {NoRuntime}]
      /\ live \in [Ids -> Outputs \cup {NoOutput}] /\ seenDown \in [Outputs -> Ages]
      /\ last \in [Ids -> Specs \cup {NoSpec}]
  BY AgeType DEF Init
<1>2. \A id \in Ids : last[id] = NoSpec /\ failovers[id] = NoSpec /\ snap[id] = NoSpec /\ runtime[id] = NoRuntime
  BY DEF Init
<1>3. TypeOK
  BY <1>1, <1>2 DEF Init, TypeOK
<1>4. PairInv /\ TimerInv /\ TickInv
  BY <1>2 DEF Init, PairInv, TimerInv, TimerBacked, TickInv
<1>. QED BY <1>3, <1>4 DEF IInv

\* Every step preserves it.
LEMMA NextIInv == IInv /\ [Next]_vars => IInv'
<1> SUFFICES ASSUME IInv, [Next]_vars PROVE IInv'
  OBVIOUS
<1>1. TypeOK'
  BY NextType DEF IInv
<1>2. CASE UNCHANGED vars
  BY <1>1, <1>2 DEF IInv, PairInv, TimerInv, TimerBacked, TickInv, vars
<1>. QED BY <1>1, <1>2, StepOutside, StepPass, StepReadSnapshot, StepEvaluate, StepPrune
         DEF IInv, Next, Tick

\* The inductive invariant holds of every behaviour of the monitor.
THEOREM Invariance == Spec => []IInv
BY InitIInv, NextIInv, PTL DEF Spec

\* Type correctness.
THEOREM TypeCorrect == Spec => []TypeOK
BY Invariance, PTL DEF IInv

\* A step that moves a failover to its backup is a switch that is due.
LEMMA SwitchStep ==
  ASSUME IInv, [Next]_vars, NEW id \in Ids \ renamed,
         runtime[id] # NoRuntime, runtime'[id] # NoRuntime,
         runtime'[id].active # runtime[id].active,
         runtime'[id].active = snap[id].backup
  PROVE  seenDown[snap[id].primary] >= snap[id].threshold
<1>1. TypeOK
  BY DEF IInv
<1>2. runtime[id] \in Runtime
  BY <1>1 DEF TypeOK
<1>3. CASE Service \/ Connectivity \/ Stop \/ LoopExits \/ Read \/ Snapshot \/ UNCHANGED vars
  BY <1>3 DEF Service, Create, Update, Delete, Restore, Connectivity, Stop, LoopExits, Read, Snapshot, vars
<1>4. CASE Pass
  BY <1>1, <1>2, <1>4, RuntimeType, AgeType DEF Pass
<1>5. CASE Start \/ Prune
  BY <1>5 DEF Start, Prune
<1>6. ASSUME NEW i \in Ids, Stay(i) \/ SwitchFails(i) \/ SwitchPanics(i)
      PROVE  FALSE
  <2>1. Evaluating(i) /\ runtime' = [runtime EXCEPT ![i] = After(i)]
    BY <1>6 DEF Stay, SwitchFails, SwitchPanics
  <2>. QED BY <1>1, <2>1, AfterType DEF TypeOK
<1>7. ASSUME NEW i \in Ids, Switch(i)
      PROVE  seenDown[snap[id].primary] >= snap[id].threshold
  <2>1. /\ i = id /\ Evaluating(id) /\ SwitchDue(snap[id], After(id))
        /\ runtime'[id].active = Target(snap[id])
    BY <1>1, <1>7 DEF Switch, TypeOK
  <2>2. snap[id] \in Specs /\ After(id) \in Runtime
    BY <1>1, <2>1, AfterType
  <2>3. snap[id].primary \notin seen /\ After(id).downFor >= snap[id].threshold
    BY <2>1, <2>2, SpecType DEF SwitchDue, FailOver, FailBack, Target
  <2>4. After(id).downFor <= seenDown[snap[id].primary]
    BY <2>1, <2>2, AfterBacked
  <2>5. After(id).downFor \in Int /\ seenDown[snap[id].primary] \in Int
        /\ snap[id].threshold \in Int
    BY <1>1, <2>2, RuntimeType, AgeType, SpecType DEF TypeOK
  <2>. QED BY <2>3, <2>4, <2>5
<1>. QED BY <1>3, <1>4, <1>5, <1>6, <1>7 DEF Next, Tick

\* The monitor never gives a primary up before the outage has lasted the
\* threshold, however reads, ticks, restarts, panics and updates interleave.
THEOREM NeverEarly == Spec => SwitchJustified
<1>1. IInv /\ [Next]_vars =>
        [\A id \in Ids \ renamed :
           (/\ runtime[id] # NoRuntime /\ runtime'[id] # NoRuntime
            /\ runtime'[id].active # runtime[id].active
            /\ runtime'[id].active = snap[id].backup)
             => seenDown[snap[id].primary] >= snap[id].threshold]_vars
  BY SwitchStep
<1>. QED BY <1>1, Invariance, PTL DEF Spec, SwitchJustified
=============================================================================
