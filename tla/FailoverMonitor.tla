--------------------------- MODULE FailoverMonitor ---------------------------
(***************************************************************************)
(* The output failover monitor (src/management/failover.go): the stored    *)
(* failovers, the tick loop, and the belief it keeps of which output of a  *)
(* pair is active. The output provider behind OutputStateReader and        *)
(* FailoverSwitcher is an environment: any output may connect or drop at   *)
(* any time, a read or a switch may fail or panic.                         *)
(*                                                                         *)
(* A tick is cut where the code lets others in: after the connectivity was *)
(* read, after the failovers were read from the store, and at every        *)
(* ActivateOutput. The clock of a tick is the one it began with, so time   *)
(* passes between ticks, and only as far as MaxAge, past every threshold.  *)
(***************************************************************************)
EXTENDS Integers

CONSTANTS
  Ids,         \* failover ids
  Outputs,     \* output uniques
  Specs,       \* the configurations a failover may have
  MaxAge,      \* bound on a measured outage
  NoOutput, NoSpec, NoRuntime

\* OutputFailover; an empty or unknown policy is "automatic".
Spec0 == [primary : Outputs, backup : Outputs, policy : {"automatic", "manual"},
          threshold : 1..MaxAge, enabled : BOOLEAN]

Never == -1   \* the zero time
Ages == {Never} \cup 0..MaxAge

\* failoverRuntime: downFor is the time since primaryDownSince.
Runtime == [active : Outputs, downFor : Ages]

\* validateOutputFailoverSpec: the references differ, the threshold is positive.
ASSUME FailoverAssumption ==
  /\ MaxAge \in Nat
  /\ Specs \subseteq Spec0
  /\ \A c \in Specs : c.primary # c.backup
  /\ NoOutput \notin Outputs /\ NoSpec \notin Spec0 /\ NoRuntime \notin Runtime

VARIABLES
  failovers,   \* the store
  connected,   \* the outputs the provider reports connected
  running,     \* m.running; m.done is closed exactly when it is false
  loop,        \* where the tick loop is
  seen, snap,  \* locals of tick: connectivity, enabled failovers
  todo,        \* the failovers the tick has still to evaluate
  runtime,     \* m.runtime
  live,        \* what ActivateOutput last activated, NoOutput before
  seenDown,    \* history: for how long the ticks have found an output down
  renamed,     \* history: the failovers whose outputs were changed by Update or Restore
  last,        \* history: the configuration a failover has, or had when it was deleted
  forgot       \* history: those whose backup was live when runtime dropped them

tickVars == <<loop, seen, snap, todo>>
histVars == <<live, seenDown, renamed, last, forgot>>
vars == <<failovers, connected, running, tickVars, runtime, histVars>>

-----------------------------------------------------------------------------
Older(age) == IF age = Never \/ age = MaxAge THEN age ELSE age + 1

\* A failover evaluated for the first time is taken to be on its primary.
Fresh(c) == [active |-> c.primary, downFor |-> Never]
Entry(id) == IF runtime[id] = NoRuntime THEN Fresh(snap[id]) ELSE runtime[id]

Enabled == [id \in Ids |->
  IF failovers[id] # NoSpec /\ failovers[id].enabled THEN failovers[id] ELSE NoSpec]
OnBackup(id) == failovers[id] # NoSpec /\ live[id] = failovers[id].backup

Init ==
  /\ failovers = [id \in Ids |-> NoSpec]
  /\ connected \in SUBSET Outputs
  /\ running = FALSE /\ loop = "none"
  /\ seen = {} /\ snap = [id \in Ids |-> NoSpec] /\ todo = {}
  /\ runtime = [id \in Ids |-> NoRuntime]
  /\ live = [id \in Ids |-> NoOutput]
  /\ seenDown = [u \in Outputs |-> Never]
  /\ renamed = {} /\ last = [id \in Ids |-> NoSpec] /\ forgot = {}

-----------------------------------------------------------------------------
(***************************************************************************)
(* The service and the environment.                                        *)
(***************************************************************************)

\* An id is never given out twice: a slot is free when nothing remembers it.
Create(id) ==
  /\ failovers[id] = NoSpec /\ snap[id] = NoSpec /\ runtime[id] = NoRuntime
  /\ \E c \in Specs : /\ failovers' = [failovers EXCEPT ![id] = c]
                      /\ last' = [last EXCEPT ![id] = c]
  /\ live' = [live EXCEPT ![id] = NoOutput]
  /\ renamed' = renamed \ {id} /\ forgot' = forgot \ {id}
  /\ UNCHANGED <<connected, running, tickVars, runtime, seenDown>>

SamePair(c, d) == c.primary = d.primary /\ c.backup = d.backup

\* Update and SetEnabled. Nobody tells the monitor: runtime stays as it is.
Update(id) ==
  /\ failovers[id] # NoSpec
  /\ \E c \in Specs :
       /\ failovers' = [failovers EXCEPT ![id] = c]
       /\ last' = [last EXCEPT ![id] = c]
       /\ renamed' = IF SamePair(c, failovers[id]) THEN renamed ELSE renamed \cup {id}
  /\ UNCHANGED <<connected, running, tickVars, runtime, live, seenDown, forgot>>

Delete(id) ==
  /\ failovers[id] # NoSpec
  /\ failovers' = [failovers EXCEPT ![id] = NoSpec]
  /\ UNCHANGED <<connected, running, tickVars, runtime, histVars>>

\* The restore of a snapshot is an Update or a Delete to a failover that is there.
\* One that was deleted it may bring back, under its identifier, before the
\* monitor has dropped what it knew of it, or after.
Restore(id) ==
  /\ failovers[id] = NoSpec /\ last[id] # NoSpec
  /\ \E c \in Specs :
       /\ failovers' = [failovers EXCEPT ![id] = c]
       /\ last' = [last EXCEPT ![id] = c]
       /\ renamed' = IF SamePair(c, last[id]) THEN renamed ELSE renamed \cup {id}
       /\ forgot' = IF runtime[id] = NoRuntime /\ live[id] = c.backup
                    THEN forgot \cup {id} ELSE forgot
  /\ UNCHANGED <<connected, running, tickVars, runtime, live, seenDown>>

Connectivity ==
  /\ \E u \in Outputs : connected' = IF u \in connected THEN connected \ {u}
                                                        ELSE connected \cup {u}
  /\ UNCHANGED <<failovers, running, tickVars, runtime, histVars>>

Pass ==
  /\ loop \in {"none", "idle"}
  /\ runtime' = [id \in Ids |->
       IF runtime[id] = NoRuntime THEN NoRuntime
       ELSE [runtime[id] EXCEPT !.downFor = Older(@)]]
  /\ seenDown' = [u \in Outputs |-> Older(seenDown[u])]
  /\ UNCHANGED <<failovers, connected, running, tickVars, live, renamed, last, forgot>>

\* Start and Stop take m.mu, which a tick holds while it evaluates. The server
\* starts the monitor again only after Stop has returned.
Start ==
  /\ ~running /\ loop = "none"
  /\ running' = TRUE /\ loop' = "idle"
  /\ runtime' = [id \in Ids |-> NoRuntime]
  /\ forgot' = forgot \cup {id \in Ids : OnBackup(id)}
  /\ UNCHANGED <<failovers, connected, seen, snap, todo, live, seenDown, renamed, last>>

Stop ==
  /\ running /\ loop # "evaluating"
  /\ running' = FALSE
  /\ UNCHANGED <<failovers, connected, tickVars, runtime, histVars>>

LoopExits_AnyTime ==
  /\ loop = "idle"
  /\ loop' = "none"
  /\ UNCHANGED <<failovers, connected, running, seen, snap, todo, runtime, histVars>>

LoopExits ==
  /\ loop = "idle" /\ ~running
  /\ loop' = "none"
  /\ UNCHANGED <<failovers, connected, running, seen, snap, todo, runtime, histVars>>

-----------------------------------------------------------------------------
(***************************************************************************)
(* A tick.                                                                 *)
(***************************************************************************)

\* The reader's snapshot. A tick whose read fails decides nothing and is no
\* step.
Read ==
  /\ loop = "idle"
  /\ loop' = "read" /\ seen' = connected
  /\ seenDown' = [u \in Outputs |->
       IF u \notin connected /\ seenDown[u] = Never THEN 0 ELSE seenDown[u]]
  /\ UNCHANGED <<failovers, connected, running, snap, todo, runtime, live, renamed,
                 last, forgot>>

\* enabledFailovers, and the lock.
Snapshot ==
  /\ loop = "read"
  /\ loop' = "evaluating" /\ snap' = Enabled
  /\ todo' = {id \in Ids : Enabled[id] # NoSpec}
  /\ UNCHANGED <<failovers, connected, running, seen, runtime, histVars>>

\* The disconnect timer: off while the primary is up, and started when it is
\* first found down as the active output.
Timed_NeverStopped(c, rt) ==
  IF rt.active = c.primary /\ rt.downFor = Never /\ c.primary \notin seen
    THEN [rt EXCEPT !.downFor = 0] ELSE rt
Timed(c, rt) ==
  IF c.primary \in seen THEN [rt EXCEPT !.downFor = Never]
  ELSE IF rt.active = c.primary /\ rt.downFor = Never THEN [rt EXCEPT !.downFor = 0]
  ELSE rt

FailOver(c, rt) ==
  c.primary \notin seen /\ rt.active = c.primary /\ rt.downFor >= c.threshold
FailBack_Manual(c, rt) ==
  c.primary \in seen /\ rt.active = c.backup /\ c.policy = "manual"
FailBack(c, rt) ==
  c.primary \in seen /\ rt.active = c.backup /\ c.policy # "manual"
SwitchDue(c, rt) == FailOver(c, rt) \/ FailBack(c, rt)
Target(c) == IF c.primary \in seen THEN c.primary ELSE c.backup

Evaluating(id) == loop = "evaluating" /\ id \in todo
After(id) == Timed(snap[id], Entry(id))

Stay(id) ==
  /\ Evaluating(id) /\ ~SwitchDue(snap[id], After(id))
  /\ runtime' = [runtime EXCEPT ![id] = After(id)]
  /\ todo' = todo \ {id}
  /\ UNCHANGED <<failovers, connected, running, loop, seen, snap, histVars>>

Switch(id) ==
  /\ Evaluating(id) /\ SwitchDue(snap[id], After(id))
  /\ runtime' = [runtime EXCEPT ![id] =
                   [active |-> Target(snap[id]), downFor |-> Never]]
  /\ live' = [live EXCEPT ![id] = Target(snap[id])]
  /\ todo' = todo \ {id}
  /\ UNCHANGED <<failovers, connected, running, loop, seen, snap, seenDown, renamed,
                 last, forgot>>

SwitchFails_Recorded(id) ==
  /\ Evaluating(id) /\ SwitchDue(snap[id], After(id))
  /\ runtime' = [runtime EXCEPT ![id] =
                   [active |-> Target(snap[id]), downFor |-> Never]]
  /\ todo' = todo \ {id}
  /\ UNCHANGED <<failovers, connected, running, loop, seen, snap, histVars>>

\* A failed switch is not recorded, so the next tick tries again.
SwitchFails(id) ==
  /\ Evaluating(id) /\ SwitchDue(snap[id], After(id))
  /\ runtime' = [runtime EXCEPT ![id] = After(id)]
  /\ todo' = todo \ {id}
  /\ UNCHANGED <<failovers, connected, running, loop, seen, snap, histVars>>

\* tickSafely: a panicking switcher ends the tick where it is.
SwitchPanics(id) ==
  /\ Evaluating(id) /\ SwitchDue(snap[id], After(id))
  /\ runtime' = [runtime EXCEPT ![id] = After(id)]
  /\ loop' = "idle" /\ todo' = {} /\ snap' = [i \in Ids |-> NoSpec] /\ seen' = {}
  /\ UNCHANGED <<failovers, connected, running, histVars>>

\* The end of a tick forgets the failovers that are gone or disabled.
Prune ==
  /\ loop = "evaluating" /\ todo = {}
  /\ runtime' = [id \in Ids |-> IF snap[id] = NoSpec THEN NoRuntime ELSE runtime[id]]
  /\ forgot' = forgot \cup {id \in Ids : snap[id] = NoSpec /\ OnBackup(id)}
  /\ seenDown' = [u \in Outputs |-> IF u \in seen THEN Never ELSE seenDown[u]]
  /\ loop' = "idle" /\ snap' = [id \in Ids |-> NoSpec] /\ seen' = {}
  /\ UNCHANGED <<failovers, connected, running, todo, live, renamed, last>>

-----------------------------------------------------------------------------
Service == \E id \in Ids : Create(id) \/ Update(id) \/ Delete(id) \/ Restore(id)

Tick ==
  \/ Read \/ Snapshot \/ Prune
  \/ \E id \in Ids : Stay(id) \/ Switch(id) \/ SwitchFails(id) \/ SwitchPanics(id)

Next == Service \/ Connectivity \/ Pass \/ Start \/ Stop \/ LoopExits \/ Tick

Spec == Init /\ [][Next]_vars

(***************************************************************************)
(* Fairness: the ticker fires and time passes, a tick goes on, and a       *)
(* switch that is tried over and over succeeds in the end.                 *)
(***************************************************************************)
Fairness ==
  /\ SF_vars(Pass) /\ SF_vars(Read) /\ WF_vars(Snapshot) /\ WF_vars(Prune)
  /\ \A id \in Ids : WF_vars(Stay(id)) /\ SF_vars(Switch(id))
  /\ \A id \in Ids : WF_vars(Switch(id) \/ SwitchFails(id) \/ SwitchPanics(id))

FairSpec == Spec /\ Fairness

-----------------------------------------------------------------------------
(***************************************************************************)
(* Properties.                                                             *)
(***************************************************************************)

\* Every variable has its type, and the locals of a tick live as long as it.
TypeOK ==
  /\ failovers \in [Ids -> Specs \cup {NoSpec}]
  /\ connected \subseteq Outputs /\ seen \subseteq Outputs
  /\ running \in BOOLEAN /\ (running => loop # "none")
  /\ loop \in {"none", "idle", "read", "evaluating"}
  /\ snap \in [Ids -> Specs \cup {NoSpec}]
  /\ todo \subseteq {id \in Ids : snap[id] # NoSpec}
  /\ loop # "evaluating" => todo = {} /\ \A id \in Ids : snap[id] = NoSpec
  /\ runtime \in [Ids -> Runtime \cup {NoRuntime}]
  /\ live \in [Ids -> Outputs \cup {NoOutput}]
  /\ seenDown \in [Outputs -> Ages]
  /\ renamed \subseteq Ids /\ forgot \subseteq Ids
  /\ last \in [Ids -> Specs \cup {NoSpec}]
  /\ \A id \in Ids : failovers[id] # NoSpec => last[id] = failovers[id]

\* "Once the disconnect has lasted at least ThresholdSeconds": the monitor
\* gives a primary up only when every tick of the last threshold seconds that
\* ran to its end has found it down. A recovery in between, a restart of the
\* monitor, a panic or a changed threshold never makes it leave early. (Not so
\* when Update or a restore changes the outputs: the timer of the old primary
\* survives.)
SwitchJustified ==
  [][\A id \in Ids \ renamed :
       (/\ runtime[id] # NoRuntime /\ runtime'[id] # NoRuntime
        /\ runtime'[id].active # runtime[id].active
        /\ runtime'[id].active = snap[id].backup)
         => seenDown[snap[id].primary] >= snap[id].threshold]_vars

\* A failover that stays enabled while its primary stays down brings up the
\* backup and keeps it, through failed and panicking switches. (An Update or
\* a restore that changes the outputs leaves the monitor on an output that is
\* neither, where it decides nothing.)
FailsOver ==
  \A id \in Ids, c \in Specs :
    (<>[](/\ running /\ failovers[id] = c /\ c.enabled /\ id \notin renamed
          /\ c.primary \notin connected))
      => <>[](live[id] = c.backup)

\* "When the primary reconnects while the backup is active, an automatic
\* failover switches back" (failover.go:313): a primary that stays up gets its
\* place back. No run has this: after a restart, or a disable and an enable,
\* the monitor takes the primary for active and leaves a live backup in place.
Recovered(id, c) ==
  /\ running /\ failovers[id] = c /\ c.enabled /\ id \notin renamed
  /\ c.policy = "automatic" /\ c.primary \in connected
FailsBack ==
  \A id \in Ids, c \in Specs : (<>[]Recovered(id, c)) => <>[](live[id] # c.backup)

\* It does as long as the monitor has not dropped what it knew of a backup
\* that is live (failover.go:525).
FailsBackRemembered ==
  \A id \in Ids, c \in Specs :
    (<>[](Recovered(id, c) /\ id \notin forgot)) => <>[](live[id] # c.backup)

-----------------------------------------------------------------------------
(***************************************************************************)
(* The inductive invariant behind SwitchJustified.                         *)
(***************************************************************************)

\* The monitor works with the outputs the store has, unless they were changed.
PairInv ==
  \A id \in Ids \ renamed :
    last[id] # NoSpec /\ snap[id] # NoSpec => SamePair(last[id], snap[id])

\* A timer measures no more than the outage.
TimerBacked(c, id) ==
  c # NoSpec /\ runtime[id] # NoRuntime => runtime[id].downFor <= seenDown[c.primary]
TimerInv ==
  \A id \in Ids \ renamed : TimerBacked(last[id], id) /\ TimerBacked(snap[id], id)

\* A tick has noted the outputs it found down, and stopped the timers of the
\* failovers it found up.
TickInv ==
  /\ loop \in {"read", "evaluating"} => \A u \in Outputs \ seen : seenDown[u] >= 0
  /\ \A id \in Ids :
       (snap[id] # NoSpec /\ id \notin todo /\ snap[id].primary \in seen)
         => runtime[id] # NoRuntime /\ runtime[id].downFor = Never

IInv == TypeOK /\ PairInv /\ TimerInv /\ TickInv
=============================================================================
