------------------------------ MODULE Incidents ------------------------------
(***************************************************************************)
(* What happens when something fails: the callbacks that                   *)
(* newManagementHandler gives to the scheduler, the failover monitor and   *)
(* the engine raise an alarm and dispatch a webhook event (src/server/     *)
(* management_api.go); src/management/alarm.go keeps the alarms,           *)
(* webhook.go the subscriptions and the deliveries.                        *)
(*                                                                         *)
(* An update of the store is one step (AtomicStore) that may fail.  A      *)
(* delivery is posted by a goroutine of the dispatch, attempt by attempt;  *)
(* the endpoint may be out of reach, or its answer may be lost or come     *)
(* after the timeout.  An alarm is its level, title and message, here one  *)
(* per kind of incident and one for the dispatcher itself.                 *)
(***************************************************************************)
EXTENDS Naturals, Sequences, FiniteSets, SequencesExt, Lists

CONSTANTS Kinds,          \* of incidents, each with its event
          AlarmIds, SubIds, SubNames,
          Jobs,           \* dispatches under way; bounds how many there are
          MaxRetries,     \* attempts per delivery
          MaxHistory,     \* delivery records kept
          MaxIncidents,   \* bounds the incidents
          MaxFailures,    \* bounds the writes that fail
          None

VARIABLES alarms, subs, deliveries,
          callback,       \* per kind: where its error callback is
          jobs,           \* per dispatch: what its goroutine has left to do
          received,       \* per dispatch and subscription: posts that reached the endpoint
          incidents, failures \* how many there were

incidentVars == <<alarms, subs, deliveries, callback, jobs, received, incidents, failures>>

Has(f) == {x \in DOMAIN f : f[x] # None}
Dispatcher == "dispatcher"
Alarm == [key : Kinds \cup {Dispatcher}, active : BOOLEAN]
Sub == [id : SubIds, name : SubNames, events : SUBSET Kinds, enabled : BOOLEAN]
Record == [job : Jobs, sub : SubIds, ok : BOOLEAN, attempts : 1..MaxRetries]
Free == [at |-> "free"]

TypeOK ==
  /\ alarms \in [AlarmIds -> Alarm \cup {None}]
  /\ subs \in Seq(Sub) /\ deliveries \in Seq(Record) /\ Len(deliveries) <= MaxHistory
  /\ callback \in [Kinds -> {"idle", "raise", "dispatch"}]
  /\ \A j \in Jobs : jobs[j] = Free \/
       /\ jobs[j].at \in {"post", "wait", "record", "report", "over"}
       /\ jobs[j].left \in Seq(SubIds) /\ jobs[j].attempt \in 1..MaxRetries
  /\ received \in [Jobs -> [SubIds -> 0..MaxRetries]]
  /\ incidents \in 0..MaxIncidents /\ failures \in 0..MaxFailures

Init ==
  /\ alarms = [a \in AlarmIds |-> None] /\ subs = <<>> /\ deliveries = <<>>
  /\ callback = [k \in Kinds |-> "idle"] /\ jobs = [j \in Jobs |-> Free]
  /\ received = [j \in Jobs |-> [s \in SubIds |-> 0]]
  /\ incidents = 0 /\ failures = 0

WriteFails == failures < MaxFailures /\ failures' = failures + 1

-----------------------------------------------------------------------------
(* Alarms *)

ActiveAlarms(key) == {a \in Has(alarms) : alarms[a].key = key /\ alarms[a].active}
\* Raise looks for the same active alarm and adds one in one update.
\* Mutant of Raised.
Raised_Again(key) == \E a \in AlarmIds \ Has(alarms) :
  alarms' = [alarms EXCEPT ![a] = [key |-> key, active |-> TRUE]]
Raised(key) ==
  \/ ActiveAlarms(key) # {} /\ UNCHANGED alarms
  \/ /\ ActiveAlarms(key) = {}
     /\ \E a \in AlarmIds \ Has(alarms) :
          alarms' = [alarms EXCEPT ![a] = [key |-> key, active |-> TRUE]]

RestOfAlarms == UNCHANGED <<subs, deliveries, callback, jobs, received, incidents, failures>>
Raise == \E key \in Kinds : Raised(key) /\ RestOfAlarms
Resolve == \E a \in Has(alarms) :
  alarms' = [alarms EXCEPT ![a].active = FALSE] /\ RestOfAlarms
ResolveAll ==
  /\ alarms' = [a \in AlarmIds |-> IF alarms[a] = None THEN None
                                   ELSE [alarms[a] EXCEPT !.active = FALSE]]
  /\ RestOfAlarms
DeleteAlarm == \E a \in Has(alarms) : alarms' = [alarms EXCEPT ![a] = None] /\ RestOfAlarms
\* Prune: the resolved ones that are old enough.
PruneAlarms == \E old \in SUBSET {a \in Has(alarms) : ~alarms[a].active} :
  alarms' = [a \in AlarmIds |-> IF a \in old THEN None ELSE alarms[a]] /\ RestOfAlarms

handleAlarm == Raise \/ Resolve \/ ResolveAll \/ DeleteAlarm \/ PruneAlarms

-----------------------------------------------------------------------------
(* Webhook subscriptions, in document order *)

SetSubs(s) == subs' = s /\ UNCHANGED <<alarms, deliveries, callback, jobs, received, incidents, failures>>
FreeName(n, i) == \A k \in DOMAIN subs \ {i} : subs[k].name # n
CreateSub == \E s \in Sub :
  /\ FreeName(s.name, 0) /\ s.events # {} /\ \A k \in DOMAIN subs : subs[k].id # s.id
  /\ SetSubs(Append(subs, s))
UpdateSub == \E k \in DOMAIN subs, s \in Sub :
  /\ FreeName(s.name, k) /\ s.events # {} /\ s.id = subs[k].id
  /\ SetSubs([subs EXCEPT ![k] = s])
EnableSub == \E k \in DOMAIN subs, e \in BOOLEAN : SetSubs([subs EXCEPT ![k].enabled = e])
DeleteSub == \E k \in DOMAIN subs : SetSubs(RemoveAt(subs, k))

handleWebhook == CreateSub \/ UpdateSub \/ EnableSub \/ DeleteSub

-----------------------------------------------------------------------------
(* The error callbacks *)

Incident(k) ==
  /\ callback[k] = "idle" /\ incidents < MaxIncidents
  /\ callback' = [callback EXCEPT ![k] = "raise"] /\ incidents' = incidents + 1
  /\ UNCHANGED <<alarms, subs, deliveries, jobs, received, failures>>

\* The alarm comes first; that it could not be raised is ignored.
CallbackRaises(k) ==
  /\ callback[k] = "raise"
  /\ callback' = [callback EXCEPT ![k] = "dispatch"]
  /\ \/ Raised(k) /\ UNCHANGED failures
     \/ WriteFails /\ UNCHANGED alarms
  /\ UNCHANGED <<subs, deliveries, jobs, received, incidents>>

\* Dispatch takes the enabled subscriptions to the event and lets a goroutine
\* of its own visit them; with none there is nothing to do.
Targets(k) == Among([i \in DOMAIN subs |-> subs[i].id],
                    {i \in DOMAIN subs : subs[i].enabled /\ k \in subs[i].events})
Job(targets) == [at |-> "post", left |-> targets, attempt |-> 1, ok |-> FALSE]
Dispatch(k) ==
  /\ callback[k] = "dispatch"
  /\ callback' = [callback EXCEPT ![k] = "idle"]
  /\ IF Targets(k) = <<>> THEN UNCHANGED jobs
     ELSE \E j \in Jobs : jobs[j] = Free /\ jobs' = [jobs EXCEPT ![j] = Job(Targets(k))]
  /\ UNCHANGED <<alarms, subs, deliveries, received, incidents, failures>>

-----------------------------------------------------------------------------
(* The goroutine of a dispatch *)

At(j, here) == jobs[j].at = here
Reaches(j) == received' = [received EXCEPT ![j][Head(jobs[j].left)] = @ + 1]

\* One attempt: acknowledged, or not, whether it reached the endpoint or not.
\* Mutant of Post.
Post_StopsEarly(j) ==
  /\ At(j, "post")
  /\ \/ Reaches(j) /\ jobs' = [jobs EXCEPT ![j].at = "record", ![j].ok = TRUE]
     \/ (Reaches(j) \/ UNCHANGED received) /\ jobs' = [jobs EXCEPT ![j].at = "record"]
  /\ UNCHANGED <<alarms, subs, deliveries, callback, incidents, failures>>
Post(j) ==
  /\ At(j, "post")
  /\ \/ Reaches(j) /\ jobs' = [jobs EXCEPT ![j].at = "record", ![j].ok = TRUE]
     \/ /\ Reaches(j) \/ UNCHANGED received
        /\ jobs' = [jobs EXCEPT ![j].at = IF jobs[j].attempt = MaxRetries THEN "record" ELSE "wait"]
  /\ UNCHANGED <<alarms, subs, deliveries, callback, incidents, failures>>

\* Mutant of WaitRetry.
WaitRetry_OnlyLater(j) ==
  /\ At(j, "wait") /\ jobs[j].attempt > 1
  /\ jobs' = [jobs EXCEPT ![j].at = "post", ![j].attempt = @ + 1]
  /\ UNCHANGED <<alarms, subs, deliveries, callback, received, incidents, failures>>
WaitRetry(j) ==
  /\ At(j, "wait")
  /\ jobs' = [jobs EXCEPT ![j].at = "post", ![j].attempt = @ + 1]
  /\ UNCHANGED <<alarms, subs, deliveries, callback, received, incidents, failures>>

NextTarget(j) == LET left == Tail(jobs[j].left)
                 IN IF left = <<>> THEN [jobs[j] EXCEPT !.at = "over", !.left = <<>>]
                    ELSE Job(left)
\* record appends the outcome and rolls the history to the last MaxHistory.
Rolled(s) == IF Len(s) > MaxHistory THEN SubSeq(s, Len(s) - MaxHistory + 1, Len(s)) ELSE s
RecordOutcome(j) ==
  /\ At(j, "record")
  /\ \/ /\ deliveries' = Rolled(Append(deliveries,
              [job |-> j, sub |-> Head(jobs[j].left), ok |-> jobs[j].ok,
               attempts |-> jobs[j].attempt]))
        /\ jobs' = [jobs EXCEPT ![j] = NextTarget(j)]
        /\ UNCHANGED failures
     \/ WriteFails /\ jobs' = [jobs EXCEPT ![j].at = "report"] /\ UNCHANGED deliveries
  /\ UNCHANGED <<alarms, subs, callback, received, incidents>>

\* What could not be recorded becomes an alarm.
\* Mutant of ReportFailure.
ReportFailure_Nowhere(j) ==
  /\ At(j, "report")
  /\ jobs' = [jobs EXCEPT ![j] = NextTarget(j)]
  /\ UNCHANGED <<alarms, subs, deliveries, callback, received, incidents, failures>>
ReportFailure(j) ==
  /\ At(j, "report")
  /\ jobs' = [jobs EXCEPT ![j] = NextTarget(j)]
  /\ \/ Raised(Dispatcher) /\ UNCHANGED failures
     \/ WriteFails /\ UNCHANGED alarms
  /\ UNCHANGED <<subs, deliveries, callback, received, incidents>>

deliver(j) == Post(j) \/ WaitRetry(j) \/ RecordOutcome(j) \/ ReportFailure(j)
Callbacks == \E k \in Kinds : Incident(k) \/ CallbackRaises(k) \/ Dispatch(k)
Deliveries == \E j \in Jobs : deliver(j)

Next == handleAlarm \/ handleWebhook \/ Callbacks \/ Deliveries

Spec == Init /\ [][Next]_incidentVars

\* The goroutines of a dispatch run, and a post ends within the timeout of
\* its client.
Fairness == \A j \in Jobs : WF_incidentVars(deliver(j))

-----------------------------------------------------------------------------
(* Properties *)

\* Whatever callbacks, requests and dispatches raise at the same time, an
\* incident has one active alarm (AlarmService.Raise), and subscriptions keep
\* names of their own.
AlarmsOnce ==
  /\ \A key \in Kinds \cup {Dispatcher} : Cardinality(ActiveAlarms(key)) <= 1
  /\ \A i, k \in DOMAIN subs : subs[i].name = subs[k].name => i = k

\* A record tells what happened: a delivery that succeeded reached its
\* endpoint, one that failed was tried as often as allowed, and no endpoint
\* heard of an incident more often than its record says it was tried (deliver).
DeliveriesTruthful ==
  \A i \in DOMAIN deliveries :
    LET d == deliveries[i] IN
    /\ d.ok => received[d.job][d.sub] > 0
    /\ ~d.ok => d.attempts = MaxRetries
    /\ received[d.job][d.sub] <= d.attempts

\* No subscriber is passed over in silence: its turn ends with a record of
\* its delivery, or with an alarm, unless two writes in a row failed.
NoneSkipped == [][\A j \in Jobs :
  jobs[j] # Free /\ jobs'[j].left # jobs[j].left =>
    \/ /\ deliveries' # <<>>
       /\ Last(deliveries').job = j /\ Last(deliveries').sub = Head(jobs[j].left)
    \/ ActiveAlarms(Dispatcher)' # {}
    \/ failures' = failures + 1]_incidentVars

\* A dispatch visits all its subscribers, however slow those before them are.
DispatchesEnd == \A j \in Jobs : jobs[j] # Free ~> jobs[j].at = "over"
=============================================================================
