------------------------------- MODULE Services -------------------------------
(***************************************************************************)
(* The services of the management API over one document, and the resources *)
(* of the core library, together.                                          *)
(*                                                                         *)
(* Each service keeps collections of the document, under names of its own  *)
(* here; an update of the document is one step (AtomicStore).  A request   *)
(* of one service leaves the collections of the others alone, with one     *)
(* exception: the restore of a snapshot replaces them all, at once, while  *)
(* requests of the others are under way.                                   *)
(***************************************************************************)
EXTENDS Naturals, Sequences, FiniteSets

CONSTANTS MediaIds, Paths, PlaylistIds, TaskIds, CacheIds, SceneIds,
          Editors, MaxDepth, MaxCopies,                          \* Library
          Contents, ConfigTemplateIds, ConfigNames, Admins,
          MaxSnapshots, MaxCreates,                              \* ConfigSnapshots
          NodeIds, NodeNames, InstanceIds, MaxCommands,          \* Fleet
          UserIds, Usernames, Passwords, Clients,
          MaxSessions, MaxLogins,                                \* Accounts
          GroupIds, PolicyIds, RegNames, Outputs, MaxRefs,       \* Registries
          Media, NoMedia, MaxEvents, Limits,                     \* Ledger, Programs
          TagsOf, Duration, Tags, SceneKinds, TemplateIds, TemplateNames,
          RuleIds, SuggestionIds, DeployedIds, PlannedIds, Deployers, Key,
          Resources, Configured, MaxHanded,                      \* ResourceProvider
          IncidentKinds, AlarmIds, SubIds, SubNames, Jobs, MaxRetries,
          MaxHistory, MaxIncidents, MaxFailures,                 \* Incidents
          Tasks, Timings, Calendar, MaxEdits,                    \* Timetable
          MaxSaved,       \* bounds the documents captured
          None

VARIABLES media, playlists, tasks, caches, scenes, edit, stale,
          business, configTemplates, snapshots, createdAt, version,
          nodes, instances, commands, commandDrafts, commandClock,
          users, sessions, loginClock, horizon, client,
          groups, policies,
          events, audit, drafts, auditDrafts, clock,
          mode, list, cursor, history, seek, started, core, finished, slipped,
          library, deployed, planned, sceneNames, templates, rules, suggestions, request,
          alarms, subs, deliveries, callback, jobs, received, incidents, failures,
          timedTasks, now, ticker, tick, sched, loop, edits, seen, fired,
          saved           \* the documents that snapshots have captured

L == INSTANCE Library
C == INSTANCE ConfigSnapshots WITH
       TemplateIds <- ConfigTemplateIds, Names <- ConfigNames, Callers <- Admins,
       templates <- configTemplates
N == INSTANCE Fleet WITH drafts <- commandDrafts, clock <- commandClock
U == INSTANCE Accounts WITH clock <- loginClock
G == INSTANCE Registries
E == INSTANCE Ledger WITH MediaIds <- Media
Q == INSTANCE Programs WITH
       Kinds <- SceneKinds, PlaylistIds <- DeployedIds, TaskIds <- PlannedIds,
       Callers <- Deployers, playlists <- deployed, tasks <- planned, scenes <- sceneNames
R == INSTANCE ResourceProvider
I == INSTANCE Incidents WITH Kinds <- IncidentKinds
T == INSTANCE Timetable WITH tasks <- timedTasks

libVars      == <<media, playlists, tasks, caches, scenes, edit, stale>>
snapVars     == <<business, configTemplates, snapshots, createdAt, version>>
fleetVars    == <<nodes, instances, commands, commandDrafts, commandClock>>
accountVars  == <<users, sessions, loginClock, horizon, client>>
regVars      == <<groups, policies>>
ledgerVars   == <<events, audit, drafts, auditDrafts, clock>>
resVars      == <<mode, list, cursor, history, seek, started, core, finished, slipped>>
programVars  == <<library, deployed, planned, sceneNames, templates, rules, suggestions, request>>
timeVars     == <<timedTasks, now, ticker, tick, sched, loop, edits, seen, fired>>
incidentVars == <<alarms, subs, deliveries, callback, jobs, received, incidents, failures>>

vars == <<libVars, snapVars, fleetVars, accountVars, regVars, ledgerVars, resVars,
          programVars, timeVars, incidentVars, saved>>

-----------------------------------------------------------------------------
(* The document, and the snapshots of it                                   *)
(*                                                                         *)
(* ConfigSnapshots has the steps of Create and Restore and what becomes of *)
(* the snapshots and templates, with the other collections as one value.   *)
(* Here are these, and the two steps at which snapshots and they meet: the *)
(* document is read, and is replaced.  A restore clones its snapshot long  *)
(* before it replaces the document, so a snapshot that is gone by then is  *)
(* still restored: whatever was captured may be.                           *)

\* snapshotPayload: every collection but the snapshots and the templates.
\* (stale is history: which of the items it holds were written late.)
Document ==
  [media |-> media, playlists |-> playlists, tasks |-> tasks, caches |-> caches,
   scenes |-> scenes, stale |-> stale,
   nodes |-> nodes, instances |-> instances, commands |-> commands,
   users |-> users, sessions |-> sessions,
   groups |-> groups, policies |-> policies, events |-> events, audit |-> audit,
   library |-> library, deployed |-> deployed, planned |-> planned,
   sceneNames |-> sceneNames, templates |-> templates, rules |-> rules,
   suggestions |-> suggestions,
   alarms |-> alarms, subs |-> subs, deliveries |-> deliveries, timedTasks |-> timedTasks]
\* What is not in it: requests, callbacks and ticks under way, what they have
\* read, and the history of what happened.
underWay == <<edit, commandDrafts, commandClock, loginClock, horizon, client, drafts, auditDrafts,
              clock, request, callback, jobs, received, incidents, failures,
              now, ticker, tick, sched, loop, edits, seen, fired>>

\* Create copies the document,
Capture == /\ Cardinality(saved) < MaxSaved
           /\ saved' = saved \cup {Document}
           /\ UNCHANGED <<libVars, snapVars, fleetVars, accountVars, regVars, ledgerVars, resVars,
                          programVars, timeVars, incidentVars>>
\* and Restore puts a copy in its place, whatever is under way.
Replaced(d) ==
  /\ media' = d.media /\ playlists' = d.playlists /\ tasks' = d.tasks /\ caches' = d.caches
  /\ scenes' = d.scenes /\ stale' = d.stale
  /\ nodes' = d.nodes /\ instances' = d.instances /\ commands' = d.commands
  /\ users' = d.users /\ sessions' = d.sessions
  /\ groups' = d.groups /\ policies' = d.policies /\ events' = d.events /\ audit' = d.audit
  /\ library' = d.library /\ deployed' = d.deployed /\ planned' = d.planned
  /\ sceneNames' = d.sceneNames /\ templates' = d.templates /\ rules' = d.rules
  /\ suggestions' = d.suggestions
  /\ alarms' = d.alarms /\ subs' = d.subs /\ deliveries' = d.deliveries
  /\ timedTasks' = d.timedTasks
Restore == \E d \in saved :
  /\ Replaced(d)
  /\ UNCHANGED <<underWay, snapVars, resVars, saved>>

\* The steps of the services: one of them moves, or several at once.
Moves == /\ [L!Next]_libVars /\ [C!Next]_snapVars /\ [N!Next]_fleetVars /\ [U!Next]_accountVars
         /\ [G!Next]_regVars /\ [E!Next]_ledgerVars /\ [Q!Next]_programVars
         /\ [R!Next]_resVars /\ [I!Next]_incidentVars /\ [T!Moves]_timeVars
         /\ saved' = saved

Init == /\ L!Init /\ C!Init /\ N!Init /\ U!Init /\ G!Init /\ E!Init /\ Q!Init /\ R!Init
        /\ I!Init /\ T!Init
        /\ saved = {}

Next == Moves \/ Capture \/ Restore

Spec == Init /\ [][Next]_vars

-----------------------------------------------------------------------------
(* What the constants are: None stands for a record, a reference or a name *)
(* that is not there, and the caps are numbers.                            *)

LibraryAssumption ==
  /\ MaxCopies \in Nat /\ MaxDepth \in Nat
  /\ None \notin PlaylistIds
  /\ None \notin Paths \cup L!Playlist \cup L!Task \cup L!Cache \cup (0..MaxCopies)
SnapshotAssumption == MaxSnapshots \in Nat /\ MaxCreates \in Nat
FleetAssumption == MaxCommands \in Nat /\ None \notin N!Node \cup N!Instance \cup N!Command
AccountAssumption == MaxSessions \in Nat /\ MaxLogins \in Nat /\ None \notin U!User

\* A reference that names an output is not blank.
GroupRec == [name : RegNames, outputs : Seq(Outputs)]
RegistryAssumption ==
  /\ IsFiniteSet(PolicyIds) /\ MaxRefs \in Nat
  /\ G!Blank \notin Outputs /\ None \notin GroupRec

\* Media are numbered in the order of the library (the order of Data.Media).
Numbered == Cardinality(Media) \in Nat /\ Media = 1..Cardinality(Media)
LedgerAssumption == /\ MaxEvents \in Nat /\ Limits \subseteq Nat
                    /\ Numbered /\ NoMedia \notin Media
ProgramAssumption ==
  /\ Numbered
  /\ \A m \in SUBSET Media : m # None
  /\ None \notin DeployedIds \cup Q!Template \cup Q!Rule \cup Q!Suggestion

\* The configured list is not empty and names a resource once (ValidateConfig).
Seeks == [at : {"sent", "waits"}, lost : BOOLEAN, to : Resources, index : Nat \ {0}]
ResourceAssumption ==
  /\ Configured \in Seq(Resources) /\ Configured # <<>>
  /\ \A i, j \in DOMAIN Configured : Configured[i] = Configured[j] => i = j
  /\ MaxHanded \in Nat /\ None \notin Resources \cup Seeks

\* At least one attempt and one record (NewWebhookDispatcher).
IncidentAssumption ==
  /\ MaxRetries \in Nat \ {0} /\ MaxHistory \in Nat \ {0}
  /\ MaxIncidents \in Nat /\ MaxFailures \in Nat
  /\ None \notin I!Alarm

\* There is some time, of moments as a calendar has them; an expression is
\* within the ranges of its fields (ParseCron) and an interval is positive
\* (validateTaskSpec).
Fits(parts, min, max) == \A p \in parts :
  /\ p.lo \in min..max /\ p.hi \in min..max /\ p.step \in Nat \ {0}
CronFits(x) == /\ Fits(x.minute, 0, 59) /\ Fits(x.hour, 0, 23) /\ Fits(x.dom, 1, 31)
               /\ Fits(x.month, 1, 12) /\ Fits(x.dow, 0, 7)
Moment == [minute : 0..59, hour : 0..23, day : 1..31, month : 1..12, weekday : 0..6]
Mark == [updated : 1..MaxEdits, at : T!Times]
Plan == [updated : 1..MaxEdits, next : T!Opt(Nat)]
Ticks == [at : T!Times, tasks : [Tasks -> T!Opt(T!Task)]]
TimeAssumption ==
  /\ MaxEdits \in Nat /\ T!LastTime \in Nat
  /\ DOMAIN Calendar \subseteq Nat /\ \A m \in DOMAIN Calendar : Calendar[m] \in Moment
  /\ \A x \in Timings : \/ x.type = "interval" /\ x.interval \in Nat \ {0}
                        \/ x.type = "cron" /\ CronFits(x.cron)
  /\ None \notin Nat /\ None \notin T!Task /\ None \notin Mark /\ None \notin Plan
  /\ None \notin Ticks

ASSUME ServicesAssumption ==
  /\ LibraryAssumption /\ SnapshotAssumption /\ FleetAssumption /\ AccountAssumption
  /\ RegistryAssumption /\ LedgerAssumption /\ ProgramAssumption /\ ResourceAssumption
  /\ IncidentAssumption /\ TimeAssumption

-----------------------------------------------------------------------------
(* The properties of the parts, where they are defined *)

\* Library, Programs, Fleet: what a playlist, a task, a deployment, an approval
\* or an instance refers to exists (media.go, playlist.go, schedule.go,
\* deploy.go, suggestion.go, node.go), after a restore too, in whose middle
\* requests may have been.
ReferencesResolve == L!ReferencesResolve /\ Q!ProgramsResolve /\ N!InstancesHosted

\* ConfigSnapshots, Fleet, Programs: a restore that nothing came between loses
\* no history, and a snapshot reported as stored is there or outrun; a restore
\* is all that undoes the outcome of a command or the decision of a review, or
\* loses a command that has none, and a prune of the commands drops the oldest
\* (config_snapshot.go, remote_command.go, suggestion.go).  That a decision
\* "cannot be undone" (suggestion.go:48) is not so: the document restored may be
\* one from before it.
RecordsKept ==
  /\ C!RestoreKeepsHistory /\ C!CreatedOrOutrun
  /\ [][Restore \/ (N!CommandsFinal /\ N!NewestKept /\ Q!DecisionsFinal)]_vars

\* Ledger: a log loses entries by a restore, which puts another in its place, or
\* by a prune, which drops the oldest and keeps the order of the rest
\* (play_event.go, audit.go).
LogsKept == [][Restore \/ E!PruneKeepsNewest]_vars

\* Accounts: a login that succeeds is open or outrun, and nothing but a restore
\* ends a session before its time (auth.go); a restore ends those opened since
\* its snapshot, and opens again those that were logged out.
SessionsHold == U!LoginOpens /\ [][Restore \/ U!SessionsKept]_vars

\* Incidents: one active alarm per incident, no subscriber passed over in
\* silence, and delivery records that tell what happened (alarm.go, webhook.go),
\* those that a restore brings back included.
IncidentsTold == []I!AlarmsOnce /\ []I!DeliveriesTruthful /\ I!NoneSkipped

\* ResourceProvider: the cursor is at what the core plays, and a loop never
\* stops, unless a seek without a name or a lost answer slipped it
\* (resource/provider).
CursorFollows == R!CursorFollows

\* Timetable: a tick fires exactly what is due, and an expression once in a
\* minute (scheduler.go, cron.go), although a restore may bring back an earlier
\* task under the identifier of a later one.
FiresWhenDue == T!FiresWhenDue /\ T!OncePerMinute
===============================================================================
