------------------------------ MODULE MCServices ------------------------------
(***************************************************************************)
(* The services of the management API, in one run (Services).              *)
(*                                                                         *)
(* No two of them have a step in common but the restore of a snapshot,     *)
(* which does to each what it does to its own collections, so a behaviour  *)
(* is one of a single part, chosen at the start.  A service with many      *)
(* collections is several parts, each of which moves those that bear on    *)
(* one another.                                                            *)
(***************************************************************************)
EXTENDS Services

CONSTANTS m2, q2, q3      \* a media and two playlists of the library

VARIABLES part

\* The first media is news; the second is live and longer than a rule allows.
MCTagsOf == [m \in {1, 2} |-> IF m = 1 THEN {"news"} ELSE {"live"}]
MCDuration == [m \in {1, 2} |-> IF m = 2 THEN 2 ELSE 0]
MCConfigured == <<"x", "y">>

\* Four minutes, the first two on a Sunday the 1st, the others on the day after.
MCCalendar == [m \in 0..3 |-> [minute |-> m, hour |-> 0, day |-> 1 + m \div 2, month |-> 1,
                              weekday |-> m \div 2]]
\* Every three half minutes; "*/2 * * * *", "* * 2 * 7" and "* * * * 7".
Each == [minute |-> {}, hour |-> {}, dom |-> {}, month |-> {}, dow |-> {}]
Parts(lo, hi, step) == {[lo |-> lo, hi |-> hi, step |-> step]}
Alternate == [type |-> "cron", cron |-> [Each EXCEPT !.minute = Parts(0, 59, 2)]]
MCTimings ==
  {[type |-> "interval", interval |-> 3],
   Alternate,
   [type |-> "cron", cron |-> [Each EXCEPT !.dom = Parts(2, 2, 1), !.dow = Parts(7, 7, 1)]],
   [type |-> "cron", cron |-> [Each EXCEPT !.dow = Parts(7, 7, 1)]]}

-----------------------------------------------------------------------------
(* The parts *)

LibraryParts  == {"references", "fallbacks", "items", "caches"}
FleetParts    == {"hosts", "commands"}
RegistryParts == {"groups", "policies"}
LedgerParts   == {"plays", "audit"}
ProgramParts  == {"deploy", "rules", "review"}
IncidentParts == {"alarms", "hooks", "deliver"}

\* References: two playlists, one media and a task.  Fallbacks: three
\* playlists.  Items: one playlist, two media and a task.
LibraryMoves ==
  /\ \/ /\ part = "references"
        /\ L!handleMedia \/ L!handlePlaylist \/ L!handleTask \/ L!SetItems
        /\ media'[m2] = None /\ playlists'[q3] = None
     \/ /\ part = "fallbacks"
        /\ L!handleMedia \/ L!handlePlaylist
        /\ media'[m2] = None
     \/ /\ part = "items"
        /\ L!handleMedia \/ L!handlePlaylist \/ L!handleTask \/ L!SetItems
        /\ playlists'[q2] = None /\ playlists'[q3] = None
     \/ part = "caches" /\ (L!handleMedia \/ L!handleCacheTask \/ L!handleSceneTemplate)
  /\ UNCHANGED <<part, saved, timeVars, resVars, snapVars, fleetVars, accountVars, regVars, ledgerVars, programVars, incidentVars>>

SnapshotMoves ==
  /\ part = "snapshots" /\ C!Next
  /\ UNCHANGED <<part, saved, timeVars, resVars, libVars, fleetVars, accountVars, regVars, ledgerVars, programVars, incidentVars>>
FleetMoves ==
  /\ \/ part = "hosts" /\ (N!handleNode \/ N!handleInstance)
     \/ part = "commands" /\ (N!handleNode \/ N!handleRemoteCommand)
  /\ UNCHANGED <<part, saved, timeVars, resVars, libVars, snapVars, accountVars, regVars, ledgerVars, programVars, incidentVars>>
\* Once a document is captured, the users stay.
AccountMoves ==
  /\ part = "accounts" /\ U!Next
  /\ saved # {} => UNCHANGED users
  /\ UNCHANGED <<part, saved, timeVars, resVars, libVars, snapVars, fleetVars, regVars, ledgerVars, programVars, incidentVars>>
RegistryMoves ==
  /\ \/ part = "groups" /\ G!handleOutputGroup
     \/ part = "policies" /\ G!handleHealthPolicy
  /\ UNCHANGED <<part, saved, timeVars, resVars, libVars, snapVars, fleetVars, accountVars, ledgerVars, programVars, incidentVars>>
LedgerMoves ==
  /\ \/ part = "plays" /\ E!Playback
     \/ part = "audit" /\ E!handleAudit
  /\ UNCHANGED <<part, saved, timeVars, resVars, libVars, snapVars, fleetVars, accountVars, regVars, programVars, incidentVars>>

\* Deployments have one media in the library; a parameter may name the other.
\* Once a document is captured, the templates stay.
Others == Q!AddMedia \/ Q!DeleteMedia \/ Q!DeletePlaylist \/ Q!DeleteTask \/ Q!DeleteScene
ProgramMoves ==
  /\ \/ /\ part = "deploy"
        /\ (Q!handleIndustryTemplate \/ Others)
        /\ library' \subseteq {1}
        /\ templates'["t"] # None => templates'["t"].entries \subseteq {1, Key}
        /\ saved # {} => UNCHANGED templates
     \/ part = "rules" /\ (Q!handleSmartRule \/ Others)
     \/ part = "review" /\ (Q!handleSuggestion \/ Others)
  /\ UNCHANGED <<part, saved, timeVars, resVars, libVars, snapVars, fleetVars, accountVars, regVars, ledgerVars, incidentVars>>

\* Alarms and subscriptions are edited while callbacks come; deliveries start
\* from two subscriptions, with the engine failing first.
IncidentMoves ==
  /\ \/ part = "alarms" /\ (I!handleAlarm \/ I!Callbacks)
     \/ part = "hooks" /\ (I!handleWebhook \/ I!Callbacks) /\ incidents' <= 1
     \/ /\ part = "deliver" /\ (I!Deliveries \/ I!Callbacks)
        /\ callback'["engine"] = "raise" => incidents' = 1
        /\ callback'["output"] = "raise" => incidents' = 2
  /\ UNCHANGED <<part, saved, timeVars, resVars, libVars, snapVars, fleetVars, accountVars, regVars, ledgerVars, programVars>>

\* Behaviours end where the property has nothing more to say.
ResourceMoves ==
  /\ part = "resources" /\ ~slipped /\ R!Next
  /\ UNCHANGED <<part, saved, timeVars, libVars, snapVars, fleetVars, accountVars, regVars, ledgerVars, programVars, incidentVars>>

TimeMoves ==
  /\ part = "timetable" /\ T!Moves
  /\ UNCHANGED <<part, saved, resVars, libVars, snapVars, fleetVars, accountVars, regVars, ledgerVars, programVars, incidentVars>>

\* The documents that are captured are few: what is restored is one of them,
\* whatever has become of the requests that were under way.
Captured ==
  \/ /\ part = "references" /\ Cardinality(L!Has(playlists)) = 1 /\ L!Has(tasks) = {}
     /\ L!Has(media) = {} /\ playlists[q2] = None /\ stale = {}
  \/ /\ part = "hosts" /\ Cardinality(N!Has(instances)) = 1
     /\ \A n \in N!Has(nodes) : nodes[n] = [name |-> "x", status |-> "unknown", seen |-> FALSE]
     /\ \A i \in N!Has(instances) : instances[i].status = "unknown"
  \/ /\ part = "commands" /\ N!Has(nodes) = {} /\ N!Has(commands) = {1}
     /\ commands[1].status = "pending"
  \/ /\ part = "accounts" /\ sessions = {[at |-> 1, user |-> "u"]} /\ users["v"] = None
     /\ users["u"] = [name |-> "x", password |-> "p", enabled |-> TRUE]
  \/ part = "groups" /\ Cardinality(G!Present) = 1
  \/ part \in {"plays", "audit", "review"}
  \/ /\ part = "deploy" /\ library = {1} /\ sceneNames = {}
     /\ templates["t"] = [name |-> "x", entries |-> {1}, kinds |-> SceneKinds, task |-> TRUE]
     /\ deployed["p"] = {1} /\ deployed["q"] = None /\ planned["k"] = "p"
  \/ /\ part = "alarms" /\ Cardinality(I!Has(alarms)) = 1
     /\ \A a \in I!Has(alarms) : alarms[a] = [key |-> "engine", active |-> TRUE]
  \/ /\ part = "deliver" /\ incidents = 1 /\ I!Has(alarms) = {}
     /\ \E i \in DOMAIN deliveries : deliveries[i].sub = "s1" /\ ~deliveries[i].ok
  \/ /\ part = "timetable"
     /\ \A t \in Tasks : timedTasks[t] = [timing |-> Alternate, enabled |-> TRUE, updated |-> 1]
MCCapture == Captured /\ Capture /\ UNCHANGED part
MCRestore == Restore /\ UNCHANGED part

MCNext == \/ LibraryMoves \/ SnapshotMoves \/ FleetMoves \/ AccountMoves
          \/ RegistryMoves \/ LedgerMoves \/ ProgramMoves \/ IncidentMoves \/ ResourceMoves \/ TimeMoves
          \/ MCCapture \/ MCRestore

MCInit ==
  /\ part \in LibraryParts \cup FleetParts \cup RegistryParts \cup LedgerParts \cup ProgramParts
             \cup IncidentParts \cup {"snapshots", "accounts", "resources", "timetable"}
  /\ L!Init /\ C!Init /\ (part # "snapshots" => business = "x")
  /\ N!Init /\ U!Init /\ G!Init /\ E!Init /\ Q!Init /\ T!Init
  /\ saved = {}
  /\ R!Init /\ (part # "resources" => mode = "list" /\ cursor = 1)
  /\ IF part = "deliver"
     THEN /\ subs = <<[id |-> "s1", name |-> "n1", events |-> {"engine"}, enabled |-> TRUE],
                      [id |-> "s2", name |-> "n2", events |-> {"engine", "output"}, enabled |-> TRUE]>>
          /\ alarms = [a \in AlarmIds |-> None] /\ deliveries = <<>>
          /\ callback = [k \in IncidentKinds |-> "idle"]
          /\ jobs = [j \in Jobs |-> I!Free]
          /\ received = [j \in Jobs |-> [s \in SubIds |-> 0]]
          /\ incidents = 0 /\ failures = 0
     ELSE I!Init

MCSpec == MCInit /\ [][MCNext]_<<part, vars>>

-----------------------------------------------------------------------------
(* What is asked of the parts that move its variables only: elsewhere they *)
(* rest as in Init, and it would take long to find so in every state.      *)

\* Every variable of every part keeps its type, and the records of a collection
\* stay apart: one media per path, one user, group, policy or template per name,
\* an output once per group, no more sessions than allowed, and a cache task
\* completed when it is final.
TypesOK == /\ part \in LibraryParts => L!TypeOK /\ L!LibraryConsistent
           /\ part = "snapshots" => C!TypeOK
           /\ part \in FleetParts => N!TypeOK
           /\ part = "accounts" => U!TypeOK /\ U!AccountsConsistent
           /\ part \in RegistryParts => G!RegistriesConsistent
           /\ part \in LedgerParts => E!TypeOK
           /\ part \in ProgramParts => Q!TypeOK
           /\ part \in IncidentParts => I!TypeOK
           /\ part = "resources" => R!TypeOK
           /\ part = "timetable" => T!TypeOK

\* Library, Programs, Ledger, Registries: what is computed is what its
\* definition says: the fallback that is played, the generated and the
\* recommended programme, the figures, the outputs of a group (playlist.go,
\* smart_generate.go, suggestion_gen.go, metrics.go, output_group.go).
ResultsRight == /\ part \in {"fallbacks", "items"} => L!FallbackNearest
                /\ part \in ProgramParts => Q!GenerateKeepsFirst
                /\ part \in LedgerParts => E!RecommendFull /\ E!FiguresAgree
                /\ part \in RegistryParts => G!NormalizeKeepsOrder
===============================================================================
