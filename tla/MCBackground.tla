----------------------------- MODULE MCBackground -----------------------------
(***************************************************************************)
(* What goes on in the background, in one run with fairness: the parts of  *)
(* Background and the dispatch of a webhook event.                         *)
(*                                                                         *)
(* The five have no step in common, so a behaviour is one of a single      *)
(* part, chosen at the start; the variables of the others rest where none  *)
(* of their fair actions is enabled.                                       *)
(***************************************************************************)
EXTENDS Background

CONSTANTS d0, d1, d2,                       \* Store
          p1, p2,                           \* PlayerAdapter
          a1, j1                            \* Incidents

VARIABLES part,
          alarms, subs, deliveries, callback, jobs, received, incidents, failures

MCDocs == {d0, d1, d2}
\* One update that builds on what it reads and may reject, one that may have
\* nothing to do, and a Replace.
Advance == [d \in MCDocs |-> IF d = d0 THEN d1 ELSE IF d = d1 THEN d2 ELSE Reject]
Clear   == [d \in MCDocs |-> IF d = d0 THEN Noop ELSE d0]
Load    == [d \in MCDocs |-> d2]
MCUpdates == {Advance, Clear, Load}

Long  == <<"a1", "a2">>
Short == <<"b1">>
MCProgrammes == {Long, Short, <<>>}

I == INSTANCE Incidents WITH
       Kinds <- {"engine"}, AlarmIds <- {a1}, SubIds <- {"s1", "s2"},
       SubNames <- {"n1", "n2"}, Jobs <- {j1}, MaxRetries <- 3, MaxHistory <- 2,
       MaxIncidents <- 1, MaxFailures <- 2, None <- Nobody

-----------------------------------------------------------------------------
(* The parts *)

incidentVars == <<alarms, subs, deliveries, callback, jobs, received, incidents, failures>>

StoreMoves == /\ part = "store" /\ Next
              /\ UNCHANGED <<part, playerVars, loopVars, fanVars, incidentVars>>

\* One caller over an engine that moves by itself, or two callers at once, who
\* play no empty directory and no loop (nothing ends under them).
Plain(c) == player'[c].at = "play" => player'[c].programme # <<>> /\ ~player'[c].loop
PlayerMoves == /\ \/ part = "player" /\ P!Next /\ player'[p2] = P!Idle
                  \/ /\ part = "players" /\ (\E c \in {p1, p2} : P!handlePlayer(c)) /\ P!Disturb
                     /\ \A c \in {p1, p2} : Plain(c)
               /\ UNCHANGED <<part, storeVars, loopVars, fanVars, incidentVars>>

LoopMoves == /\ part = "loop" /\ R!Next
             /\ UNCHANGED <<part, storeVars, playerVars, fanVars, incidentVars>>

FanMoves == /\ part = "fan" /\ F!Next
            /\ UNCHANGED <<part, storeVars, playerVars, loopVars, incidentVars>>

IncidentMoves == /\ part = "deliver" /\ (I!Callbacks \/ I!Deliveries)
                 /\ UNCHANGED <<part, storeVars, playerVars, loopVars, fanVars>>

MCNext == StoreMoves \/ PlayerMoves \/ LoopMoves \/ FanMoves \/ IncidentMoves

\* The dispatch of the engine's failure has two subscribers.
MCInit ==
  /\ part \in {"store", "player", "players", "loop", "fan", "deliver"}
  /\ Init /\ (part # "store" => file = NoFile)
  /\ P!Init /\ F!Init
  /\ IF part = "loop" THEN R!Init
     ELSE /\ running = FALSE /\ done = 0 /\ closed = {} /\ stopping = {}
          /\ loop = [l \in Loops |-> R!Off] /\ server = "up"
          /\ overlapped = FALSE /\ excused = FALSE
  /\ subs = <<[id |-> "s1", name |-> "n1", events |-> {"engine"}, enabled |-> TRUE],
              [id |-> "s2", name |-> "n2", events |-> {"engine"}, enabled |-> TRUE]>>
  /\ alarms = [a \in {a1} |-> Nobody] /\ deliveries = <<>>
  /\ callback = [k \in {"engine"} |-> "idle"] /\ jobs = [j \in {j1} |-> I!Free]
  /\ received = [j \in {j1} |-> [s \in {"s1", "s2"} |-> 0]]
  /\ incidents = 0 /\ failures = 0

MCSpec == /\ MCInit
          /\ [][MCNext]_<<part, storeVars, playerVars, loopVars, fanVars, incidentVars>>
          /\ Fairness /\ P!Fairness /\ R!Fairness /\ F!Fairness /\ I!Fairness

-----------------------------------------------------------------------------
(* The liveness of the parts, where it is defined *)

\* Store, PlayerAdapter, RunLoop: every call of the store and every request to
\* the player returns, and so does a Stop of the loop (store.go,
\* management_api.go, scheduler.go).
CallsReturn == EveryCallEnds /\ P!PlayerReturns /\ R!StopEnds

\* FanOut, Incidents: a message of the core is handed to every subscriber and
\* to none whose channel is closed, unless a leaving handler jams, and a
\* dispatch visits all its subscribers (root.go, webhook.go).
HandedOut == []F!NeverClosed /\ F!HandedOut /\ I!DispatchesEnd
=============================================================================
