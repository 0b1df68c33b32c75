------------------------------- MODULE RunLoop -------------------------------
(***************************************************************************)
(* The run loop of the scheduler (src/management/scheduler.go), started    *)
(* and stopped by requests of the management API and stopped once more     *)
(* when the server shuts down (src/server/http_server.go).  The loop of    *)
(* the failover monitor is built the same way, but only the server starts  *)
(* and stops it.                                                           *)
(*                                                                         *)
(* Start makes a done channel and a loop; Stop closes the channel and      *)
(* waits for every loop.  A loop reads the field s.done again at the top   *)
(* of each round, without the lock.  A channel is named by its number.     *)
(***************************************************************************)
EXTENDS Naturals, FiniteSets

CONSTANTS Clients,        \* requests to start and stop
          Main,           \* StartServer
          Loops,          \* goroutines of run
          MaxStarts       \* bounds how often the scheduler is started

VARIABLES running, done,
          closed,         \* the channels that are closed
          loop,           \* per goroutine: where it is, and the channel it selects on
          stopping,       \* who waits in Stop for the loops to end
          server,
          overlapped,     \* history: a Start came while a Stop waited
          excused         \* history: a Start since the shutdown, or its Stop met another

loopVars == <<running, done, closed, loop, stopping, server, overlapped, excused>>

Off == [at |-> "off"]
Live == {l \in Loops : loop[l] # Off}
TypeOK ==
  /\ running \in BOOLEAN /\ done \in 0..MaxStarts /\ closed \subseteq 1..MaxStarts
  /\ \A l \in Loops : loop[l] = Off \/ loop[l].at \in {"top", "tick"}
                      \/ (loop[l].at = "select" /\ loop[l].on \in 1..MaxStarts)
  /\ stopping \subseteq Clients \cup {Main}
  /\ server \in {"up", "stop", "quiet", "down"}

\* The server starts the scheduler before it listens.
Init == /\ running = TRUE /\ done = 1 /\ closed = {} /\ stopping = {}
        /\ \E l \in Loops : loop = [k \in Loops |-> IF k = l THEN [at |-> "top"] ELSE Off]
        /\ server = "up" /\ overlapped = FALSE /\ excused = FALSE

\* Mutant of Start.
Start_Unguarded ==
  /\ done < MaxStarts
  /\ running' = TRUE /\ done' = done + 1
  /\ \E l \in Loops \ Live : loop' = [loop EXCEPT ![l] = [at |-> "top"]]
  /\ overlapped' = (overlapped \/ stopping # {})
  /\ excused' = (excused \/ server # "up")
  /\ UNCHANGED <<closed, stopping, server>>
Start ==
  /\ ~running /\ done < MaxStarts
  /\ running' = TRUE /\ done' = done + 1
  /\ \E l \in Loops \ Live : loop' = [loop EXCEPT ![l] = [at |-> "top"]]
  /\ overlapped' = (overlapped \/ stopping # {})
  /\ excused' = (excused \/ server # "up")
  /\ UNCHANGED <<closed, stopping, server>>

\* The critical section of Stop; one that finds nothing running returns.
\* Mutant of StopSection.
StopSection_KeepsOpen(c) ==
  /\ running' = FALSE
  /\ IF running THEN stopping' = stopping \cup {c} ELSE UNCHANGED stopping
  /\ UNCHANGED <<done, closed, loop, overlapped>>
StopSection(c) ==
  /\ running' = FALSE
  /\ IF running THEN closed' = closed \cup {done} /\ stopping' = stopping \cup {c}
     ELSE UNCHANGED <<closed, stopping>>
  /\ UNCHANGED <<done, loop, overlapped>>

\* wg.Wait.
StopReturns(c) ==
  /\ c \in stopping /\ Live = {}
  /\ stopping' = stopping \ {c}
  /\ UNCHANGED <<running, done, closed, loop, server, overlapped, excused>>

handleScheduler ==
  /\ server # "down"
  /\ \/ Start
     \/ \E c \in Clients \ stopping : StopSection(c) /\ UNCHANGED <<server, excused>>

-----------------------------------------------------------------------------
(* A loop *)

Moves(l, r) == /\ loop' = [loop EXCEPT ![l] = r]
               /\ UNCHANGED <<running, done, closed, stopping, server, overlapped, excused>>
\* The channel to wait on is the one in the field now.
Top(l) == loop[l].at = "top" /\ Moves(l, [at |-> "select", on |-> done])
Exits(l) == loop[l].at = "select" /\ loop[l].on \in closed /\ Moves(l, Off)
\* With the ticker ready as well, select may choose it.
Ticks(l) == loop[l].at = "select" /\ Moves(l, [at |-> "tick"])
TickEnds(l) == loop[l].at = "tick" /\ Moves(l, [at |-> "top"])

run(l) == Top(l) \/ Exits(l) \/ Ticks(l) \/ TickEnds(l)

-----------------------------------------------------------------------------
(* The shutdown *)

ShutDown ==
  /\ server = "up"
  /\ StopSection(Main)
  /\ server' = "stop"
  /\ excused' = (excused \/ stopping # {})
\* Mutant of Quiet.
Quiet_NoWait == /\ server = "stop"
                /\ server' = "quiet"
                /\ UNCHANGED <<running, done, closed, loop, stopping, overlapped, excused>>
Quiet == /\ server = "stop" /\ Main \notin stopping
         /\ server' = "quiet"
         /\ UNCHANGED <<running, done, closed, loop, stopping, overlapped, excused>>
Close == /\ server = "quiet"
         /\ server' = "down"
         /\ UNCHANGED <<running, done, closed, loop, stopping, overlapped, excused>>

Next == \/ handleScheduler
        \/ \E c \in Clients \cup {Main} : StopReturns(c)
        \/ \E l \in Loops : run(l)
        \/ ShutDown \/ Quiet \/ Close

Spec == Init /\ [][Next]_loopVars

\* Goroutines run; a select whose done channel stays closed chooses it in the end.
Fairness == /\ \A l \in Loops : WF_loopVars(Top(l) \/ TickEnds(l)) /\ SF_loopVars(Exits(l))
            /\ \A c \in Clients \cup {Main} : WF_loopVars(StopReturns(c))

-----------------------------------------------------------------------------
(* Properties *)

\* One loop evaluates the schedule, unless a Start came while a Stop was still
\* waiting: the old loop may then take the new channel for its own and go on.
OneLoop == ~overlapped => Cardinality(Live) <= 1

\* "a scheduled task ... can never fire while the servers are winding down"
\* (http_server.go:371): no tick runs once the shutdown's Stop has returned,
\* unless a request starts the scheduler again meanwhile or another Stop was
\* waiting, in which case the one of the shutdown waits for nothing.
QuietShutdown == server \in {"quiet", "down"} /\ ~excused => Live = {}

\* "Stop stops the loop and blocks until it has exited" (scheduler.go:255) and
\* no longer: it returns, unless a Start overlaps and leaves it a loop more.
StopEnds == \A c \in Clients \cup {Main} :
  c \in stopping ~> (c \notin stopping \/ overlapped)
=============================================================================
