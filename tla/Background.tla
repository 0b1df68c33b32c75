------------------------------ MODULE Background ------------------------------
(***************************************************************************)
(* What goes on beside the requests, together: the document store under    *)
(* its callers, the player adapter over the engine's own moves, the        *)
(* scheduler's loop with the shutdown, and the fan-out of messages.        *)
(*                                                                         *)
(* The four share no variable: each goroutine belongs to one of them, and  *)
(* to the others the store is one step (AtomicStore).                      *)
(***************************************************************************)
EXTENDS Store, Naturals, Sequences

CONSTANTS Callers, Programmes, MaxTimers,              \* PlayerAdapter
          Requests, Main, Loops, MaxStarts,            \* RunLoop
          Messages, Handlers, ChannelCap               \* FanOut

VARIABLES queue, queueIdx, queueMu, engine, playing, resume, source, timers, player, disturbed,
          running, done, closed, loop, stopping, server, overlapped, excused,
          sending, left, subscribeMutex, channel, handler

P == INSTANCE PlayerAdapter WITH None <- Nobody, holder <- queueMu, call <- player
R == INSTANCE RunLoop WITH Clients <- Requests
F == INSTANCE FanOut WITH holder <- subscribeMutex

storeVars  == <<file, temp, mem, writer, up, call>>
playerVars == <<queue, queueIdx, queueMu, engine, playing, resume, source, timers, player, disturbed>>
loopVars   == <<running, done, closed, loop, stopping, server, overlapped, excused>>
fanVars    == <<sending, left, subscribeMutex, channel, handler>>

-----------------------------------------------------------------------------
(* What the constants are *)

\* Programmes are sequences of items; a directory may be empty.
PlayerAssumption ==
  /\ IsFiniteSet(Callers) /\ MaxTimers \in Nat
  /\ Nobody \notin P!Items /\ Nobody \notin Callers
  /\ \A p \in Programmes : p \in Seq(P!Items)

ASSUME BackgroundAssumption ==
  /\ PlayerAssumption
  /\ MaxStarts \in Nat \ {0}
  /\ ChannelCap \in Nat /\ Nobody \notin Messages

-----------------------------------------------------------------------------
(* The properties of the parts, where they are defined *)

\* Every variable of every part keeps its type.
TypesOK == TypeOK /\ P!TypeOK /\ R!TypeOK /\ F!TypeOK

\* PlayerAdapter: undisturbed, what plays is of the programme Skip works on,
\* unless the play of an empty directory has emptied that (management_api.go,
\* ffmpeg.go).
OneProgramme == P!OneProgramme

\* RunLoop: one loop, unless a Start came while a Stop was waiting, and no tick
\* while the servers wind down (scheduler.go, http_server.go).
OneLoop == R!OneLoop /\ R!QuietShutdown
=============================================================================
