--------------------------- MODULE ResourceProvider ---------------------------
(***************************************************************************)
(* The playlist of the core library: src/module/resource/provider.  A list *)
(* of resources with a cursor, edited by calls and moved on by the         *)
(* messages of the core, under input_mutex.  ResourceSeek keeps the mutex  *)
(* from its prompt to the core's answer, so the messages that arrive       *)
(* meanwhile wait.                                                         *)
(*                                                                         *)
(* The core (external) plays what it is handed, one after another, and     *)
(* says when one is finished.  A call that panics on a cursor past the     *)
(* list is recovered by the server and changes nothing.                    *)
(***************************************************************************)
EXTENDS Naturals, Sequences, FiniteSets, SequencesExt

CONSTANTS Resources, Configured,
          MaxHanded,      \* bounds what the core has when a seek begins
          None

VARIABLES mode,           \* play_model
          list, cursor,   \* inputs and currentIndex, from 1 here
          history,        \* randomModeUniqueNameHistory
          seek,           \* the ResourceSeek that holds input_mutex
          started,
          core,           \* external: what the core has been handed, the first plays
          finished,       \* its finish messages that ParseMessage has yet to handle
          slipped         \* history: the cursor was moved from under the core

resVars == <<mode, list, cursor, history, seek, started, core, finished, slipped>>

Current == IF cursor \in DOMAIN list THEN list[cursor] ELSE None
Index(u) == CHOOSE k \in DOMAIN list : list[k] = u

TypeOK ==
  /\ ToSet(list) \subseteq Resources /\ Cardinality(ToSet(list)) = Len(list)
  /\ list # <<>> /\ cursor \in 1..(Len(list) + MaxHanded + 2)
  /\ history \subseteq Resources /\ started \in BOOLEAN /\ slipped \in BOOLEAN
  /\ ToSet(core) \cup ToSet(finished) \subseteq Resources
  /\ seek = None \/ seek.at \in {"sent", "waits"}

\* ValidateConfig: the start point is in the list.
Init ==
  /\ mode \in {"list", "loop", "queue", "random"}
  /\ list = Configured /\ cursor \in DOMAIN Configured
  /\ history = {} /\ seek = None /\ started = FALSE
  /\ core = <<>> /\ finished = <<>> /\ slipped = FALSE

Locked == seek # None
CoreUnchanged == UNCHANGED <<mode, started, core, finished>>

-----------------------------------------------------------------------------
(* The calls *)

ResourceAdd == \E u \in Resources \ ToSet(list) :
  /\ ~Locked
  /\ list' = Append(list, u)
  /\ CoreUnchanged /\ UNCHANGED <<cursor, history, seek, slipped>>

\* What is current stays; what was before it takes the cursor along.
\* Mutant of ResourceRemove.
ResourceRemove_KeepsCursor == \E u \in ToSet(list) \ {Current} :
  /\ ~Locked /\ Current # None
  /\ list' = RemoveAt(list, Index(u))
  /\ CoreUnchanged /\ UNCHANGED <<cursor, history, seek, slipped>>
ResourceRemove == \E u \in ToSet(list) \ {Current} :
  /\ ~Locked /\ Current # None
  /\ list' = RemoveAt(list, Index(u))
  /\ cursor' = IF Index(u) < cursor THEN cursor - 1 ELSE cursor
  /\ CoreUnchanged /\ UNCHANGED <<history, seek, slipped>>

\* Without a name it seeks in what is current, and sets the cursor to the
\* first resource. The core has to be running to answer.
SeekSend == \E u \in ToSet(list) \cup {None} :
  /\ ~Locked /\ started /\ Len(core) + Len(finished) <= MaxHanded
  /\ u = None => Current # None
  /\ seek' = [at |-> "sent", lost |-> FALSE, to |-> IF u = None THEN Current ELSE u,
              index |-> IF u = None THEN 1 ELSE Index(u)]
  /\ slipped' = (slipped \/ seek'.to # list[seek'.index] \/ finished # <<>>)
  /\ CoreUnchanged /\ UNCHANGED <<list, cursor, history>>

\* The waiter is registered after the prompt; an answer before that is lost,
\* and the call keeps the mutex.
SeekRegister ==
  /\ Locked /\ seek.at = "sent"
  /\ seek' = [seek EXCEPT !.at = "waits"]
  /\ CoreUnchanged /\ UNCHANGED <<list, cursor, history, slipped>>

\* The core plays what was sought, or answers with an error.
SeekAnswered(ok) ==
  /\ Locked /\ seek.at = "waits" /\ ~seek.lost
  /\ core' = IF ok THEN <<seek.to>> ELSE core
  /\ cursor' = IF ok THEN seek.index ELSE cursor
  /\ seek' = None
  /\ UNCHANGED <<mode, started, list, history, finished, slipped>>
SeekLost(ok) ==
  /\ Locked /\ seek.at = "sent" /\ ~seek.lost
  /\ core' = IF ok THEN <<seek.to>> ELSE core
  /\ seek' = [seek EXCEPT !.lost = TRUE]
  /\ UNCHANGED <<mode, started, list, cursor, history, finished, slipped>>

Calls == \/ ResourceAdd \/ ResourceRemove \/ SeekSend \/ SeekRegister
         \/ \E ok \in BOOLEAN : SeekAnswered(ok) \/ SeekLost(ok)

-----------------------------------------------------------------------------
(* The messages of the core *)

\* PLAYER_STARTED.
Started == /\ ~started /\ ~Locked
           /\ started' = TRUE
           /\ core' = <<Current>>
           /\ UNCHANGED <<mode, list, cursor, history, seek, finished, slipped>>

\* What the core plays ends, or cannot be played.
Ends == /\ core # <<>>
        /\ core' = Tail(core)
        /\ finished' = Append(finished, Head(core))
        /\ slipped' = (slipped \/ Locked)
        /\ UNCHANGED <<mode, started, list, cursor, history, seek>>

\* The cursor after a finish. A random one is drawn from the number of those
\* not played yet, and used in the whole list.
Unplayed == IF ToSet(list) \subseteq history THEN ToSet(list) ELSE ToSet(list) \ history
NextCursors == IF mode = "random" THEN 1..Cardinality(Unplayed)
               ELSE IF mode = "loop" /\ cursor >= Len(list) THEN {1}
               ELSE {cursor + 1}

\* RESOURCE_FINISH. The finish of a resource that was removed moves nothing;
\* a list ends and a queue waits when the cursor leaves it.
Finish ==
  /\ finished # <<>> /\ ~Locked
  /\ finished' = Tail(finished)
  /\ IF Head(finished) \notin ToSet(list) THEN UNCHANGED <<cursor, history, core>>
     ELSE \E k \in NextCursors :
       /\ cursor' = k
       /\ core' = IF k \in DOMAIN list THEN Append(core, list[k]) ELSE core
       /\ history' = IF mode # "random" THEN history
                     ELSE (IF ToSet(list) \subseteq history THEN {} ELSE history) \cup {list[cursor]}
  /\ UNCHANGED <<mode, started, list, seek, slipped>>

ParseMessage == Started \/ Finish

Next == Calls \/ ParseMessage \/ Ends

Spec == Init /\ [][Next]_resVars

-----------------------------------------------------------------------------
(* Properties *)

\* Whatever is added, removed and sought by name while the core plays, the
\* cursor is at what it plays, and a loop or a random programme never stops:
\* unless a seek without a name, or one that a finish overlaps, moves the
\* cursor from under it, or the answer of a seek was lost.
CursorFollows ==
  started /\ ~Locked /\ ~slipped =>
    /\ core # <<>> => core = <<Current>> /\ finished = <<>>
    /\ mode \in {"loop", "random"} => core # <<>> \/ finished # <<>>

\* "wait for the resource file to be added" (provider.go:262): a queue that
\* has come to its end goes on with what is added. No run has this: nothing
\* hands a resource to the core but its own start and finish messages.
QueueGoesOn == [](mode = "queue" /\ started /\ Current # None => core # <<>> \/ finished # <<>>)
=============================================================================
