---------------------------- MODULE ProviderProofs ----------------------------
(***************************************************************************)
(* Proofs about the output provider: its types and NoneForgotten, for any  *)
(* outputs, clients, threads of the core and capacity of the retry channel.*)
(*                                                                         *)
(* NoneForgotten is not inductive: an add lists its output only after the  *)
(* prompt it sent, so what it is about to list must be accounted for       *)
(* before it is in the list, and the pointer of a message must not bring   *)
(* back an entry that was removed.                                         *)
(***************************************************************************)
EXTENDS OutputProvider, TLAPS

USE ProviderAssumption

\* What a call or a message under way is about is an output.
AboutInv ==
  /\ \A c \in Clients : client[c].pc # "idle" => client[c].output \in Outputs
  /\ \A b \in Callbacks : msg[b].stage # "none" => msg[b].output \in Outputs

\* A pointer that is still into the list is of a listed output.
PointerInv == \A b \in Callbacks :
  msg[b].stage = "status" /\ ~msg[b].stale => Listed(msg[b].output)

\* An output that is about to be listed, by an add that no other has
\* overtaken, is not listed yet, no other add is about to, and it is pushed or
\* will be.
Covered(u) == u \in pushing \/ RetryPending(u)
Appending(c, u) == client[c].pc = "append" /\ client[c].output = u
AppendInv == \A c \in Clients, u \in Outputs \ raced :
  Appending(c, u) =>
    /\ ~Listed(u)
    /\ \A d \in Clients : Appending(d, u) => d = c
    /\ reconnecting => Covered(u)

IInv == TypeOK /\ AboutInv /\ PointerInv /\ AppendInv /\ NoneForgotten

-----------------------------------------------------------------------------
(* Types *)

\* Every record that the actions make is a call or a message.
LEMMA Records ==
  /\ Idle \in Call /\ Idle.pc = "idle"
  /\ \A pc \in Steps, k \in Kinds, u \in Outputs, then \in BOOLEAN :
       /\ At(pc, k, u, then) \in Call
       /\ At(pc, k, u, then).pc = pc /\ At(pc, k, u, then).output = u
  /\ NoMsg \in Msg /\ NoMsg.stage = "none"
  /\ \A action \in Actions, error \in BOOLEAN : reconnecting \in BOOLEAN =>
       First(action, error) \in Stages \ {"none", "status"}
<1>1. Idle \in Call /\ Idle.pc = "idle"
  BY DEF Idle, Call, Steps, Kinds
<1>2. \A pc \in Steps, k \in Kinds, u \in Outputs, then \in BOOLEAN :
        /\ At(pc, k, u, then) \in Call
        /\ At(pc, k, u, then).pc = pc /\ At(pc, k, u, then).output = u
  BY DEF At, Call
<1>3. NoMsg \in Msg /\ NoMsg.stage = "none"
  BY DEF NoMsg, Msg, Stages, Actions
<1>4. \A action \in Actions, error \in BOOLEAN : reconnecting \in BOOLEAN =>
        First(action, error) \in Stages \ {"none", "status"}
  BY DEF First, Stages, Actions
<1>. QED BY <1>1, <1>2, <1>3, <1>4

\* What Goto and Proceed do to the calls: one of them moves on.
MovesTo(c, d) == /\ client'[c] = d
                 /\ \A o \in Clients \ {c} : client'[o] = client[o]
                 /\ client' \in [Clients -> Call]

LEMMA GotoMoves ==
  ASSUME client \in [Clients -> Call], NEW c \in Clients, NEW pc \in Steps, Goto(c, pc)
  PROVE  /\ MovesTo(c, client'[c])
         /\ client'[c].pc = pc /\ client'[c].output = client[c].output
<1>1. client[c] \in Call
  OBVIOUS
<1>2. /\ [client[c] EXCEPT !.pc = pc] \in Call
      /\ [client[c] EXCEPT !.pc = pc].pc = pc
      /\ [client[c] EXCEPT !.pc = pc].output = client[c].output
  BY <1>1 DEF Call
<1>3. client' = [client EXCEPT ![c] = [client[c] EXCEPT !.pc = pc]]
  BY DEF Goto
<1>. QED BY <1>2, <1>3 DEF MovesTo

LEMMA ProceedMoves ==
  ASSUME client \in [Clients -> Call], NEW c \in Clients, client[c].output \in Outputs,
         Proceed(c) \/ Return(c)
  PROVE  /\ MovesTo(c, client'[c])
         /\ client'[c].pc \in {"idle", "add"}
         /\ client'[c].pc # "idle" => client'[c].output = client[c].output
<1>1. At("add", "add", client[c].output, FALSE) \in Call /\ Idle \in Call
  BY Records DEF Steps, Kinds
<1>a. /\ At("add", "add", client[c].output, FALSE).pc = "add"
      /\ At("add", "add", client[c].output, FALSE).output = client[c].output
  BY DEF At
<1>2. CASE client' = [client EXCEPT ![c] = Idle]
  BY <1>1, <1>2, Records DEF MovesTo
<1>3. CASE client' = [client EXCEPT ![c] = At("add", "add", client[c].output, FALSE)]
  BY <1>1, <1>a, <1>3 DEF MovesTo
<1>. QED BY <1>2, <1>3 DEF Proceed, Return

\* What Abandon and Stage do to the messages.
LEMMA AbandonKeeps ==
  ASSUME msg \in [Callbacks -> Msg], NEW b \in Callbacks
  PROVE  /\ Abandon(b) \in Msg
         /\ Abandon(b).stage = msg[b].stage /\ Abandon(b).output = msg[b].output
         /\ msg[b].stage = "status" => Abandon(b).stale
<1>1. msg[b] \in Msg
  OBVIOUS
<1>2. /\ [msg[b] EXCEPT !.stale = TRUE] \in Msg
      /\ [msg[b] EXCEPT !.stale = TRUE].stage = msg[b].stage
      /\ [msg[b] EXCEPT !.stale = TRUE].output = msg[b].output
      /\ [msg[b] EXCEPT !.stale = TRUE].stale = TRUE
  BY <1>1 DEF Msg
<1>. QED BY <1>1, <1>2 DEF Abandon

LEMMA StageMoves ==
  ASSUME msg \in [Callbacks -> Msg], NEW b \in Callbacks, NEW s \in Stages, Stage(b, s)
  PROVE  /\ msg' \in [Callbacks -> Msg]
         /\ msg'[b].stage = s /\ msg'[b].output = msg[b].output /\ msg'[b].stale = msg[b].stale
         /\ \A x \in Callbacks \ {b} : msg'[x] = msg[x]
<1>1. msg[b] \in Msg
  OBVIOUS
<1>2. /\ [msg[b] EXCEPT !.stage = s] \in Msg
      /\ [msg[b] EXCEPT !.stage = s].stage = s
      /\ [msg[b] EXCEPT !.stage = s].output = msg[b].output
      /\ [msg[b] EXCEPT !.stage = s].stale = msg[b].stale
  BY <1>1 DEF Msg
<1>3. msg' = [msg EXCEPT ![b] = [msg[b] EXCEPT !.stage = s]]
  BY DEF Stage
<1>. QED BY <1>2, <1>3

\* What Send does to the prompts.
LEMMA SendAdds ==
  ASSUME prompts \in [Kinds -> [Outputs -> Nat]], NEW k \in Kinds, NEW u \in Outputs,
         Send(k, u)
  PROVE  /\ prompts' \in [Kinds -> [Outputs -> Nat]]
         /\ prompts'[k][u] = prompts[k][u] + 1
         /\ \A l \in Kinds, v \in Outputs : prompts'[l][v] >= prompts[l][v]
  BY DEF Send

\* What is not a call, not the list and not the messages.
RestOK ==
  /\ reconnecting \in BOOLEAN
  /\ reconnectChan \in Seq(Outputs) /\ Len(reconnectChan) <= ChanCap
  /\ sleeper \in Outputs \cup {NoOutput}
  /\ prompts \in [Kinds -> [Outputs -> Nat]]
  /\ pushing \subseteq Outputs /\ fatal \in BOOLEAN /\ raced \subseteq Outputs
ClientsOK == /\ client \in [Clients -> Call]
             /\ \A c \in Clients : client[c].pc # "idle" => client[c].output \in Outputs
MsgOK == /\ msg \in [Callbacks -> Msg]
         /\ \A b \in Callbacks : msg[b].stage # "none" => msg[b].output \in Outputs
ListOK == list \in [Outputs -> {"none", "down", "up"}]

LEMMA TypeParts == /\ TypeOK /\ AboutInv <=> RestOK /\ ClientsOK /\ MsgOK /\ ListOK
                   /\ (TypeOK /\ AboutInv)' <=> RestOK' /\ ClientsOK' /\ MsgOK' /\ ListOK'
  BY DEF TypeOK, AboutInv, RestOK, ClientsOK, MsgOK, ListOK

\* What is not touched keeps its type.
LEMMA RestKept ==
  ASSUME RestOK, fatal' \in BOOLEAN,
         UNCHANGED <<raced, reconnecting, reconnectChan, sleeper, prompts, pushing>>
  PROVE  RestOK'
  BY DEF RestOK
LEMMA MsgKept == ASSUME MsgOK, UNCHANGED msg PROVE MsgOK'
  BY DEF MsgOK
LEMMA ClientsKept == ASSUME ClientsOK, UNCHANGED client PROVE ClientsOK'
  BY DEF ClientsOK
LEMMA ListKept == ASSUME ListOK, UNCHANGED list PROVE ListOK'
  BY DEF ListOK
LEMMA MovesKeep ==
  ASSUME ClientsOK, NEW c \in Clients, MovesTo(c, client'[c]),
         client'[c].pc # "idle" => client'[c].output \in Outputs
  PROVE  ClientsOK'
  BY DEF ClientsOK, MovesTo

-----------------------------------------------------------------------------
(* What keeps the invariant *)

Keeps(u) == reconnecting /\ Covered(u) => Covered(u)'

\* A step that lists nothing, appends nothing and forgets nothing.
LEMMA Kept ==
  ASSUME ClientsOK', AppendInv, NoneForgotten, reconnecting' = reconnecting, raced \subseteq raced',
         \A u \in Outputs : Keeps(u),
         \A u \in Outputs : Listed(u)' => Listed(u),
         \A c \in Clients : client'[c].pc = "append" =>
            client[c].pc = "append" /\ client'[c].output = client[c].output
  PROVE  AppendInv' /\ NoneForgotten'
<1>1. AppendInv'
  BY DEF AppendInv, Appending, Keeps
<1>2. NoneForgotten'
  BY DEF NoneForgotten, Keeps, Covered
<1>. QED BY <1>1, <1>2

\* More prompts, or messages that go on with what they are about, cover what
\* was covered.
LEMMA CoverKept ==
  ASSUME RestOK, RestOK', pushing \subseteq pushing', UNCHANGED <<sleeper, reconnectChan>>,
         \A u \in Outputs : prompts'["add"][u] >= prompts["add"][u],
         \A b \in Callbacks : msg[b].stage \in {"send", "remove"} =>
            msg'[b].stage = msg[b].stage /\ msg'[b].output = msg[b].output
  PROVE  \A u \in Outputs : Keeps(u)
<1> SUFFICES ASSUME NEW u \in Outputs, Covered(u) PROVE Covered(u)'
  BY DEF Keeps
<1>1. CASE u \in pushing
  BY <1>1 DEF Covered
<1>2. CASE prompts["add"][u] > 0
  <2>1. prompts'["add"][u] > 0
    BY <1>2 DEF RestOK, Kinds
  <2>. QED BY <2>1 DEF Covered, RetryPending
<1>3. CASE sleeper = u \/ \E i \in 1..Len(reconnectChan) : reconnectChan[i] = u
  BY <1>3 DEF Covered, RetryPending
<1>4. CASE \E b \in Callbacks : msg[b].output = u /\ msg[b].stage \in {"send", "remove"}
  BY <1>4 DEF Covered, RetryPending
<1>. QED BY <1>1, <1>2, <1>3, <1>4 DEF Covered, RetryPending

\* Pointers: a step that touches neither the list nor the messages.
LEMMA PointerKept ==
  ASSUME PointerInv, UNCHANGED <<list, msg>> PROVE PointerInv'
  BY DEF PointerInv, Listed

-----------------------------------------------------------------------------
(* The calls *)

StateOK == RestOK /\ ClientsOK /\ MsgOK /\ ListOK

\* A call that only looks, or sets out, changes nothing but itself.
LEMMA LookStep ==
  ASSUME StateOK, PointerInv, AppendInv, NoneForgotten, NEW c \in Clients,
         fatal' \in BOOLEAN,
         UNCHANGED <<raced, reconnecting, list, reconnectChan, sleeper, msg, prompts, pushing>>,
         MovesTo(c, client'[c]), client'[c].pc # "append",
         client'[c].pc # "idle" => client'[c].output \in Outputs
  PROVE  StateOK' /\ PointerInv' /\ AppendInv' /\ NoneForgotten'
<1>1. StateOK'
  BY RestKept, MsgKept, ListKept, MovesKeep DEF StateOK
<1>2. \A u \in Outputs : Keeps(u)
  BY DEF Keeps, Covered, RetryPending
<1>3. \A u \in Outputs : Listed(u)' => Listed(u)
  BY DEF Listed
<1>4. \A d \in Clients : client'[d].pc = "append" =>
        client[d].pc = "append" /\ client'[d].output = client[d].output
  BY DEF MovesTo
<1>. QED BY <1>1, <1>2, <1>3, <1>4, Kept, PointerKept DEF StateOK

LEMMA CallStep ==
  ASSUME StateOK, PointerInv, AppendInv, NoneForgotten, NEW c \in Clients, Calls(c)
  PROVE  StateOK' /\ PointerInv' /\ AppendInv' /\ NoneForgotten'
<1>1. /\ fatal' \in BOOLEAN
      /\ UNCHANGED <<raced, reconnecting, list, reconnectChan, sleeper, msg, prompts, pushing>>
  BY DEF Calls, OutputAdd, OutputRemove, ActivateOutput, coreVars, Running
<1>2. PICK u \in Outputs : \/ client' = [client EXCEPT ![c] = At("add", "add", u, FALSE)]
                           \/ client' = [client EXCEPT ![c] = At("remove", "remove", u, FALSE)]
                           \/ client' = [client EXCEPT ![c] = At("remove", "remove", u, TRUE)]
  BY DEF Calls, OutputAdd, OutputRemove, ActivateOutput
<1>3. \A pc \in {"add", "remove"}, k \in {"add", "remove"}, then \in BOOLEAN :
        /\ At(pc, k, u, then) \in Call
        /\ At(pc, k, u, then).pc = pc /\ At(pc, k, u, then).output = u
  BY Records DEF Steps, Kinds
<1>4. MovesTo(c, client'[c]) /\ client'[c].pc \in {"add", "remove"} /\ client'[c].output = u
  BY <1>2, <1>3 DEF MovesTo, StateOK, ClientsOK
<1>. QED BY <1>1, <1>4, LookStep

\* What a call under way is about.
LEMMA Under == ASSUME ClientsOK, NEW c \in Clients, client[c].pc # "idle"
               PROVE  client[c].output \in Outputs /\ client \in [Clients -> Call]
  BY DEF ClientsOK

LEMMA CheckStep ==
  ASSUME StateOK, PointerInv, AppendInv, NoneForgotten, NEW c \in Clients,
         RemoveCheck(c) \/ AddCheck(c) \/ Register(c)
  PROVE  StateOK' /\ PointerInv' /\ AppendInv' /\ NoneForgotten'
<1>1. /\ fatal' \in BOOLEAN
      /\ UNCHANGED <<raced, reconnecting, list, reconnectChan, sleeper, msg, prompts, pushing>>
  BY DEF RemoveCheck, AddCheck, Register, coreVars, Running
<1>2. client[c].output \in Outputs /\ client \in [Clients -> Call]
  BY Under DEF RemoveCheck, AddCheck, Register, StateOK
<1>3. list[client[c].output] \in {"none", "down", "up"}
  BY <1>2 DEF StateOK, ListOK
<1>4. \/ Proceed(c) \/ Return(c) \/ Goto(c, "drop") \/ Goto(c, "sendRemove")
      \/ Goto(c, "sendAdd") \/ Goto(c, "wait")
  <2>1. CASE RemoveCheck(c)
    BY <1>3, <2>1 DEF RemoveCheck
  <2>2. CASE AddCheck(c)
    BY <2>2 DEF AddCheck
  <2>3. CASE Register(c)
    BY <2>3 DEF Register
  <2>. QED BY <2>1, <2>2, <2>3
<1>5. MovesTo(c, client'[c]) /\ client'[c].pc # "append" /\ (client'[c].pc # "idle" => client'[c].output \in Outputs)
  <2>1. CASE Proceed(c) \/ Return(c)
    BY <1>2, <2>1, ProceedMoves
  <2>2. ASSUME NEW pc \in Steps \ {"append"}, Goto(c, pc) PROVE <1>5
    BY <1>2, <2>2, GotoMoves
  <2>. QED BY <1>4, <2>1, <2>2 DEF Steps
<1>. QED BY <1>1, <1>5, LookStep

\* A step of the messages that leaves what they are about, and at least marks
\* their pointers.
LEMMA AllAbandoned ==
  ASSUME MsgOK, msg' = [b \in Callbacks |-> Abandon(b)]
  PROVE  /\ MsgOK'
         /\ \A b \in Callbacks :
              /\ msg'[b].stage = msg[b].stage /\ msg'[b].output = msg[b].output
              /\ msg'[b].stage = "status" => msg'[b].stale
<1>1. \A b \in Callbacks : /\ Abandon(b) \in Msg
                           /\ Abandon(b).stage = msg[b].stage /\ Abandon(b).output = msg[b].output
                           /\ msg[b].stage = "status" => Abandon(b).stale
  BY AbandonKeeps DEF MsgOK
<1>. QED BY <1>1 DEF MsgOK

LEMMA DropStep ==
  ASSUME StateOK, PointerInv, AppendInv, NoneForgotten, NEW c \in Clients, RemoveDrop(c)
  PROVE  StateOK' /\ PointerInv' /\ AppendInv' /\ NoneForgotten'
<1>1. /\ fatal' \in BOOLEAN /\ Proceed(c)
      /\ UNCHANGED <<raced, reconnecting, reconnectChan, sleeper, prompts, pushing>>
  BY DEF RemoveDrop, Running, coreVars
<1>2. client[c].output \in Outputs /\ client \in [Clients -> Call]
  BY Under DEF RemoveDrop, StateOK
<1>3. /\ MovesTo(c, client'[c]) /\ client'[c].pc # "append"
      /\ client'[c].pc # "idle" => client'[c].output \in Outputs
  BY <1>1, <1>2, ProceedMoves
<1>4. \/ UNCHANGED <<list, msg>>
      \/ Unlist(client[c].output) /\ msg' = [b \in Callbacks |-> Abandon(b)]
  BY DEF RemoveDrop
<1>5. /\ ListOK' /\ MsgOK' /\ PointerInv'
      /\ \A u \in Outputs : Listed(u)' => Listed(u)
      /\ \A b \in Callbacks : msg'[b].stage = msg[b].stage /\ msg'[b].output = msg[b].output
  <2>1. CASE UNCHANGED <<list, msg>>
    BY <2>1, MsgKept, ListKept, PointerKept DEF StateOK, Listed
  <2>2. CASE Unlist(client[c].output) /\ msg' = [b \in Callbacks |-> Abandon(b)]
    BY <1>2, <2>2, AllAbandoned DEF Unlist, StateOK, ListOK, PointerInv, Listed
  <2>. QED BY <1>4, <2>1, <2>2
<1>6. StateOK'
  BY <1>1, <1>3, <1>5, RestKept, MovesKeep DEF StateOK
<1>7. \A u \in Outputs : Keeps(u)
  BY <1>1, <1>5, <1>6, CoverKept DEF StateOK, RestOK, Kinds
<1>8. \A d \in Clients : client'[d].pc = "append" =>
        client[d].pc = "append" /\ client'[d].output = client[d].output
  BY <1>3 DEF MovesTo
<1>. QED BY <1>1, <1>5, <1>6, <1>7, <1>8, Kept DEF StateOK

LEMMA RemoveSendStep ==
  ASSUME StateOK, PointerInv, AppendInv, NoneForgotten, NEW c \in Clients, RemoveSend(c)
  PROVE  StateOK' /\ PointerInv' /\ AppendInv' /\ NoneForgotten'
<1>1. /\ fatal' \in BOOLEAN /\ Send("remove", client[c].output) /\ Goto(c, "register")
      /\ UNCHANGED <<raced, reconnecting, list, reconnectChan, sleeper, msg, pushing>>
  BY DEF RemoveSend, Running, Send
<1>2. client[c].output \in Outputs /\ client \in [Clients -> Call]
  BY Under DEF RemoveSend, StateOK
<1>3. /\ MovesTo(c, client'[c]) /\ client'[c].pc = "register"
      /\ client'[c].output = client[c].output
  BY <1>1, <1>2, GotoMoves DEF Steps
<1>4. /\ prompts' \in [Kinds -> [Outputs -> Nat]]
      /\ \A l \in Kinds, v \in Outputs : prompts'[l][v] >= prompts[l][v]
  BY <1>1, <1>2, SendAdds DEF StateOK, RestOK, Kinds
<1>5. StateOK'
  BY <1>1, <1>2, <1>3, <1>4, MsgKept, ListKept, MovesKeep DEF StateOK, RestOK
<1>6. \A u \in Outputs : Keeps(u)
  BY <1>1, <1>4, <1>5, CoverKept DEF StateOK, Kinds
<1>7. \A d \in Clients : client'[d].pc = "append" =>
        client[d].pc = "append" /\ client'[d].output = client[d].output
  BY <1>3 DEF MovesTo
<1>8. \A u \in Outputs : Listed(u)' => Listed(u)
  BY <1>1 DEF Listed
<1>. QED BY <1>1, <1>5, <1>6, <1>7, <1>8, Kept, PointerKept DEF StateOK

\* An add that nobody has overtaken has a prompt on its way.
LEMMA AddSendStep ==
  ASSUME StateOK, PointerInv, AppendInv, NoneForgotten, NEW c \in Clients, AddSend(c)
  PROVE  StateOK' /\ PointerInv' /\ AppendInv' /\ NoneForgotten'
<1>0. PICK u \in Outputs : client[c].output = u
  BY Under DEF AddSend, StateOK
<1>1. /\ fatal' \in BOOLEAN /\ Send("add", u) /\ Goto(c, "append")
      /\ raced' = IF Overtaken(c) THEN raced \cup {u} ELSE raced
      /\ UNCHANGED <<reconnecting, list, reconnectChan, sleeper, msg, pushing>>
  BY <1>0 DEF AddSend, Running, Send
<1>2. client[c].output = u /\ client \in [Clients -> Call]
  BY <1>0, Under DEF AddSend, StateOK
<1>3. /\ MovesTo(c, client'[c]) /\ client'[c].pc = "append"
      /\ client'[c].output = u
  BY <1>1, <1>2, GotoMoves DEF Steps
<1>4. /\ prompts' \in [Kinds -> [Outputs -> Nat]]
      /\ prompts'["add"][u] = prompts["add"][u] + 1
      /\ \A l \in Kinds, v \in Outputs : prompts'[l][v] >= prompts[l][v]
  BY <1>1, <1>2, SendAdds DEF StateOK, RestOK, Kinds
<1>5. raced' \subseteq Outputs /\ raced \subseteq raced'
  BY <1>1, <1>2 DEF StateOK, RestOK
<1>6. StateOK'
  BY <1>1, <1>2, <1>3, <1>4, <1>5, MsgKept, ListKept, MovesKeep DEF StateOK, RestOK
<1>7. \A v \in Outputs : Keeps(v)
  BY <1>1, <1>4, <1>6, CoverKept DEF StateOK, Kinds
<1>8. Covered(u)'
  <2>1. prompts'["add"][u] > 0
    BY <1>2, <1>4 DEF StateOK, RestOK, Kinds
  <2>. QED BY <2>1 DEF Covered, RetryPending
<1>9. u \notin raced' =>
        ~Listed(u) /\ \A d \in Clients : client[d].pc = "append" => client[d].output # u
  BY <1>1, <1>2 DEF Overtaken
<1>10. AppendInv'
  <2> SUFFICES ASSUME NEW d \in Clients, NEW v \in Outputs, v \notin raced', Appending(d, v)'
               PROVE  /\ ~Listed(v)'
                      /\ \A o \in Clients : Appending(o, v)' => o = d
                      /\ reconnecting' => Covered(v)'
    BY DEF AppendInv
  <2>1. CASE d = c
    <3>1. v = u
      BY <2>1, <1>3 DEF Appending
    <3>2. ~Listed(v)' /\ (reconnecting' => Covered(v)')
      BY <3>1, <1>1, <1>8, <1>9 DEF Listed
    <3>3. \A o \in Clients : Appending(o, v)' => o = d
      BY <3>1, <2>1, <1>3, <1>9 DEF Appending, MovesTo
    <3>. QED BY <3>2, <3>3
  <2>2. CASE d # c
    <3>1. Appending(d, v) /\ v \notin raced
      BY <2>2, <1>3, <1>5 DEF MovesTo, Appending
    <3>2. v # u
      BY <3>1, <1>9 DEF Appending
    <3>3. \A o \in Clients : Appending(o, v)' => o = d
      BY <3>1, <3>2, <1>3 DEF AppendInv, MovesTo, Appending
    <3>4. ~Listed(v) /\ (reconnecting => Covered(v))
      BY <3>1 DEF AppendInv
    <3>. QED BY <3>3, <3>4, <1>1, <1>7 DEF Listed, Keeps
  <2>. QED BY <2>1, <2>2
<1>11. NoneForgotten'
  BY <1>1, <1>5, <1>7 DEF NoneForgotten, Keeps, Covered, Listed
<1>. QED BY <1>1, <1>6, <1>10, <1>11, PointerKept

LEMMA AppendStep ==
  ASSUME StateOK, PointerInv, AppendInv, NoneForgotten, NEW c \in Clients, AddAppend(c)
  PROVE  StateOK' /\ PointerInv' /\ AppendInv' /\ NoneForgotten'
<1>0. PICK u \in Outputs : client[c].output = u
  BY Under DEF AddAppend, StateOK
<1>1. /\ fatal' \in BOOLEAN /\ client[c].pc = "append"
      /\ UNCHANGED <<raced, reconnecting, reconnectChan, sleeper, prompts, pushing>>
  BY DEF AddAppend, Running, coreVars
<1>2. client[c].output = u /\ client \in [Clients -> Call]
  BY <1>0, Under DEF AddAppend, StateOK
<1>3. CASE Listed(u)
  <2>1. Return(c) /\ UNCHANGED <<list, msg>>
    BY <1>2, <1>3 DEF AddAppend
  <2>2. /\ MovesTo(c, client'[c]) /\ client'[c].pc # "append"
        /\ client'[c].pc # "idle" => client'[c].output \in Outputs
    BY <1>2, <2>1, ProceedMoves
  <2>. QED BY <1>1, <2>1, <2>2, LookStep
<1>4. CASE ~Listed(u)
  <2>1. Enlist(u) /\ Goto(c, "register")
    BY <1>2, <1>4 DEF AddAppend
  <2>2. /\ MovesTo(c, client'[c]) /\ client'[c].pc = "register"
        /\ client'[c].output = u
    BY <1>2, <2>1, GotoMoves DEF Steps
  <2>3. /\ ListOK'
        /\ \A v \in Outputs : Listed(v)' <=> Listed(v) \/ v = u
    BY <1>2, <2>1 DEF Enlist, StateOK, ListOK, Listed
  <2>4. /\ MsgOK'
        /\ \A b \in Callbacks : msg'[b].stage = msg[b].stage /\ msg'[b].output = msg[b].output
        /\ \A b \in Callbacks : msg'[b].stage = "status" /\ ~msg'[b].stale => ~msg[b].stale
    BY <2>1, MsgKept, AllAbandoned DEF Enlist, StateOK
  <2>5. StateOK'
    BY <1>1, <2>2, <2>3, <2>4, <1>2, RestKept, MovesKeep DEF StateOK
  <2>6. PointerInv'
    <3> SUFFICES ASSUME NEW b \in Callbacks, msg'[b].stage = "status", ~msg'[b].stale,
                        NEW v \in Outputs, v = msg'[b].output
                 PROVE  Listed(v)'
      BY <2>4, \A b \in Callbacks : msg'[b].stage = "status" => msg'[b].output \in Outputs
         DEF PointerInv, Listed, MsgOK
    <3>. QED BY <2>3, <2>4 DEF PointerInv
  <2>7. \A v \in Outputs : Keeps(v)
    BY <1>1, <2>4, <2>5, CoverKept DEF StateOK, RestOK, Kinds
  <2>8. reconnecting /\ u \notin raced => Covered(u)'
    BY <1>1, <1>2, <2>7 DEF AppendInv, Appending, Keeps
  <2>9. NoneForgotten'
    BY <1>1, <2>3, <2>7, <2>8 DEF NoneForgotten, Keeps, Covered
  <2>10. AppendInv'
    <3> SUFFICES ASSUME NEW d \in Clients, NEW v \in Outputs \ raced, Appending(d, v)'
                 PROVE  /\ ~Listed(v)'
                        /\ \A o \in Clients : Appending(o, v)' => o = d
                        /\ reconnecting' => Covered(v)'
      BY <1>1 DEF AppendInv
    <3>1. d # c /\ Appending(d, v)
      BY <2>2 DEF MovesTo, Appending
    <3>2. v # u
      BY <3>1, <1>1, <1>2 DEF AppendInv, Appending
    <3>3. \A o \in Clients : Appending(o, v)' => o = d
      BY <3>1, <2>2 DEF AppendInv, MovesTo, Appending
    <3>4. ~Listed(v) /\ (reconnecting => Covered(v))
      BY <3>1 DEF AppendInv
    <3>. QED BY <3>2, <3>3, <3>4, <1>1, <2>3, <2>7 DEF Keeps
  <2>. QED BY <2>5, <2>6, <2>9, <2>10
<1>. QED BY <1>3, <1>4

-----------------------------------------------------------------------------
(* The messages *)

\* A step of a message that leaves the calls and the list alone and does not
\* make the pointer it holds.
LEMMA MessageStep ==
  ASSUME StateOK, PointerInv, AppendInv, NoneForgotten,
         RestOK', MsgOK', UNCHANGED <<raced, reconnecting, list, client>>,
         \A u \in Outputs : Keeps(u),
         \A b \in Callbacks : msg'[b].stage = "status" /\ ~msg'[b].stale =>
            \/ msg[b].stage = "status" /\ ~msg[b].stale /\ msg'[b].output = msg[b].output
            \/ Listed(msg[b].output) /\ msg'[b].output = msg[b].output
  PROVE  StateOK' /\ PointerInv' /\ AppendInv' /\ NoneForgotten'
<1>1. StateOK'
  BY ClientsKept, ListKept DEF StateOK
<1>2. \A u \in Outputs : Listed(u)' => Listed(u)
  BY DEF Listed
<1>3. PointerInv'
  BY DEF PointerInv, Listed
<1>. QED BY <1>1, <1>2, <1>3, Kept DEF StateOK

\* What Deliver does: an idle thread begins with a message, past the pointer.
LEMMA DeliverTakes ==
  ASSUME MsgOK, reconnecting \in BOOLEAN, NEW action \in Actions, NEW u \in Outputs,
         NEW error \in BOOLEAN, Deliver(action, u, error)
  PROVE  /\ MsgOK'
         /\ \E b \in Callbacks :
              /\ msg[b] = NoMsg
              /\ msg'[b].stage = First(action, error) /\ msg'[b].output = u
              /\ \A x \in Callbacks \ {b} : msg'[x] = msg[x]
         /\ \A b \in Callbacks : msg'[b].stage = "status" => msg'[b] = msg[b]
         /\ \A b \in Callbacks : msg[b].stage \in {"send", "remove"} =>
              msg'[b].stage = msg[b].stage /\ msg'[b].output = msg[b].output
<1>1. PICK b \in Callbacks :
        /\ msg[b] = NoMsg
        /\ msg' = [msg EXCEPT ![b] =
                     [stage |-> First(action, error), action |-> action, output |-> u,
                      error |-> error, stale |-> FALSE]]
  BY DEF Deliver
<1>2. First(action, error) \in Stages \ {"none", "status"}
  BY Records
<1>3. [stage |-> First(action, error), action |-> action, output |-> u,
       error |-> error, stale |-> FALSE] \in Msg
  BY <1>2 DEF Msg
<1>4. /\ msg' \in [Callbacks -> Msg]
      /\ msg'[b].stage = First(action, error) /\ msg'[b].output = u
      /\ \A x \in Callbacks \ {b} : msg'[x] = msg[x]
  BY <1>1, <1>3 DEF MsgOK
<1>. QED BY <1>1, <1>2, <1>4, Records DEF MsgOK

\* The core answers a prompt. An add that succeeded is pushed; one that failed
\* is to be retried; a removal is to leave the list.
LEMMA AnswerStep ==
  ASSUME StateOK, PointerInv, AppendInv, NoneForgotten, NEW k \in Kinds, NEW u \in Outputs,
         Answer(k, u)
  PROVE  StateOK' /\ PointerInv' /\ AppendInv' /\ NoneForgotten'
<1>1. /\ fatal' = FALSE /\ prompts[k][u] > 0
      /\ prompts' = [prompts EXCEPT ![k][u] = @ - 1]
      /\ UNCHANGED <<raced, reconnecting, list, reconnectChan, sleeper, client>>
  BY DEF Answer, Running
<1>2. PICK error \in BOOLEAN :
       /\ Deliver(k, u, error)
       /\ pushing' = CASE error -> pushing
                       [] k = "add" /\ ~error -> pushing \cup {u}
                       [] k = "remove" /\ ~error -> pushing \ {u}
  BY DEF Answer
<1>3. k \in {"add", "remove"} /\ k \in Actions
  BY DEF Kinds, Actions
<1>4. /\ error => pushing' = pushing
      /\ k = "add" /\ ~error => pushing' = pushing \cup {u}
      /\ k = "remove" /\ ~error => pushing' = pushing \ {u}
  BY <1>2
<1>5. /\ prompts' \in [Kinds -> [Outputs -> Nat]]
      /\ \A v \in Outputs : (k = "add" /\ v = u) \/ prompts'["add"][v] = prompts["add"][v]
  BY <1>1, <1>3 DEF StateOK, RestOK, Kinds
<1>6. RestOK'
  BY <1>1, <1>2, <1>3, <1>4, <1>5 DEF StateOK, RestOK
<1>7. /\ MsgOK'
      /\ \A b \in Callbacks : msg'[b].stage = "status" => msg'[b] = msg[b]
      /\ \A b \in Callbacks : msg[b].stage \in {"send", "remove"} =>
           msg'[b].stage = msg[b].stage /\ msg'[b].output = msg[b].output
  BY <1>2, <1>3, DeliverTakes DEF StateOK, RestOK
<1>8. PICK b \in Callbacks : msg'[b].stage = First(k, error) /\ msg'[b].output = u
  BY <1>2, <1>3, DeliverTakes DEF StateOK, RestOK
\* Pushed, or to be retried, or to be removed.
<1>9. reconnecting => Covered(u)'
  <2>1. CASE k = "add" /\ ~error
    BY <1>4, <2>1 DEF Covered
  <2>2. CASE k = "add" /\ error
    BY <1>8, <2>2 DEF First, Covered, RetryPending
  <2>3. CASE k = "remove"
    BY <1>8, <2>3 DEF First, Covered, RetryPending
  <2>. QED BY <1>3, <2>1, <2>2, <2>3
<1>10. \A v \in Outputs \ {u} : Keeps(v)
  <2> SUFFICES ASSUME NEW v \in Outputs \ {u}, Covered(v) PROVE Covered(v)'
    BY DEF Keeps
  <2>1. CASE v \in pushing
    BY <2>1, <1>3, <1>4 DEF Covered
  <2>2. CASE prompts["add"][v] > 0
    BY <2>2, <1>5 DEF Covered, RetryPending
  <2>3. CASE sleeper = v \/ \E i \in 1..Len(reconnectChan) : reconnectChan[i] = v
    BY <2>3, <1>1 DEF Covered, RetryPending
  <2>4. CASE \E x \in Callbacks : msg[x].output = v /\ msg[x].stage \in {"send", "remove"}
    BY <2>4, <1>7 DEF Covered, RetryPending
  <2>. QED BY <2>1, <2>2, <2>3, <2>4 DEF Covered, RetryPending
<1>11. \A v \in Outputs : Keeps(v)
  BY <1>9, <1>10 DEF Keeps
<1>. QED BY <1>1, <1>6, <1>7, <1>11, MessageStep

\* The core loses an output: to be retried, or taken off the list.
LEMMA DisconnectStep ==
  ASSUME StateOK, PointerInv, AppendInv, NoneForgotten, NEW u \in Outputs, Disconnect(u)
  PROVE  StateOK' /\ PointerInv' /\ AppendInv' /\ NoneForgotten'
<1>1. /\ fatal' = FALSE /\ pushing' = pushing \ {u} /\ Deliver("disconnect", u, TRUE)
      /\ UNCHANGED <<raced, reconnecting, list, reconnectChan, sleeper, client, prompts>>
  BY DEF Disconnect, Running
<1>2. RestOK'
  BY <1>1 DEF StateOK, RestOK
<1>3. /\ MsgOK'
      /\ \A b \in Callbacks : msg'[b].stage = "status" => msg'[b] = msg[b]
      /\ \A b \in Callbacks : msg[b].stage \in {"send", "remove"} =>
           msg'[b].stage = msg[b].stage /\ msg'[b].output = msg[b].output
      /\ \E b \in Callbacks : msg'[b].stage = First("disconnect", TRUE) /\ msg'[b].output = u
  BY <1>1, DeliverTakes DEF StateOK, RestOK, Actions
<1>4. reconnecting => Covered(u)'
  BY <1>3 DEF First, Covered, RetryPending
<1>5. \A v \in Outputs \ {u} : Keeps(v)
  <2> SUFFICES ASSUME NEW v \in Outputs \ {u}, Covered(v) PROVE Covered(v)'
    BY DEF Keeps
  <2>1. CASE v \in pushing
    BY <2>1, <1>1 DEF Covered
  <2>2. CASE prompts["add"][v] > 0 \/ sleeper = v \/ \E i \in 1..Len(reconnectChan) : reconnectChan[i] = v
    BY <2>2, <1>1 DEF Covered, RetryPending
  <2>3. CASE \E x \in Callbacks : msg[x].output = v /\ msg[x].stage \in {"send", "remove"}
    BY <2>3, <1>3 DEF Covered, RetryPending
  <2>. QED BY <2>1, <2>2, <2>3 DEF Covered, RetryPending
<1>6. \A v \in Outputs : Keeps(v)
  BY <1>4, <1>5 DEF Keeps
<1>. QED BY <1>1, <1>2, <1>3, <1>6, MessageStep

\* The retry goes into the channel before the thread moves on.
LEMMA ParseSendStep ==
  ASSUME StateOK, PointerInv, AppendInv, NoneForgotten, NEW b \in Callbacks, ParseSend(b)
  PROVE  StateOK' /\ PointerInv' /\ AppendInv' /\ NoneForgotten'
<1>0. PICK u \in Outputs : msg[b].output = u
  BY DEF ParseSend, StateOK, MsgOK
<1>1. /\ fatal' = FALSE /\ Len(reconnectChan) < ChanCap /\ reconnectChan' = Append(reconnectChan, u)
      /\ Stage(b, "trigger") \/ Stage(b, "lookup")
      /\ UNCHANGED <<raced, reconnecting, list, sleeper, client, prompts, pushing>>
  BY <1>0 DEF ParseSend, Running, coreVars
<1>2. /\ msg' \in [Callbacks -> Msg]
      /\ msg'[b].stage \in {"trigger", "lookup"} /\ msg'[b].output = msg[b].output
      /\ \A x \in Callbacks \ {b} : msg'[x] = msg[x]
  BY <1>1, StageMoves DEF StateOK, MsgOK, Stages
<1>3. MsgOK'
  BY <1>0, <1>2 DEF StateOK, MsgOK
<1>4. /\ reconnectChan' \in Seq(Outputs) /\ Len(reconnectChan') = Len(reconnectChan) + 1
      /\ reconnectChan'[Len(reconnectChan')] = u
      /\ \A i \in 1..Len(reconnectChan) : reconnectChan'[i] = reconnectChan[i]
  BY <1>1 DEF StateOK, RestOK
<1>5. RestOK'
  <2>1. Len(reconnectChan') <= ChanCap
    BY <1>1, <1>4 DEF StateOK, RestOK, ProviderAssumption
  <2>2. fatal' \in BOOLEAN
    BY <1>1, Zenon
  <2>. QED BY <1>1, <1>4, <2>1, <2>2 DEF StateOK, RestOK
<1>6. Covered(u)'
  <2>1. Len(reconnectChan') \in 1..Len(reconnectChan')
    BY <1>4 DEF StateOK, RestOK
  <2>. QED BY <2>1, <1>4 DEF Covered, RetryPending
<1>7. \A v \in Outputs \ {u} : Keeps(v)
  <2> SUFFICES ASSUME NEW v \in Outputs \ {u}, Covered(v) PROVE Covered(v)'
    BY DEF Keeps
  <2>1. CASE v \in pushing \/ prompts["add"][v] > 0 \/ sleeper = v
    BY <2>1, <1>1 DEF Covered, RetryPending
  <2>2. CASE \E i \in 1..Len(reconnectChan) : reconnectChan[i] = v
    <3>1. PICK i \in 1..Len(reconnectChan) : reconnectChan[i] = v
      BY <2>2
    <3>2. i \in 1..Len(reconnectChan') /\ reconnectChan'[i] = v
      BY <3>1, <1>4 DEF StateOK, RestOK
    <3>. QED BY <3>2 DEF Covered, RetryPending
  <2>3. CASE \E x \in Callbacks : msg[x].output = v /\ msg[x].stage \in {"send", "remove"}
    BY <2>3, <1>0, <1>2 DEF Covered, RetryPending
  <2>. QED BY <2>1, <2>2, <2>3 DEF Covered, RetryPending
<1>8. \A v \in Outputs : Keeps(v)
  BY <1>6, <1>7 DEF Keeps
<1>. QED BY <1>1, <1>2, <1>3, <1>5, <1>8, MessageStep

\* The pointer is made for an output that is listed.
LEMMA LookupStep ==
  ASSUME StateOK, PointerInv, AppendInv, NoneForgotten, NEW b \in Callbacks, ParseLookup(b)
  PROVE  StateOK' /\ PointerInv' /\ AppendInv' /\ NoneForgotten'
<1>1. /\ UNCHANGED <<raced, reconnecting, list, reconnectChan, sleeper, client, prompts, pushing>>
      /\ UNCHANGED msg \/ (Listed(msg[b].output) /\ Stage(b, "status"))
  <2>1. CASE Listed(msg[b].output)
    BY <2>1 DEF ParseLookup, coreVars
  <2>2. CASE ~Listed(msg[b].output)
    BY <2>2 DEF ParseLookup, coreVars
  <2>. QED BY <2>1, <2>2
<1>a. fatal' \in BOOLEAN
  <2>1. fatal' = fatal \/ fatal' = TRUE
    BY Zenon DEF ParseLookup
  <2>. QED BY <2>1, Zenon DEF StateOK, RestOK
<1>2. RestOK'
  BY <1>1, <1>a, RestKept DEF StateOK
<1>3. CASE UNCHANGED msg
  <2>1. \A u \in Outputs : Keeps(u)
    BY <1>1, <1>3 DEF Keeps, Covered, RetryPending
  <2>. QED BY <2>1, <1>1, <1>2, <1>3, MsgKept, MessageStep DEF StateOK
<1>4. CASE Listed(msg[b].output) /\ Stage(b, "status")
  <2>1. /\ msg' \in [Callbacks -> Msg]
        /\ msg'[b].stage = "status" /\ msg'[b].output = msg[b].output
        /\ \A x \in Callbacks \ {b} : msg'[x] = msg[x]
    BY <1>4, StageMoves DEF StateOK, MsgOK, Stages
  <2>2. msg[b].stage = "lookup"
    BY DEF ParseLookup
  <2>3. MsgOK'
    BY <2>1, <2>2 DEF StateOK, MsgOK
  <2>4. \A u \in Outputs : Keeps(u)
    BY <2>1, <2>2, <1>1, <1>2, CoverKept DEF StateOK, RestOK, Kinds
  <2>. QED BY <1>1, <1>2, <1>4, <2>1, <2>3, <2>4, MessageStep
<1>. QED BY <1>1, <1>3, <1>4

\* Connected is written only where the pointer is still of a listed output.
LEMMA StatusStep ==
  ASSUME StateOK, PointerInv, AppendInv, NoneForgotten, NEW b \in Callbacks, ParseStatus(b)
  PROVE  StateOK' /\ PointerInv' /\ AppendInv' /\ NoneForgotten'
<1>0. PICK u \in Outputs : msg[b].output = u /\ msg[b].stage = "status"
  BY DEF ParseStatus, StateOK, MsgOK
<1>1. /\ fatal' = FALSE /\ Stage(b, "trigger")
      /\ UNCHANGED <<raced, reconnecting, reconnectChan, sleeper, client, prompts, pushing>>
      /\ \/ UNCHANGED list
         \/ ~msg[b].stale /\ list' = [list EXCEPT ![u] = "up"]
         \/ ~msg[b].stale /\ list' = [list EXCEPT ![u] = "down"]
  BY <1>0 DEF ParseStatus, Running, coreVars
<1>2. ~msg[b].stale => Listed(u)
  BY <1>0 DEF PointerInv
<1>3. ListOK' /\ \A v \in Outputs : Listed(v)' <=> Listed(v)
  BY <1>1, <1>2 DEF StateOK, ListOK, Listed
<1>4. /\ msg' \in [Callbacks -> Msg]
      /\ msg'[b].stage = "trigger" /\ msg'[b].output = msg[b].output
      /\ \A x \in Callbacks \ {b} : msg'[x] = msg[x]
  BY <1>1, StageMoves DEF StateOK, MsgOK, Stages
<1>5. MsgOK' /\ RestOK' /\ ClientsOK'
  BY <1>0, <1>1, <1>4, RestKept, ClientsKept DEF StateOK, MsgOK
<1>6. \A v \in Outputs : Keeps(v)
  BY <1>0, <1>1, <1>4, <1>5, CoverKept DEF StateOK, RestOK, Kinds
<1>7. PointerInv'
  <2> SUFFICES ASSUME NEW x \in Callbacks, msg'[x].stage = "status", ~msg'[x].stale,
                      NEW v \in Outputs, v = msg'[x].output
               PROVE  Listed(v)'
    BY <1>5 DEF PointerInv, Listed, MsgOK
  <2>1. x # b /\ msg'[x] = msg[x]
    BY <1>4
  <2>. QED BY <2>1, <1>3 DEF PointerInv
<1>. QED BY <1>1, <1>3, <1>5, <1>6, <1>7, Kept DEF StateOK

\* A removal: of an output that is listed, which no unovertaken add is about
\* to list, and that covers nothing any more.
LEMMA ParseRemoveStep ==
  ASSUME StateOK, PointerInv, AppendInv, NoneForgotten, NEW b \in Callbacks, ParseRemove(b)
  PROVE  StateOK' /\ PointerInv' /\ AppendInv' /\ NoneForgotten'
<1>0. PICK u \in Outputs : msg[b].output = u /\ msg[b].stage = "remove"
  BY DEF ParseRemove, StateOK, MsgOK
<1>1. /\ fatal' \in BOOLEAN
      /\ UNCHANGED <<raced, reconnecting, reconnectChan, sleeper, client, prompts, pushing>>
      /\ \/ UNCHANGED <<list, msg>>
         \/ /\ Listed(u) /\ Unlist(u)
            /\ msg' = [x \in Callbacks |->
                         IF x = b THEN [msg[b] EXCEPT !.stage = "trigger"] ELSE Abandon(x)]
  BY <1>0 DEF ParseRemove, StateOK, RestOK, coreVars
<1>2. RestOK' /\ ClientsOK'
  BY <1>1, RestKept, ClientsKept DEF StateOK
<1>3. CASE UNCHANGED <<list, msg>>
  <2>1. \A v \in Outputs : Keeps(v)
    BY <1>1, <1>3 DEF Keeps, Covered, RetryPending
  <2>. QED BY <2>1, <1>1, <1>2, <1>3, MsgKept, MessageStep DEF StateOK
<1>4. CASE /\ Listed(u) /\ Unlist(u)
           /\ msg' = [x \in Callbacks |->
                         IF x = b THEN [msg[b] EXCEPT !.stage = "trigger"] ELSE Abandon(x)]
  <2>1. /\ [msg[b] EXCEPT !.stage = "trigger"] \in Msg
        /\ [msg[b] EXCEPT !.stage = "trigger"].stage = "trigger"
        /\ [msg[b] EXCEPT !.stage = "trigger"].output = u
    BY <1>0 DEF StateOK, MsgOK, Msg, Stages
  <2>2. \A x \in Callbacks :
          /\ Abandon(x) \in Msg
          /\ Abandon(x).stage = msg[x].stage /\ Abandon(x).output = msg[x].output
          /\ msg[x].stage = "status" => Abandon(x).stale
    BY AbandonKeeps DEF StateOK, MsgOK
  <2>3. /\ msg' \in [Callbacks -> Msg]
        /\ msg'[b].stage = "trigger" /\ msg'[b].output = u
        /\ \A x \in Callbacks \ {b} :
             /\ msg'[x].stage = msg[x].stage /\ msg'[x].output = msg[x].output
             /\ msg[x].stage = "status" => msg'[x].stale
    BY <1>4, <2>1, <2>2
  <2>4. MsgOK' /\ PointerInv'
    BY <2>3 DEF StateOK, MsgOK, PointerInv
  <2>5. /\ ListOK' /\ \A v \in Outputs : Listed(v)' <=> Listed(v) /\ v # u
    BY <1>4 DEF Unlist, StateOK, ListOK, Listed
  <2>6. \A v \in Outputs \ {u} : Keeps(v)
    <3> SUFFICES ASSUME NEW v \in Outputs \ {u}, Covered(v) PROVE Covered(v)'
      BY DEF Keeps
    <3>1. CASE \/ v \in pushing \/ prompts["add"][v] > 0 \/ sleeper = v
               \/ \E i \in 1..Len(reconnectChan) : reconnectChan[i] = v
      BY <3>1, <1>1 DEF Covered, RetryPending
    <3>2. CASE \E x \in Callbacks : msg[x].output = v /\ msg[x].stage \in {"send", "remove"}
      BY <3>2, <1>0, <2>3 DEF Covered, RetryPending
    <3>. QED BY <3>1, <3>2 DEF Covered, RetryPending
  <2>7. NoneForgotten'
    BY <1>1, <2>5, <2>6 DEF NoneForgotten, Keeps, Covered
  <2>8. AppendInv'
    <3> SUFFICES ASSUME NEW d \in Clients, NEW v \in Outputs \ raced, Appending(d, v)
                 PROVE  /\ ~Listed(v)'
                        /\ \A o \in Clients : Appending(o, v) => o = d
                        /\ reconnecting => Covered(v)'
      BY <1>1 DEF AppendInv, Appending
    <3>1. v # u
      BY <1>4 DEF AppendInv
    <3>. QED BY <3>1, <2>5, <2>6 DEF AppendInv, Keeps
  <2>. QED BY <1>2, <2>4, <2>5, <2>7, <2>8 DEF StateOK
<1>. QED BY <1>1, <1>3, <1>4

\* Trigger ends waits and the message.
LEMMA TriggerStep ==
  ASSUME StateOK, PointerInv, AppendInv, NoneForgotten, NEW b \in Callbacks, Trigger(b)
  PROVE  StateOK' /\ PointerInv' /\ AppendInv' /\ NoneForgotten'
<1>1. /\ fatal' = FALSE /\ msg[b].stage = "trigger" /\ msg' = [msg EXCEPT ![b] = NoMsg]
      /\ client' = [c \in Clients |->
           IF c \notin Answered(b) THEN client[c]
           ELSE IF client[c].then /\ ~msg[b].error
             THEN At("add", "add", client[c].output, FALSE)
           ELSE Idle]
      /\ UNCHANGED <<raced, reconnecting, list, reconnectChan, sleeper, prompts, pushing>>
  BY DEF Trigger, Running, coreVars
<1>2. \A c \in Answered(b) : c \in Clients /\ client[c].output \in Outputs
  BY DEF Answered, StateOK, ClientsOK
<1>3. \A u \in Outputs : /\ At("add", "add", u, FALSE) \in Call
                         /\ At("add", "add", u, FALSE).pc = "add"
                         /\ At("add", "add", u, FALSE).output = u
  BY DEF At, Call, Steps, Kinds
<1>4. /\ client' \in [Clients -> Call]
      /\ \A c \in Clients : \/ client'[c] = client[c]
                            \/ client'[c].pc = "idle"
                            \/ client'[c].pc = "add" /\ client'[c].output \in Outputs
  <2>1. \A c \in Clients : \/ client'[c] = client[c]
                          \/ client'[c] = Idle
                          \/ \E u \in Outputs : client'[c] = At("add", "add", u, FALSE)
    BY <1>1, <1>2
  <2>2. \A c \in Clients : client[c] \in Call
    BY DEF StateOK, ClientsOK
  <2>a. Idle \in Call /\ Idle.pc = "idle"
    BY Records
  <2>3. \A c \in Clients : client'[c] \in Call
    BY <2>1, <2>2, <2>a, <1>3
  <2>4. client' \in [Clients -> Call]
    BY <1>1, <2>3
  <2>5. \A c \in Clients : \/ client'[c] = client[c]
                           \/ client'[c].pc = "idle"
                           \/ client'[c].pc = "add" /\ client'[c].output \in Outputs
    <3> SUFFICES ASSUME NEW c \in Clients
                 PROVE  \/ client'[c] = client[c]
                        \/ client'[c].pc = "idle"
                        \/ client'[c].pc = "add" /\ client'[c].output \in Outputs
      OBVIOUS
    <3>1. CASE client'[c] = client[c]
      BY <3>1
    <3>2. CASE client'[c] = Idle
      BY <3>2, <2>a
    <3>3. CASE \E u \in Outputs : client'[c] = At("add", "add", u, FALSE)
      BY <3>3, <1>3
    <3>. QED BY <2>1, <3>1, <3>2, <3>3
  <2>. QED BY <2>4, <2>5
<1>5. ClientsOK'
  BY <1>4 DEF StateOK, ClientsOK
<1>6. /\ msg' \in [Callbacks -> Msg] /\ msg'[b].stage = "none"
      /\ \A x \in Callbacks \ {b} : msg'[x] = msg[x]
  BY <1>1, Records DEF StateOK, MsgOK
<1>7. MsgOK' /\ PointerInv'
  BY <1>1, <1>6 DEF StateOK, MsgOK, PointerInv, Listed
<1>8. RestOK' /\ ListOK'
  BY <1>1, RestKept, ListKept DEF StateOK
<1>9. \A u \in Outputs : Keeps(u)
  BY <1>1, <1>6, <1>8, CoverKept DEF StateOK, RestOK, Kinds
<1>10. \A u \in Outputs : Listed(u)' => Listed(u)
  BY <1>1 DEF Listed
<1>11. \A c \in Clients : client'[c].pc = "append" =>
         client[c].pc = "append" /\ client'[c].output = client[c].output
  BY <1>4
<1>. QED BY <1>1, <1>5, <1>7, <1>8, <1>9, <1>10, <1>11, Kept DEF StateOK

-----------------------------------------------------------------------------
(* The retries *)

\* A retry is in the channel, then asleep, then a prompt.
LEMMA TakeStep ==
  ASSUME StateOK, PointerInv, AppendInv, NoneForgotten, Take
  PROVE  StateOK' /\ PointerInv' /\ AppendInv' /\ NoneForgotten'
<1>1. /\ fatal' = FALSE /\ reconnectChan # <<>> /\ sleeper = NoOutput
      /\ sleeper' = Head(reconnectChan) /\ reconnectChan' = Tail(reconnectChan)
      /\ UNCHANGED <<raced, reconnecting, list, client, msg, prompts, pushing>>
  BY DEF Take, Running, coreVars
<1>2. /\ Len(reconnectChan) > 0 /\ sleeper' = reconnectChan[1] /\ sleeper' \in Outputs
      /\ reconnectChan' \in Seq(Outputs) /\ Len(reconnectChan') = Len(reconnectChan) - 1
      /\ \A i \in 1..Len(reconnectChan') : reconnectChan'[i] = reconnectChan[i + 1]
  BY <1>1 DEF StateOK, RestOK
<1>3. RestOK'
  <2>1. Len(reconnectChan') <= ChanCap
    BY <1>1, <1>2 DEF StateOK, RestOK, ProviderAssumption
  <2>2. fatal' \in BOOLEAN
    BY <1>1, Zenon
  <2>. QED BY <1>1, <1>2, <2>1, <2>2 DEF StateOK, RestOK
<1>4. \A u \in Outputs : Keeps(u)
  <2> SUFFICES ASSUME NEW u \in Outputs, Covered(u) PROVE Covered(u)'
    BY DEF Keeps
  <2>1. CASE \/ u \in pushing \/ prompts["add"][u] > 0
             \/ \E x \in Callbacks : msg[x].output = u /\ msg[x].stage \in {"send", "remove"}
    BY <2>1, <1>1 DEF Covered, RetryPending
  <2>2. CASE \E i \in 1..Len(reconnectChan) : reconnectChan[i] = u
    <3>1. PICK i \in 1..Len(reconnectChan) : reconnectChan[i] = u
      BY <2>2
    <3>2. CASE i = 1
      BY <3>1, <3>2, <1>2 DEF Covered, RetryPending
    <3>3. CASE i # 1
      <4>1. i - 1 \in 1..Len(reconnectChan') /\ reconnectChan'[i - 1] = u
        BY <3>1, <3>3, <1>2 DEF StateOK, RestOK
      <4>. QED BY <4>1 DEF Covered, RetryPending
    <3>. QED BY <3>2, <3>3
  <2>. QED BY <2>1, <2>2, <1>1 DEF Covered, RetryPending
<1>. QED BY <1>1, <1>3, <1>4, MsgKept, MessageStep DEF StateOK

LEMMA RetryStep ==
  ASSUME StateOK, PointerInv, AppendInv, NoneForgotten, Retry
  PROVE  StateOK' /\ PointerInv' /\ AppendInv' /\ NoneForgotten'
<1>0. PICK u \in Outputs : sleeper = u
  BY DEF Retry, StateOK, RestOK
<1>1. /\ fatal' = FALSE /\ Send("add", u) /\ sleeper' = NoOutput
      /\ UNCHANGED <<raced, reconnecting, list, reconnectChan, client, msg, pushing>>
  BY <1>0 DEF Retry, Running, Send
<1>2. /\ prompts' \in [Kinds -> [Outputs -> Nat]]
      /\ prompts'["add"][u] = prompts["add"][u] + 1
      /\ \A l \in Kinds, v \in Outputs : prompts'[l][v] >= prompts[l][v]
  BY <1>1, SendAdds DEF StateOK, RestOK, Kinds
<1>3. RestOK'
  BY <1>1, <1>2 DEF StateOK, RestOK
<1>4. \A v \in Outputs : Keeps(v)
  <2> SUFFICES ASSUME NEW v \in Outputs, Covered(v) PROVE Covered(v)'
    BY DEF Keeps
  <2>1. CASE prompts["add"][v] > 0 \/ v = u
    <3>1. prompts'["add"][v] > 0
      BY <2>1, <1>2 DEF StateOK, RestOK, Kinds
    <3>. QED BY <3>1 DEF Covered, RetryPending
  <2>2. CASE \/ v \in pushing \/ \E i \in 1..Len(reconnectChan) : reconnectChan[i] = v
             \/ \E x \in Callbacks : msg[x].output = v /\ msg[x].stage \in {"send", "remove"}
    BY <2>2, <1>1 DEF Covered, RetryPending
  <2>. QED BY <2>1, <2>2, <1>0 DEF Covered, RetryPending
<1>. QED BY <1>1, <1>3, <1>4, MsgKept, MessageStep DEF StateOK

-----------------------------------------------------------------------------
(* The theorems *)

LEMMA InitInv == Init => StateOK /\ PointerInv /\ AppendInv /\ NoneForgotten
<1> SUFFICES ASSUME Init PROVE StateOK /\ PointerInv /\ AppendInv /\ NoneForgotten
  OBVIOUS
<1>1. ClientsOK /\ MsgOK
  BY Records DEF Init, ClientsOK, MsgOK
<1>2. ListOK
  BY DEF Init, ListOK
<1>3. \A k \in Kinds : prompts[k] = [u \in Outputs |-> IF k = "add" /\ u \in Configured THEN 1 ELSE 0]
  BY DEF Init
<1>4. RestOK
  <2>1. prompts \in [Kinds -> [Outputs -> Nat]]
    BY DEF Init
  <2>2. reconnectChan \in Seq(Outputs) /\ Len(reconnectChan) = 0
    BY DEF Init
  <2>3. fatal \in BOOLEAN
    BY Zenon DEF Init
  <2>4. Len(reconnectChan) <= ChanCap
    BY <2>2 DEF ProviderAssumption
  <2>5. pushing \subseteq Outputs /\ raced \subseteq Outputs /\ sleeper \in Outputs \cup {NoOutput}
    BY DEF Init
  <2>6. reconnecting \in BOOLEAN
    BY DEF Init
  <2>. QED BY <2>1, <2>2, <2>3, <2>4, <2>5, <2>6 DEF RestOK
<1>5. PointerInv /\ AppendInv
  BY Records DEF Init, PointerInv, AppendInv, Appending
<1>6. NoneForgotten
  <2> SUFFICES ASSUME NEW u \in Outputs, Listed(u) PROVE prompts["add"][u] > 0
    BY DEF NoneForgotten, RetryPending
  <2>1. u \in Configured
    BY DEF Init, Listed
  <2>. QED BY <2>1, <1>3 DEF Kinds
<1>. QED BY <1>1, <1>2, <1>4, <1>5, <1>6 DEF StateOK

LEMMA NextInv ==
  StateOK /\ PointerInv /\ AppendInv /\ NoneForgotten /\ [Next]_vars
    => StateOK' /\ PointerInv' /\ AppendInv' /\ NoneForgotten'
<1> SUFFICES ASSUME StateOK, PointerInv, AppendInv, NoneForgotten, [Next]_vars
             PROVE  StateOK' /\ PointerInv' /\ AppendInv' /\ NoneForgotten'
  OBVIOUS
<1>1. ASSUME NEW c \in Clients, Calls(c) \/ Working(c)
      PROVE  StateOK' /\ PointerInv' /\ AppendInv' /\ NoneForgotten'
  BY <1>1, CallStep, CheckStep, DropStep, RemoveSendStep, AddSendStep, AppendStep DEF Working
<1>2. ASSUME NEW b \in Callbacks, Parsing(b)
      PROVE  StateOK' /\ PointerInv' /\ AppendInv' /\ NoneForgotten'
  BY <1>2, ParseSendStep, LookupStep, StatusStep, ParseRemoveStep, TriggerStep DEF Parsing
<1>3. CASE Core
  BY <1>3, AnswerStep, DisconnectStep DEF Core
<1>4. CASE Take \/ Retry
  BY <1>4, TakeStep, RetryStep
<1>5. CASE UNCHANGED vars
  <2>1. \A u \in Outputs : Keeps(u)
    BY <1>5 DEF Keeps, Covered, RetryPending, vars, coreVars
  <2>2. /\ fatal' \in BOOLEAN
        /\ UNCHANGED <<raced, reconnecting, list, reconnectChan, sleeper, client, msg, prompts, pushing>>
    BY <1>5 DEF vars, coreVars, StateOK, RestOK
  <2>3. RestOK' /\ MsgOK'
    BY <2>2, RestKept, MsgKept DEF StateOK
  <2>. QED BY <2>1, <2>2, <2>3, MessageStep
<1>. QED BY <1>1, <1>2, <1>3, <1>4, <1>5 DEF Next

\* The inductive invariant holds in every behaviour of the provider.
THEOREM Invariance == Spec => []IInv
<1>1. Init => StateOK /\ PointerInv /\ AppendInv /\ NoneForgotten
  BY InitInv
<1>2. StateOK /\ PointerInv /\ AppendInv /\ NoneForgotten /\ [Next]_vars
        => (StateOK /\ PointerInv /\ AppendInv /\ NoneForgotten)'
  BY NextInv
<1>3. StateOK /\ PointerInv /\ AppendInv /\ NoneForgotten => IInv
  BY TypeParts DEF StateOK, IInv
<1>. QED BY <1>1, <1>2, <1>3, PTL DEF Spec

\* Every variable of the provider has its type: the retry channel never holds
\* more than it can, and every call and message is about an output.
THEOREM TypeCorrect == Spec => []TypeOK
<1>1. IInv => TypeOK
  BY DEF IInv
<1>. QED BY <1>1, Invariance, PTL

\* With reconnection on, no listed output is forgotten: it is pushed, or a
\* message, a retry or a prompt that will bring it back is under way.
THEOREM NothingForgotten == Spec => []NoneForgotten
<1>1. IInv => NoneForgotten
  BY DEF IInv
<1>. QED BY <1>1, Invariance, PTL
==============================================================================
