------------------------------- MODULE FanOut -------------------------------
(***************************************************************************)
(* Messages of the core on their way to the websocket clients: the second  *)
(* half of messageConsumer, SubscribeMessage and CancelSubscribeMessage    *)
(* (src/cmd/root.go) and the handler of /websocket (src/server/            *)
(* http_server.go).                                                        *)
(*                                                                         *)
(* Each message has a goroutine that takes subscribeMutex and sends to     *)
(* every subscriber's channel in turn, keeping the mutex while a channel   *)
(* is full.  A handler reads its channel, writes to its client and cancels *)
(* when the write fails.                                                   *)
(***************************************************************************)
EXTENDS Naturals, Sequences, FiniteSets

CONSTANTS Messages, Handlers,
          ChannelCap,     \* 500 in the code
          Nobody

VARIABLES sending,        \* per message: where its goroutine is
          left,           \* per message: the subscribers it has yet to send to
          holder,         \* the message whose goroutine has subscribeMutex
          channel,        \* per handler: what is in its channel
          handler         \* per handler: where it is

fanVars == <<sending, left, holder, channel, handler>>

Subscribed == {h \in Handlers : handler[h] \in {"reading", "writing", "leaving"}}
TypeOK ==
  /\ sending \in [Messages -> {"none", "spawned", "sends", "sent"}]
  /\ left \in [Messages -> SUBSET Handlers]
  /\ holder \in Messages \cup {Nobody}
  /\ \A h \in Handlers : channel[h] \in Seq(Messages) /\ Len(channel[h]) <= ChannelCap
  /\ handler \in [Handlers -> {"off", "reading", "writing", "leaving", "gone"}]

Init == /\ sending = [m \in Messages |-> "none"] /\ left = [m \in Messages |-> {}]
        /\ holder = Nobody
        /\ channel = [h \in Handlers |-> <<>>] /\ handler = [h \in Handlers |-> "off"]

\* messageConsumer, after the modules have seen the message.
Spawn(m) == /\ sending[m] = "none"
            /\ sending' = [sending EXCEPT ![m] = "spawned"]
            /\ UNCHANGED <<left, holder, channel, handler>>

Lock(m) == /\ sending[m] = "spawned" /\ holder = Nobody
           /\ holder' = m
           /\ left' = [left EXCEPT ![m] = Subscribed]
           /\ sending' = [sending EXCEPT ![m] = "sends"]
           /\ UNCHANGED <<channel, handler>>

\* A send waits while the channel is full.
Send(m) == \E h \in left[m] :
  /\ sending[m] = "sends" /\ Len(channel[h]) < ChannelCap
  /\ channel' = [channel EXCEPT ![h] = Append(@, m)]
  /\ left' = [left EXCEPT ![m] = @ \ {h}]
  /\ UNCHANGED <<sending, holder, handler>>

\* Mutant of Unlock.
Unlock_EmptyOnly(m) == /\ sending[m] = "sends" /\ left[m] = {}
                       /\ Subscribed # {}
                       /\ sending' = [sending EXCEPT ![m] = "sent"]
                       /\ holder' = Nobody
                       /\ UNCHANGED <<left, channel, handler>>
Unlock(m) == /\ sending[m] = "sends" /\ left[m] = {}
             /\ sending' = [sending EXCEPT ![m] = "sent"]
             /\ holder' = Nobody
             /\ UNCHANGED <<left, channel, handler>>

messageConsumer(m) == Spawn(m) \/ Lock(m) \/ Send(m) \/ Unlock(m)

SubscribeMessage(h) == /\ handler[h] = "off" /\ holder = Nobody
                       /\ handler' = [handler EXCEPT ![h] = "reading"]
                       /\ UNCHANGED <<sending, left, holder, channel>>

Receive(h) == /\ handler[h] = "reading" /\ channel[h] # <<>>
              /\ channel' = [channel EXCEPT ![h] = Tail(@)]
              /\ handler' = [handler EXCEPT ![h] = "writing"]
              /\ UNCHANGED <<sending, left, holder>>

\* The write succeeds, or the client is gone.
Write(h) == /\ handler[h] = "writing"
            /\ handler' \in {[handler EXCEPT ![h] = r] : r \in {"reading", "leaving"}}
            /\ UNCHANGED <<sending, left, holder, channel>>

\* Mutant of CancelSubscribeMessage.
Cancel_Unlocked(h) == /\ handler[h] = "leaving"
                      /\ handler' = [handler EXCEPT ![h] = "gone"]
                      /\ channel' = [channel EXCEPT ![h] = <<>>]
                      /\ UNCHANGED <<sending, left, holder>>
\* The entry is deleted and its channel closed under the mutex.
CancelSubscribeMessage(h) == /\ handler[h] = "leaving" /\ holder = Nobody
                             /\ handler' = [handler EXCEPT ![h] = "gone"]
                             /\ channel' = [channel EXCEPT ![h] = <<>>]
                             /\ UNCHANGED <<sending, left, holder>>

websocket(h) == SubscribeMessage(h) \/ Receive(h) \/ Write(h) \/ CancelSubscribeMessage(h)

Next == (\E m \in Messages : messageConsumer(m)) \/ (\E h \in Handlers : websocket(h))

Spec == Init /\ [][Next]_fanVars

\* Goroutines run, the mutex goes to one that waits when none takes it for
\* good, and a write ends: a connection that does not take it breaks in the end.
Fairness ==
  /\ \A m \in Messages : WF_fanVars(Lock(m) \/ Send(m) \/ Unlock(m))
  /\ \A h \in Handlers : WF_fanVars(Receive(h) \/ Write(h) \/ CancelSubscribeMessage(h))

-----------------------------------------------------------------------------
(* Properties *)

\* "no send can target a closed channel" (root.go:142): what a goroutine has
\* left to send to is still subscribed.
NeverClosed == \A m \in Messages :
  sending[m] = "sends" => left[m] \subseteq Subscribed

\* A goroutine waits at the full channel of a handler that waits, in turn, for
\* the goroutine's mutex to cancel.
Jammed == \E m \in Messages, h \in Handlers :
  /\ holder = m /\ h \in left[m]
  /\ handler[h] = "leaving" /\ Len(channel[h]) = ChannelCap

\* Every message is handed to every subscriber and every handler that wants to
\* leave leaves, whatever the order of the goroutines and however slow the
\* clients: only a handler that leaves behind a full channel can jam them.
HandedOut ==
  /\ \A m \in Messages : sending[m] = "spawned" ~> (sending[m] = "sent" \/ Jammed)
  /\ \A h \in Handlers : handler[h] = "leaving" ~> (handler[h] = "gone" \/ Jammed)
=============================================================================
