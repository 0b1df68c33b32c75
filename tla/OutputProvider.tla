---------------------------- MODULE OutputProvider ----------------------------
(***************************************************************************)
(* The output provider (src/module/output/provider), the keeper channels   *)
(* it waits on (src/module/module.go) and the failover adapter that cycles *)
(* an output through it (src/server/output_adapter.go).                    *)
(*                                                                         *)
(* Clients are goroutines inside OutputAdd, OutputRemove or ActivateOutput. *)
(* They send prompts to the core library and wait for the message that     *)
(* answers; Callbacks are the threads on which the core delivers messages. *)
(* The core is external: it answers every prompt, in any order, with       *)
(* success or an error, and may lose an output it pushes to at any time.   *)
(*                                                                         *)
(* Only RemoveOutputByUnique and AppendOutput lock the list. Readers take  *)
(* no lock, so a check and what follows it are separate steps, and the     *)
(* Connected flag is written through a pointer into an array that the list *)
(* may have left.                                                          *)
(***************************************************************************)
EXTENDS Integers, Sequences, FiniteSets

CONSTANTS
  Outputs,     \* output uniques, each with one path
  Clients,     \* goroutines calling the provider
  Callbacks,   \* threads of the core that deliver messages
  Configured,  \* the outputs of the configuration file
  ChanCap,     \* capacity of reconnectChan
  MaxPrompts,  \* a call sends no prompt while as many of its kind are in flight
  NoOutput

ASSUME ProviderAssumption ==
  /\ Configured \subseteq Outputs
  /\ NoOutput \notin Outputs
  /\ ChanCap \in Nat \ {0} /\ MaxPrompts \in Nat \ {0}

VARIABLES
  reconnecting,  \* reconnectInternal > 0
  list,          \* configList: absent, or listed with Connected false or true
  reconnectChan,
  sleeper,       \* the output StartReconnect is about to retry
  client,        \* the calls
  msg,           \* the message each callback thread is delivering
  prompts,       \* external: the prompts the core has not answered
  pushing,       \* external: the outputs the core pushes to
  fatal,         \* log.Fatal or a nil dereference has ended the process
  raced          \* history: the outputs two overlapping adds have prompted for

coreVars == <<prompts, pushing>>
vars == <<reconnecting, list, reconnectChan, sleeper, client, msg, coreVars, fatal, raced>>

-----------------------------------------------------------------------------
Kinds == {"add", "remove"}

\* A call: the two prompts, and whether an add follows (ActivateOutput).
Steps == {"idle", "remove", "drop", "sendRemove", "add", "sendAdd", "append",
          "register", "wait"}
Call == [pc : Steps, kind : Kinds, output : Outputs \cup {NoOutput}, then : BOOLEAN]
Idle == [pc |-> "idle", kind |-> "add", output |-> NoOutput, then |-> FALSE]
At(pc, kind, u, then) == [pc |-> pc, kind |-> kind, output |-> u, then |-> then]

\* A message: what is still to do in ParseMessage, and Trigger. stale: the
\* pointer it holds into the list has been left behind.
Stages == {"none", "send", "lookup", "status", "remove", "trigger"}
Actions == {"add", "remove", "disconnect"}
Msg == [stage : Stages, action : Actions, output : Outputs \cup {NoOutput},
        error : BOOLEAN, stale : BOOLEAN]
NoMsg == [stage |-> "none", action |-> "add", output |-> NoOutput,
          error |-> FALSE, stale |-> FALSE]

Init ==
  /\ reconnecting \in BOOLEAN
  /\ list = [u \in Outputs |-> IF u \in Configured THEN "down" ELSE "none"]
  /\ reconnectChan = <<>> /\ sleeper = NoOutput
  /\ client = [c \in Clients |-> Idle]
  /\ msg = [b \in Callbacks |-> NoMsg]
  \* BeginRunning has handed the configured outputs to the core.
  /\ prompts = [k \in Kinds |-> [u \in Outputs |->
                  IF k = "add" /\ u \in Configured THEN 1 ELSE 0]]
  /\ pushing = {}
  /\ fatal = FALSE /\ raced = {}

-----------------------------------------------------------------------------
\* A dead process takes no step.
Running == ~fatal /\ fatal' = FALSE

(***************************************************************************)
(* The list.                                                               *)
(***************************************************************************)

Listed(u) == list[u] # "none"

\* RemoveOutputByUnique builds a new array: pointers into the old one write to
\* nothing.
Abandon(b) == IF msg[b].stage = "status" THEN [msg[b] EXCEPT !.stale = TRUE] ELSE msg[b]
Unlist(u) == list' = [list EXCEPT ![u] = "none"]

\* AppendOutput does the same when the array is full.
Enlist(u) ==
  /\ list' = [list EXCEPT ![u] = "down"]
  /\ \/ UNCHANGED msg
     \/ msg' = [b \in Callbacks |-> Abandon(b)]

Send(kind, u) ==
  /\ prompts' = [prompts EXCEPT ![kind][u] = @ + 1]
  /\ UNCHANGED pushing

-----------------------------------------------------------------------------
(***************************************************************************)
(* The calls.                                                              *)
(***************************************************************************)

Goto(c, pc) == client' = [client EXCEPT ![c].pc = pc]
Return(c) == client' = [client EXCEPT ![c] = Idle]

\* What ActivateOutput does once the output is removed, or was not found.
Proceed(c) ==
  IF client[c].then
    THEN client' = [client EXCEPT ![c] = At("add", "add", client[c].output, FALSE)]
    ELSE Return(c)

OutputAdd(c) ==
  /\ Running
  /\ client[c] = Idle
  /\ \E u \in Outputs : client' = [client EXCEPT ![c] = At("add", "add", u, FALSE)]
  /\ UNCHANGED <<raced, reconnecting, list, reconnectChan, sleeper, msg, coreVars>>

OutputRemove(c) ==
  /\ Running
  /\ client[c] = Idle
  /\ \E u \in Outputs : client' = [client EXCEPT ![c] = At("remove", "remove", u, FALSE)]
  /\ UNCHANGED <<raced, reconnecting, list, reconnectChan, sleeper, msg, coreVars>>

\* The adapter finds the path of the output in the list, or fails.
ActivateOutput(c) ==
  /\ Running
  /\ client[c] = Idle
  /\ \E u \in Outputs :
       /\ Listed(u)
       /\ client' = [client EXCEPT ![c] = At("remove", "remove", u, TRUE)]
  /\ UNCHANGED <<raced, reconnecting, list, reconnectChan, sleeper, msg, coreVars>>

\* OutputRemove looks at the output: a connected one is the core's to remove.
RemoveCheck(c) ==
  /\ Running
  /\ client[c].pc = "remove"
  /\ CASE list[client[c].output] = "none" -> Proceed(c)
       [] list[client[c].output] = "down" -> Goto(c, "drop")
       [] list[client[c].output] = "up"   -> Goto(c, "sendRemove")
  /\ UNCHANGED <<raced, reconnecting, list, reconnectChan, sleeper, msg, coreVars>>

RemoveDrop(c) ==
  /\ Running
  /\ client[c].pc = "drop"
  /\ IF Listed(client[c].output)
       THEN Unlist(client[c].output) /\ msg' = [b \in Callbacks |-> Abandon(b)]
       ELSE UNCHANGED <<list, msg>>
  /\ Proceed(c)
  /\ UNCHANGED <<raced, reconnecting, reconnectChan, sleeper, coreVars>>

RemoveSend(c) ==
  /\ Running
  /\ client[c].pc = "sendRemove"
  /\ prompts["remove"][client[c].output] < MaxPrompts
  /\ Send("remove", client[c].output)
  /\ Goto(c, "register")
  /\ UNCHANGED <<raced, reconnecting, list, reconnectChan, sleeper, msg>>

\* addOutput: the check, the prompt, and the list, which checks again.
AddCheck(c) ==
  /\ Running
  /\ client[c].pc = "add"
  /\ IF Listed(client[c].output) THEN Return(c) ELSE Goto(c, "sendAdd")
  /\ UNCHANGED <<raced, reconnecting, list, reconnectChan, sleeper, msg, coreVars>>

\* Another add of the same output has prompted since this one looked.
Overtaken(c) ==
  \/ Listed(client[c].output)
  \/ \E d \in Clients : client[d].pc = "append" /\ client[d].output = client[c].output

AddSend(c) ==
  /\ Running
  /\ client[c].pc = "sendAdd"
  /\ prompts["add"][client[c].output] < MaxPrompts
  /\ Send("add", client[c].output)
  /\ Goto(c, "append")
  /\ raced' = IF Overtaken(c) THEN raced \cup {client[c].output} ELSE raced
  /\ UNCHANGED <<reconnecting, list, reconnectChan, sleeper, msg>>

AddAppend(c) ==
  /\ Running
  /\ client[c].pc = "append"
  /\ IF Listed(client[c].output)
       THEN Return(c) /\ UNCHANGED <<list, msg>>
       ELSE Enlist(client[c].output) /\ Goto(c, "register")
  /\ UNCHANGED <<raced, reconnecting, reconnectChan, sleeper, coreVars>>

\* RegisterKeeperChannel, and Wait, which no context bounds.
Register(c) ==
  /\ Running
  /\ client[c].pc = "register"
  /\ Goto(c, "wait")
  /\ UNCHANGED <<raced, reconnecting, list, reconnectChan, sleeper, msg, coreVars>>

-----------------------------------------------------------------------------
(***************************************************************************)
(* The core.                                                               *)
(***************************************************************************)

\* Where ParseMessage begins with a message. A failed add is retried, or not
\* even taken off the list.
First_DropsFailedAdd(action, error) ==
  CASE action = "add" /\ error /\ reconnecting -> "trigger"
    [] action = "add" /\ error /\ ~reconnecting -> "trigger"
    [] action = "add" /\ ~error -> "lookup"
    [] action = "disconnect" /\ reconnecting -> "send"
    [] OTHER -> "remove"
First(action, error) ==
  CASE action = "add" /\ error /\ reconnecting -> "send"
    [] action = "add" /\ error /\ ~reconnecting -> "trigger"
    [] action = "add" /\ ~error -> "lookup"
    [] action = "disconnect" /\ reconnecting -> "send"
    [] OTHER -> "remove"

Deliver(action, u, error) ==
  \E b \in Callbacks :
    /\ msg[b] = NoMsg
    /\ msg' = [msg EXCEPT ![b] =
                 [stage |-> First(action, error), action |-> action, output |-> u,
                  error |-> error, stale |-> FALSE]]

Answer(kind, u) ==
  /\ Running
  /\ prompts[kind][u] > 0
  /\ prompts' = [prompts EXCEPT ![kind][u] = @ - 1]
  /\ \E error \in BOOLEAN :
       /\ Deliver(kind, u, error)
       /\ pushing' = CASE error -> pushing
                       [] kind = "add" /\ ~error -> pushing \cup {u}
                       [] kind = "remove" /\ ~error -> pushing \ {u}
  /\ UNCHANGED <<raced, reconnecting, list, reconnectChan, sleeper, client>>

Disconnect(u) ==
  /\ Running
  /\ u \in pushing
  /\ pushing' = pushing \ {u}
  /\ Deliver("disconnect", u, TRUE)
  /\ UNCHANGED <<raced, reconnecting, list, reconnectChan, sleeper, client, prompts>>

-----------------------------------------------------------------------------
(***************************************************************************)
(* ParseMessage and Trigger, on a callback thread.                         *)
(***************************************************************************)

Stage(b, stage) == msg' = [msg EXCEPT ![b].stage = stage]

\* The retry; a full channel holds the thread.
ParseSend_Unbounded(b) ==
  /\ Running
  /\ msg[b].stage = "send"
  /\ reconnectChan' = Append(reconnectChan, msg[b].output)
  /\ Stage(b, IF msg[b].action = "add" THEN "trigger" ELSE "lookup")
  /\ UNCHANGED <<raced, reconnecting, list, sleeper, client, coreVars>>
ParseSend(b) ==
  /\ Running
  /\ msg[b].stage = "send"
  /\ Len(reconnectChan) < ChanCap
  /\ reconnectChan' = Append(reconnectChan, msg[b].output)
  /\ Stage(b, IF msg[b].action = "add" THEN "trigger" ELSE "lookup")
  /\ UNCHANGED <<raced, reconnecting, list, sleeper, client, coreVars>>

\* GetOutputByUnique; an output that is not listed is fatal.
ParseLookup(b) ==
  /\ ~fatal
  /\ msg[b].stage = "lookup"
  /\ IF Listed(msg[b].output)
       THEN Stage(b, "status") /\ UNCHANGED fatal
       ELSE fatal' = TRUE /\ UNCHANGED msg
  /\ UNCHANGED <<raced, reconnecting, list, reconnectChan, sleeper, client, coreVars>>

\* Connected is written through the pointer.
ParseStatus(b) ==
  /\ Running
  /\ msg[b].stage = "status"
  /\ list' = IF msg[b].stale THEN list
             ELSE [list EXCEPT ![msg[b].output] =
                     IF msg[b].action = "add" THEN "up" ELSE "down"]
  /\ Stage(b, "trigger")
  /\ UNCHANGED <<raced, reconnecting, reconnectChan, sleeper, client, coreVars>>

\* Also when the core reports that it could not remove the output.
ParseRemove(b) ==
  /\ ~fatal
  /\ msg[b].stage = "remove"
  /\ IF Listed(msg[b].output)
       THEN /\ Unlist(msg[b].output)
            /\ msg' = [x \in Callbacks |->
                         IF x = b THEN [msg[b] EXCEPT !.stage = "trigger"] ELSE Abandon(x)]
            /\ UNCHANGED fatal
       ELSE fatal' = TRUE /\ UNCHANGED <<list, msg>>
  /\ UNCHANGED <<raced, reconnecting, reconnectChan, sleeper, client, coreVars>>

\* Trigger hands the message to every registered waiter it answers. A removal
\* that failed ends ActivateOutput.
Answered_OnlySuccess(b) ==
  {c \in Clients : /\ client[c].pc = "wait" /\ ~msg[b].error
                   /\ client[c].kind = msg[b].action /\ client[c].output = msg[b].output}
Answered(b) ==
  {c \in Clients : /\ client[c].pc = "wait"
                   /\ client[c].kind = msg[b].action /\ client[c].output = msg[b].output}

Trigger(b) ==
  /\ Running
  /\ msg[b].stage = "trigger"
  /\ client' = [c \in Clients |->
       IF c \notin Answered(b) THEN client[c]
       ELSE IF client[c].then /\ ~msg[b].error
         THEN At("add", "add", client[c].output, FALSE)
       ELSE Idle]
  /\ msg' = [msg EXCEPT ![b] = NoMsg]
  /\ UNCHANGED <<raced, reconnecting, list, reconnectChan, sleeper, coreVars>>

-----------------------------------------------------------------------------
(***************************************************************************)
(* StartReconnect takes a retry, sleeps, and prompts the core again.       *)
(***************************************************************************)
Take ==
  /\ Running
  /\ reconnectChan # <<>> /\ sleeper = NoOutput
  /\ sleeper' = Head(reconnectChan) /\ reconnectChan' = Tail(reconnectChan)
  /\ UNCHANGED <<raced, reconnecting, list, client, msg, coreVars>>

Retry ==
  /\ Running
  /\ sleeper # NoOutput
  /\ Send("add", sleeper)
  /\ sleeper' = NoOutput
  /\ UNCHANGED <<raced, reconnecting, list, reconnectChan, client, msg>>

-----------------------------------------------------------------------------
Calls(c) ==
  \/ OutputAdd(c) \/ OutputRemove(c) \/ ActivateOutput(c)

Working(c) ==
  \/ RemoveCheck(c) \/ RemoveDrop(c) \/ RemoveSend(c)
  \/ AddCheck(c) \/ AddSend(c) \/ AddAppend(c) \/ Register(c)

Parsing(b) ==
  \/ ParseSend(b) \/ ParseLookup(b) \/ ParseStatus(b) \/ ParseRemove(b) \/ Trigger(b)

Core == \E u \in Outputs : Disconnect(u) \/ \E k \in Kinds : Answer(k, u)

Next ==
  \/ \E c \in Clients : Calls(c) \/ Working(c)
  \/ \E b \in Callbacks : Parsing(b)
  \/ Core \/ Take \/ Retry

Spec == Init /\ [][Next]_vars

(***************************************************************************)
(* Fairness: goroutines and threads that can go on do, and the core        *)
(* answers every prompt. Nobody has to call, and no output has to fail.    *)
(***************************************************************************)
Fairness ==
  /\ WF_vars(Take) /\ WF_vars(Retry)
  /\ \A c \in Clients : WF_vars(Working(c))
  /\ \A b \in Callbacks : SF_vars(Parsing(b))
  /\ \A k \in Kinds, u \in Outputs : SF_vars(Answer(k, u))

FairSpec == Spec /\ Fairness

-----------------------------------------------------------------------------
(***************************************************************************)
(* Properties.                                                             *)
(***************************************************************************)

\* Every variable has its type.
TypeOK ==
  /\ reconnecting \in BOOLEAN
  /\ list \in [Outputs -> {"none", "down", "up"}]
  /\ reconnectChan \in Seq(Outputs) /\ Len(reconnectChan) <= ChanCap
  /\ sleeper \in Outputs \cup {NoOutput}
  /\ client \in [Clients -> Call] /\ msg \in [Callbacks -> Msg]
  /\ prompts \in [Kinds -> [Outputs -> Nat]]
  /\ pushing \subseteq Outputs /\ fatal \in BOOLEAN /\ raced \subseteq Outputs

\* With reconnection on, no listed output is forgotten: the core pushes to it,
\* or a message about it, a retry or a prompt that will bring it back is under
\* way, whatever calls, failures and retries overlap. (Two adds of one output
\* can leave an entry whose prompt was answered before it was listed.)
RetryPending(u) ==
  \/ prompts["add"][u] > 0
  \/ sleeper = u \/ \E i \in 1..Len(reconnectChan) : reconnectChan[i] = u
  \/ \E b \in Callbacks : msg[b].output = u /\ msg[b].stage \in {"send", "remove"}
NoneForgotten ==
  reconnecting => \A u \in Outputs \ raced :
    Listed(u) => u \in pushing \/ RetryPending(u)

\* A call that waits while the prompt it is about is unanswered returns: no
\* full retry channel, busy callback thread or other waiter keeps the answer
\* from it.
AnswerReachesWaiter ==
  \A c \in Clients, k \in Kinds, u \in Outputs :
    (/\ client[c].pc = "wait" /\ client[c].kind = k /\ client[c].output = u
     /\ prompts[k][u] > 0)
      ~> (client[c].pc # "wait" \/ fatal)

-----------------------------------------------------------------------------
(***************************************************************************)
(* What the comments of the code say and the code does not do.             *)
(***************************************************************************)

\* "Every provider call is bounded by a short timeout": a call returns, or
\* goes on to its next prompt.
EveryCallReturns ==
  \A c \in Clients : (client[c].pc = "wait") ~> (client[c].pc # "wait" \/ fatal)
=============================================================================
