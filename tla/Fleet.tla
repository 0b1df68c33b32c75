-------------------------------- MODULE Fleet --------------------------------
(***************************************************************************)
(* Nodes, the instances that run on them and the commands queued for them  *)
(* (src/management/node.go, remote_command.go), with the requests of the   *)
(* management API.                                                         *)
(*                                                                         *)
(* An update of the store is one step (AtomicStore).  A command gets its   *)
(* CreatedAt before the update that appends it: commands are named by that *)
(* time, and one stamped earlier may be appended later.  Enabled flags,    *)
(* addresses and actions are carried data and left out.                    *)
(***************************************************************************)
EXTENDS Naturals, FiniteSets

CONSTANTS NodeIds, NodeNames, InstanceIds,
          MaxCommands,    \* bounds the CreatedAt of commands
          None

VARIABLES nodes, instances, commands,
          drafts,         \* commands stamped and not yet appended
          clock           \* CreatedAt of the last command

fleetVars == <<nodes, instances, commands, drafts, clock>>

NodeStatus == {"online", "offline", "unknown"}
InstanceStatus == {"running", "stopped", "unknown"}
CommandStatus == {"pending", "sent", "success", "failed"}
Node == [name : NodeNames, status : NodeStatus, seen : BOOLEAN]
Instance == [node : NodeIds, status : InstanceStatus]
Command == [node : NodeIds, status : CommandStatus, executed : BOOLEAN]
Times == 1..MaxCommands
Opt(S) == S \cup {None}
Has(f) == {x \in DOMAIN f : f[x] # None}

TypeOK ==
  /\ nodes \in [NodeIds -> Opt(Node)]
  /\ instances \in [InstanceIds -> Opt(Instance)]
  /\ commands \in [Times -> Opt(Command)]
  /\ drafts \subseteq Times \X NodeIds
  /\ clock \in 0..MaxCommands

Init ==
  /\ nodes = [n \in NodeIds |-> None]
  /\ instances = [i \in InstanceIds |-> None]
  /\ commands = [c \in Times |-> None]
  /\ drafts = {} /\ clock = 0

-----------------------------------------------------------------------------
(* Nodes *)

NodeNamed(name, n) == \E o \in Has(nodes) \ {n} : nodes[o].name = name
SetNode(n, r) == /\ nodes' = [nodes EXCEPT ![n] = r]
                 /\ UNCHANGED <<instances, commands, drafts, clock>>

CreateNode == \E n \in NodeIds \ Has(nodes), name \in NodeNames, s \in NodeStatus :
  /\ ~NodeNamed(name, n)
  /\ SetNode(n, [name |-> name, status |-> s, seen |-> FALSE])

\* Everything but LastSeen is replaced.
UpdateNode == \E n \in Has(nodes), name \in NodeNames, s \in NodeStatus :
  /\ ~NodeNamed(name, n)
  /\ SetNode(n, [name |-> name, status |-> s, seen |-> nodes[n].seen])

Heartbeat == \E n \in Has(nodes) :
  SetNode(n, [nodes[n] EXCEPT !.status = "online", !.seen = TRUE])

HasInstances(n) == \E i \in Has(instances) : instances[i].node = n
\* Mutant of DeleteNode.
DeleteNode_RunningOnly == \E n \in Has(nodes) :
  /\ ~\E i \in Has(instances) : instances[i].node = n /\ instances[i].status = "running"
  /\ SetNode(n, None)
DeleteNode == \E n \in Has(nodes) : ~HasInstances(n) /\ SetNode(n, None)

handleNode == CreateNode \/ UpdateNode \/ Heartbeat \/ DeleteNode

-----------------------------------------------------------------------------
(* Instances *)

SetInstance(i, r) == /\ instances' = [instances EXCEPT ![i] = r]
                     /\ UNCHANGED <<nodes, commands, drafts, clock>>

CreateInstance == \E i \in InstanceIds \ Has(instances), n \in Has(nodes), s \in InstanceStatus :
  SetInstance(i, [node |-> n, status |-> s])
UpdateInstance == \E i \in Has(instances), n \in Has(nodes), s \in InstanceStatus :
  SetInstance(i, [node |-> n, status |-> s])
SetStatus == \E i \in Has(instances), s \in InstanceStatus :
  SetInstance(i, [instances[i] EXCEPT !.status = s])
DeleteInstance == \E i \in Has(instances) : SetInstance(i, None)

handleInstance == CreateInstance \/ UpdateInstance \/ SetStatus \/ DeleteInstance

-----------------------------------------------------------------------------
(* Remote commands *)

Terminal(c) == commands[c].status \in {"success", "failed"}
Done == {c \in Has(commands) : Terminal(c)}

\* Enqueue takes the time, for a node that need not exist,
Stamp == \E n \in NodeIds :
  /\ clock < MaxCommands
  /\ clock' = clock + 1
  /\ drafts' = drafts \cup {<<clock + 1, n>>}
  /\ UNCHANGED <<nodes, instances, commands>>

\* and appends the command, unless the write fails.
Enqueue == \E d \in drafts :
  /\ drafts' = drafts \ {d}
  /\ \/ commands' = [commands EXCEPT ![d[1]] =
                       [node |-> d[2], status |-> "pending", executed |-> FALSE]]
     \/ UNCHANGED commands
  /\ UNCHANGED <<nodes, instances, clock>>

\* transitionRemoteCommand: a terminal command is locked, and ExecutedAt is
\* taken the first time a command leaves pending.
\* Mutant of Mark.
Mark_Unlocked(c, s) ==
  /\ commands' = [commands EXCEPT ![c] = [@ EXCEPT !.status = s, !.executed = TRUE]]
  /\ UNCHANGED <<nodes, instances, drafts, clock>>
Mark(c, s) ==
  /\ ~Terminal(c)
  /\ commands' = [commands EXCEPT ![c] = [@ EXCEPT !.status = s, !.executed = TRUE]]
  /\ UNCHANGED <<nodes, instances, drafts, clock>>

\* PurgeTerminal keeps the newest terminal commands by CreatedAt.
\* Mutant of Kept.
Kept_Oldest(max) == {c \in Done : Cardinality({o \in Done : o < c}) < max}
Kept(max) == {c \in Done : Cardinality({n \in Done : n > c}) < max}
PurgeTerminal == \E max \in 0..MaxCommands :
  /\ Done \ Kept(max) # {}
  /\ commands' = [c \in Times |-> IF c \in Done \ Kept(max) THEN None ELSE commands[c]]
  /\ UNCHANGED <<nodes, instances, drafts, clock>>

handleRemoteCommand ==
  \/ Stamp \/ Enqueue \/ PurgeTerminal
  \/ \E c \in Has(commands), s \in CommandStatus \ {"pending"} : Mark(c, s)

Next == handleNode \/ handleInstance \/ handleRemoteCommand

Spec == Init /\ [][Next]_fleetVars

-----------------------------------------------------------------------------
(* Properties *)

\* Whatever order creates, moves and deletes come in, the node of an instance
\* exists and two nodes never share a name (NodeService.Delete, InstanceService).
InstancesHosted ==
  /\ \A i \in Has(instances) : instances[i].node \in Has(nodes)
  /\ \A a, b \in Has(nodes) : nodes[a].name = nodes[b].name => a = b

\* What a step of this service may do: the outcome of a command is final, and
\* one that has none is never purged; a command has ExecutedAt exactly when it
\* has left pending.
CommandsFinal == \A c \in Has(commands) :
  /\ Terminal(c) => commands'[c] \in {None, commands[c]}
  /\ ~Terminal(c) => commands'[c] # None /\ commands'[c].node = commands[c].node
  /\ commands[c].executed = (commands[c].status # "pending")

\* A purge never removes an outcome and keeps an older one, though commands
\* are not appended in the order of their CreatedAt.
NewestKept == \A old, new \in Done :
  old < new /\ commands'[new] = None => commands'[old] = None
=============================================================================
