---------------------------- MODULE ServicesProofs ----------------------------
(***************************************************************************)
(* Proofs about the services of the management API and the resources of    *)
(* the core library (Services), each for any number of records, requests   *)
(* under way and values.                                                   *)
(***************************************************************************)
EXTENDS Services, FiniteSets, FunctionTheorems, FiniteSetTheorems, SequenceTheorems, TLAPS

\* A module that is instantiated counts as this one does.
LEMMA Counts == \A S : /\ N!Cardinality(S) = Cardinality(S)
                       /\ R!Cardinality(S) = Cardinality(S)
                       /\ C!Cardinality(S) = Cardinality(S)
                       /\ U!Cardinality(S) = Cardinality(S)
                       /\ G!Cardinality(S) = Cardinality(S)
                       /\ E!Cardinality(S) = Cardinality(S)
                       /\ Q!Cardinality(S) = Cardinality(S)
                       /\ I!Cardinality(S) = Cardinality(S)
<1>1. \A S : N!Cardinality(S) = Cardinality(S)
  BY DEF N!Cardinality, Cardinality
<1>2. \A S : R!Cardinality(S) = Cardinality(S)
  BY DEF R!Cardinality, Cardinality
<1>3. \A S : C!Cardinality(S) = Cardinality(S)
  BY DEF C!Cardinality, Cardinality
<1>4. \A S : U!Cardinality(S) = Cardinality(S)
  BY DEF U!Cardinality, Cardinality
<1>5. \A S : G!Cardinality(S) = Cardinality(S)
  BY DEF G!Cardinality, Cardinality
<1>6. \A S : E!Cardinality(S) = Cardinality(S)
  BY DEF E!Cardinality, Cardinality
<1>7. \A S : I!Cardinality(S) = Cardinality(S)
  BY DEF I!Cardinality, Cardinality
<1>8. \A S : Q!Cardinality(S) = Cardinality(S)
  BY DEF Q!Cardinality, Cardinality
<1>. QED BY <1>1, <1>2, <1>3, <1>4, <1>5, <1>6, <1>7, <1>8

-----------------------------------------------------------------------------
(* What a loop collects of a list (Lists) *)

\* The least of a set of numbers.
LeastOf(S) == CHOOSE x \in S : \A y \in S : x <= y
LEMMA LeastIs ==
  ASSUME NEW S, S \subseteq Nat, S # {}
  PROVE  LeastOf(S) \in S /\ \A y \in S : LeastOf(S) <= y
<1>1. PICK x \in S : \A y \in S : ~(<<y, x>> \in OpToRel(<, Nat))
  BY NatLessThanWellFounded, WFMin
<1>2. \A y \in S : x <= y
  <2>1. ASSUME NEW y \in S, y < x PROVE FALSE
    <3>1. <<y, x>> \in Nat \X Nat /\ <<y, x>>[1] = y /\ <<y, x>>[2] = x
      OBVIOUS
    <3>2. <<y, x>>[1] < <<y, x>>[2]
      BY <2>1, <3>1, Zenon
    <3>3. <<y, x>> \in OpToRel(<, Nat)
      BY <3>1, <3>2, Zenon DEF OpToRel
    <3>. QED BY <1>1, <3>3, Zenon
  <2>2. x \in Nat /\ \A y \in S : y \in Nat
    OBVIOUS
  <2>3. \A y \in S : ~(y < x)
    BY <2>1
  <2>. QED BY <2>2, <2>3
<1>. QED BY <1>2 DEF LeastOf

RankOf(K, i) == Cardinality({h \in K : h <= i})
SomeOf(s, K) == [n \in 1..Cardinality(K) |-> s[CHOOSE i \in K : RankOf(K, i) = n]]

\* The n-th position is there, and only once.
LEMMA Ranks ==
  ASSUME NEW K, IsFiniteSet(K), K \subseteq Nat
  PROVE  /\ \A n \in 1..Cardinality(K) : \E i \in K : RankOf(K, i) = n
         /\ \A i, j \in K : RankOf(K, i) = RankOf(K, j) => i = j
         /\ \A i \in K : RankOf(K, i) \in 1..Cardinality(K)
<1>. DEFINE rank == [i \in K |-> RankOf(K, i)]
<1>1. \A i \in K : /\ RankOf(K, i) \in 1..Cardinality(K) /\ RankOf(K, i) \in Nat
  <2>. SUFFICES ASSUME NEW i \in K PROVE RankOf(K, i) \in 1..Cardinality(K) /\ RankOf(K, i) \in Nat
    OBVIOUS
  <2>. DEFINE upto == {h \in K : h <= i}
  <2>1. upto \in SUBSET K /\ upto # {}
    OBVIOUS
  <2>2. IsFiniteSet(upto) /\ Cardinality(upto) <= Cardinality(K)
    BY <2>1, FS_Subset
  <2>3. Cardinality(upto) \in Nat /\ Cardinality(K) \in Nat /\ Cardinality(upto) # 0
    BY <2>1, <2>2, FS_EmptySet, FS_CardinalityType
  <2>. QED BY <2>2, <2>3 DEF RankOf
<1>2. ASSUME NEW i \in K, NEW j \in K, i < j PROVE RankOf(K, i) # RankOf(K, j)
  <2>. DEFINE A == {h \in K : h <= i}
              B == {h \in K : h <= j}
  <2>0. i \in Nat /\ j \in Nat /\ \A h \in K : h \in Nat
    OBVIOUS
  <2>1. A \in SUBSET B /\ j \in B \ A
    <3>1. \A h \in A : h \in B
      BY <1>2, <2>0
    <3>2. j \in B /\ ~(j <= i)
      BY <1>2, <2>0
    <3>. QED BY <3>1, <3>2
  <2>2. B \in SUBSET K
    OBVIOUS
  <2>3. RankOf(K, i) = Cardinality(A) /\ RankOf(K, j) = Cardinality(B)
    BY DEF RankOf
  <2>. HIDE DEF A, B
  <2>4. IsFiniteSet(B)
    BY <2>2, FS_Subset
  <2>5. Cardinality(A) # Cardinality(B)
    BY <2>1, <2>4, FS_Subset
  <2>. QED BY <2>3, <2>5
<1>3. \A i, j \in K : RankOf(K, i) = RankOf(K, j) => i = j
  <2>1. \A i, j \in K : i < j \/ i = j \/ j < i
    OBVIOUS
  <2>. QED BY <1>2, <2>1
<1>4. rank \in Injection(K, 1..Cardinality(K))
  BY <1>1, <1>3 DEF Injection, IsInjective
<1>5. Cardinality(K) \in Nat /\ IsFiniteSet(1..Cardinality(K)) /\ Cardinality(1..Cardinality(K)) = Cardinality(K)
  BY FS_CardinalityType, FS_Interval
<1>6. rank \in Surjection(K, 1..Cardinality(K))
  <2>. HIDE DEF rank
  <2>. QED BY <1>4, <1>5, FS_Injection
<1>7. \A n \in 1..Cardinality(K) : \E i \in K : RankOf(K, i) = n
  BY <1>6 DEF Surjection
<1>. QED BY <1>1, <1>3, <1>7

\* It is of as many elements as there are positions, those at the positions and
\* no others; where these are distinct, so are those.
LEMMA Collected ==
  ASSUME NEW S, NEW s \in Seq(S), NEW K, K \subseteq DOMAIN s
  PROVE  /\ IsFiniteSet(K) /\ SomeOf(s, K) \in Seq(S) /\ Len(SomeOf(s, K)) = Cardinality(K)
         /\ \A n \in DOMAIN SomeOf(s, K) : \E i \in K : SomeOf(s, K)[n] = s[i] /\ RankOf(K, i) = n
         /\ \A i \in K : RankOf(K, i) \in DOMAIN SomeOf(s, K) /\ SomeOf(s, K)[RankOf(K, i)] = s[i]
<1>1. DOMAIN s = 1..Len(s) /\ Len(s) \in Nat /\ \A i \in 1..Len(s) : s[i] \in S
  BY LenProperties, ElementOfSeq
<1>2. IsFiniteSet(K) /\ K \subseteq Nat
  <2>1. IsFiniteSet(1..Len(s)) /\ K \in SUBSET (1..Len(s))
    BY <1>1, FS_Interval
  <2>. QED BY <2>1, FS_Subset
<1>3. Cardinality(K) \in Nat
  BY <1>2, FS_CardinalityType
<1>. DEFINE at(n) == CHOOSE i \in K : RankOf(K, i) = n
<1>4. \A n \in 1..Cardinality(K) : at(n) \in K /\ RankOf(K, at(n)) = n
  BY <1>2, Ranks
<1>5. \A i \in K : RankOf(K, i) \in 1..Cardinality(K) /\ at(RankOf(K, i)) = i
  BY <1>2, <1>4, Ranks
<1>6. SomeOf(s, K) = [n \in 1..Cardinality(K) |-> s[at(n)]]
  BY DEF SomeOf
<1>. HIDE DEF at
<1>7. SomeOf(s, K) \in [1..Cardinality(K) -> S]
  BY <1>1, <1>4, <1>6
<1>8. SomeOf(s, K) \in Seq(S) /\ Len(SomeOf(s, K)) = Cardinality(K)
      /\ DOMAIN SomeOf(s, K) = 1..Cardinality(K)
  BY <1>3, <1>7, IsASeq, LenProperties
<1>. QED BY <1>2, <1>4, <1>5, <1>6, <1>8

\* Later positions come later.
LEMMA RankGrows ==
  ASSUME NEW K, IsFiniteSet(K), K \subseteq Nat, NEW i \in Nat, NEW j \in Nat, i <= j
  PROVE  RankOf(K, i) <= RankOf(K, j)
<1>. DEFINE A == {h \in K : h <= i}
            B == {h \in K : h <= j}
<1>1. A \in SUBSET B /\ B \in SUBSET K
  <2>1. ASSUME NEW h \in A PROVE h \in B
    <3>1. h \in K /\ h \in Nat /\ h <= i
      OBVIOUS
    <3>2. h <= j
      BY <3>1
    <3>. QED BY <3>1, <3>2
  <2>2. B \subseteq K
    OBVIOUS
  <2>. HIDE DEF A, B
  <2>. QED BY <2>1, <2>2
<1>2. RankOf(K, i) = Cardinality(A) /\ RankOf(K, j) = Cardinality(B)
  BY DEF RankOf
<1>. HIDE DEF A, B
<1>. QED BY <1>1, <1>2, FS_Subset

-----------------------------------------------------------------------------
(* The document and its snapshots                                          *)
(*                                                                         *)
(* A step of Services moves its services, captures the document or puts a  *)
(* captured one in its place.  What a service needs of its collections     *)
(* holds of those of every document captured, with what is under way now:  *)
(* this is what a restore asks for.                                        *)

\* The collections of a document, by their names.
LEMMA Documents ==
  /\ Document.media = media /\ Document.playlists = playlists /\ Document.tasks = tasks
  /\ Document.caches = caches /\ Document.scenes = scenes /\ Document.stale = stale
  /\ Document.nodes = nodes /\ Document.instances = instances /\ Document.commands = commands
  /\ Document.users = users /\ Document.sessions = sessions
  /\ Document.groups = groups /\ Document.policies = policies
  /\ Document.events = events /\ Document.audit = audit
  /\ Document.library = library /\ Document.deployed = deployed /\ Document.planned = planned
  /\ Document.sceneNames = sceneNames /\ Document.templates = templates
  /\ Document.rules = rules /\ Document.suggestions = suggestions
  /\ Document.alarms = alarms /\ Document.subs = subs /\ Document.deliveries = deliveries
  /\ Document.timedTasks = timedTasks
BY DEF Document

ServicesRest ==
  UNCHANGED <<libVars, fleetVars, accountVars, regVars, ledgerVars, programVars,
              timeVars, incidentVars>>

\* What a step is to the services whose collections are in the document.
LEMMA StepIs ==
  ASSUME [Next]_vars
  PROVE  \/ Moves
         \/ ServicesRest /\ saved' = saved \cup {Document}
         \/ /\ saved' = saved
            /\ \E d \in saved : Replaced(d) /\ UNCHANGED underWay
<1>1. CASE UNCHANGED vars
  BY <1>1, Zenon DEF vars, Moves
<1>2. CASE Capture
  BY <1>2, Zenon DEF Capture, ServicesRest
<1>3. CASE Restore
  BY <1>3, Zenon DEF Restore
<1>. QED BY <1>1, <1>2, <1>3 DEF Next

\* The snapshots and the resources have no collection in a document.
LEMMA OthersApart == Spec => C!Spec /\ R!Spec
<1>1. Init => C!Init /\ R!Init
  BY DEF Init
<1>2. [Next]_vars => [C!Next]_(C!snapVars) /\ [R!Next]_(R!resVars)
  <2>1. CASE Moves
    BY <2>1 DEF Moves, snapVars, resVars, C!snapVars, R!resVars
  <2>2. CASE Capture \/ Restore \/ UNCHANGED vars
    <3>1. UNCHANGED <<snapVars, resVars>>
      BY <2>2, Zenon DEF Capture, Restore, vars
    <3>. QED BY <3>1 DEF snapVars, resVars, C!snapVars, R!resVars
  <2>. QED BY <2>1, <2>2 DEF Next
<1>. QED BY <1>1, <1>2, PTL DEF Spec, C!Spec, R!Spec

-----------------------------------------------------------------------------
(* Fleet *)

\* A command has one draft, which is gone when it is appended, and its time
\* has been taken.
Appendable ==
  /\ \A d \in commandDrafts : d[1] <= commandClock /\ commands[d[1]] = None
  /\ \A d, e \in commandDrafts : d[1] = e[1] => d = e
  /\ \A c \in N!Has(commands) : c <= commandClock
\* A command has ExecutedAt exactly when it has left pending.
Executed == \A c \in N!Has(commands) : commands[c].executed = (commands[c].status # "pending")

FleetInv == N!TypeOK /\ N!InstancesHosted /\ Appendable /\ Executed

LEMMA FleetInit == ASSUME FleetAssumption, N!Init PROVE FleetInv
<1>1. N!TypeOK
  BY DEF FleetAssumption, N!Init, N!TypeOK, N!Opt
<1>2. N!Has(nodes) = {} /\ N!Has(instances) = {} /\ N!Has(commands) = {}
  BY DEF N!Init, N!Has
<1>3. commandDrafts = {}
  BY DEF N!Init
<1>. QED BY <1>1, <1>2, <1>3 DEF FleetInv, N!InstancesHosted, Appendable, Executed

LEMMA NodesStep == ASSUME FleetAssumption, FleetInv, N!handleNode PROVE FleetInv'
<1>1. /\ UNCHANGED <<instances, commands, commandDrafts, commandClock>>
      /\ \E n \in NodeIds, r \in N!Node \cup {None} :
           /\ nodes' = [nodes EXCEPT ![n] = r]
           /\ r = None => ~N!HasInstances(n)
           /\ r # None => \A o \in N!Has(nodes) \ {n} : nodes[o].name # r.name
  <2>0. ASSUME NEW n \in NodeIds, NEW r \in N!Node, N!SetNode(n, r),
               \A o \in N!Has(nodes) \ {n} : nodes[o].name # r.name
        PROVE  <1>1
    BY <2>0 DEF N!SetNode, FleetAssumption
  <2>1. CASE N!CreateNode
    <3>1. PICK n \in NodeIds \ N!Has(nodes), name \in NodeNames, s \in N!NodeStatus :
            /\ ~N!NodeNamed(name, n)
            /\ N!SetNode(n, [name |-> name, status |-> s, seen |-> FALSE])
      BY <2>1 DEF N!CreateNode
    <3>2. /\ [name |-> name, status |-> s, seen |-> FALSE] \in N!Node
          /\ [name |-> name, status |-> s, seen |-> FALSE].name = name
      BY DEF N!Node
    <3>. QED BY <3>1, <3>2, <2>0 DEF N!NodeNamed
  <2>2. CASE N!UpdateNode
    <3>1. PICK n \in N!Has(nodes), name \in NodeNames, s \in N!NodeStatus :
            /\ ~N!NodeNamed(name, n)
            /\ N!SetNode(n, [name |-> name, status |-> s, seen |-> nodes[n].seen])
      BY <2>2 DEF N!UpdateNode
    <3>2. n \in NodeIds /\ nodes[n] \in N!Node
      BY <3>1 DEF N!Has, FleetInv, N!TypeOK, N!Opt
    <3>3. /\ [name |-> name, status |-> s, seen |-> nodes[n].seen] \in N!Node
          /\ [name |-> name, status |-> s, seen |-> nodes[n].seen].name = name
      BY <3>2 DEF N!Node
    <3>. QED BY <3>1, <3>2, <3>3, <2>0 DEF N!NodeNamed
  <2>3. CASE N!Heartbeat
    <3>1. PICK n \in N!Has(nodes) :
            N!SetNode(n, [nodes[n] EXCEPT !.status = "online", !.seen = TRUE])
      BY <2>3 DEF N!Heartbeat
    <3>2. n \in NodeIds /\ nodes[n] \in N!Node
      BY <3>1 DEF N!Has, FleetInv, N!TypeOK, N!Opt
    <3>a. /\ [nodes[n] EXCEPT !.status = "online", !.seen = TRUE] \in N!Node
          /\ [nodes[n] EXCEPT !.status = "online", !.seen = TRUE].name = nodes[n].name
      BY <3>2 DEF N!Node, N!NodeStatus
    <3>3. PICK r \in N!Node : /\ r = [nodes[n] EXCEPT !.status = "online", !.seen = TRUE]
                              /\ r.name = nodes[n].name
      BY <3>a, Zenon
    <3>4. n \in N!Has(nodes) /\ n \in NodeIds
      BY <3>1, <3>2
    <3>5. \A o \in N!Has(nodes) \ {n} : nodes[o].name # r.name
      BY <3>3, <3>4 DEF FleetInv, N!InstancesHosted
    <3>6. N!SetNode(n, r)
      BY <3>1, <3>3
    <3>. QED BY <3>4, <3>5, <3>6, <2>0
  <2>4. CASE N!DeleteNode
    BY <2>4 DEF N!DeleteNode, N!SetNode, N!Has, FleetInv, N!TypeOK
  <2>. QED BY <2>1, <2>2, <2>3, <2>4 DEF N!handleNode
<1>2. PICK n \in NodeIds, r \in N!Node \cup {None} :
        /\ nodes' = [nodes EXCEPT ![n] = r]
        /\ r = None => ~N!HasInstances(n)
        /\ r # None => \A o \in N!Has(nodes) \ {n} : nodes[o].name # r.name
  BY <1>1
<1>3. nodes \in [NodeIds -> N!Opt(N!Node)]
  BY DEF FleetInv, N!TypeOK
<1>4. \A o \in NodeIds : nodes'[o] = IF o = n THEN r ELSE nodes[o]
  BY <1>2, <1>3
<1>5. N!TypeOK'
  BY <1>1, <1>2, <1>3 DEF FleetInv, N!TypeOK, N!Opt
<1>6. N!Has(nodes)' = IF r = None THEN N!Has(nodes) \ {n} ELSE N!Has(nodes) \cup {n}
  BY <1>2, <1>3, <1>4 DEF N!Has
<1>7. N!InstancesHosted'
  <2>1. \A i \in N!Has(instances) : instances[i].node \in N!Has(nodes)'
    BY <1>2, <1>6 DEF FleetInv, N!InstancesHosted, N!HasInstances
  <2>2. \A a, b \in N!Has(nodes)' : nodes'[a].name = nodes'[b].name => a = b
    <3> SUFFICES ASSUME NEW a \in N!Has(nodes)', NEW b \in N!Has(nodes)',
                        nodes'[a].name = nodes'[b].name
                 PROVE  a = b
      OBVIOUS
    <3>1. a \in NodeIds /\ b \in NodeIds
      BY <1>2, <1>3 DEF N!Has
    <3>2. CASE a # n /\ b # n
      BY <3>1, <3>2, <1>4, <1>6 DEF FleetInv, N!InstancesHosted
    <3>3. CASE a = n \/ b = n
      BY <3>1, <3>3, <1>2, <1>4, <1>6
    <3>. QED BY <3>2, <3>3
  <2>. QED BY <2>1, <2>2, <1>1 DEF N!InstancesHosted, N!Has
<1>8. Appendable' /\ Executed'
  BY <1>1 DEF FleetInv, Appendable, Executed, N!Has
<1>. QED BY <1>5, <1>7, <1>8 DEF FleetInv

LEMMA InstancesStep == ASSUME FleetAssumption, FleetInv, N!handleInstance PROVE FleetInv'
<1>1. /\ UNCHANGED <<nodes, commands, commandDrafts, commandClock>>
      /\ \E i \in InstanceIds, r \in N!Instance \cup {None} :
           /\ instances' = [instances EXCEPT ![i] = r]
           /\ r # None => r.node \in N!Has(nodes)
  <2>0. N!Has(nodes) \subseteq NodeIds /\ N!Has(instances) \subseteq InstanceIds
    BY DEF N!Has, FleetInv, N!TypeOK
  <2>1. ASSUME NEW i \in InstanceIds, NEW r \in N!Instance, N!SetInstance(i, r),
               r.node \in N!Has(nodes)
        PROVE  <1>1
    BY <2>1 DEF N!SetInstance
  <2>2. CASE N!SetStatus
    <3>1. PICK i \in N!Has(instances), s \in N!InstanceStatus :
            N!SetInstance(i, [instances[i] EXCEPT !.status = s])
      BY <2>2 DEF N!SetStatus
    <3>2. i \in InstanceIds /\ instances[i] \in N!Instance /\ instances[i].node \in N!Has(nodes)
      BY <3>1 DEF N!Has, FleetInv, N!TypeOK, N!Opt, N!InstancesHosted
    <3>3. /\ [instances[i] EXCEPT !.status = s] \in N!Instance
          /\ [instances[i] EXCEPT !.status = s].node = instances[i].node
      BY <3>2 DEF N!Instance
    <3>. QED BY <3>1, <3>2, <3>3, <2>1
  <2>3. CASE N!DeleteInstance
    BY <2>0, <2>3 DEF N!DeleteInstance, N!SetInstance
  <2>4. CASE N!CreateInstance \/ N!UpdateInstance
    <3>1. PICK i \in InstanceIds, n \in N!Has(nodes), s \in N!InstanceStatus :
            N!SetInstance(i, [node |-> n, status |-> s])
      BY <2>0, <2>4 DEF N!CreateInstance, N!UpdateInstance
    <3>2. /\ [node |-> n, status |-> s] \in N!Instance
          /\ [node |-> n, status |-> s].node = n
      BY <2>0 DEF N!Instance
    <3>. QED BY <3>1, <3>2, <2>1
  <2>. QED BY <2>2, <2>3, <2>4 DEF N!handleInstance
<1>2. PICK i \in InstanceIds, r \in N!Instance \cup {None} :
        /\ instances' = [instances EXCEPT ![i] = r]
        /\ r # None => r.node \in N!Has(nodes)
  BY <1>1
<1>3. instances \in [InstanceIds -> N!Opt(N!Instance)]
  BY DEF FleetInv, N!TypeOK
<1>4. N!TypeOK'
  BY <1>1, <1>2, <1>3 DEF FleetInv, N!TypeOK, N!Opt
<1>5. N!InstancesHosted'
  BY <1>1, <1>2, <1>3 DEF FleetInv, N!InstancesHosted, N!Has
<1>6. Appendable' /\ Executed'
  BY <1>1 DEF FleetInv, Appendable, Executed, N!Has
<1>. QED BY <1>4, <1>5, <1>6 DEF FleetInv

\* Only the commands move.
LEMMA CommandsStep == ASSUME FleetAssumption, FleetInv, N!handleRemoteCommand PROVE FleetInv'
<1>1. UNCHANGED <<nodes, instances>>
  BY DEF N!handleRemoteCommand, N!Stamp, N!Enqueue, N!PurgeTerminal, N!Mark
<1>2. N!InstancesHosted'
  BY <1>1 DEF FleetInv, N!InstancesHosted, N!Has
<1>3. /\ commands \in [N!Times -> N!Opt(N!Command)]
      /\ commandDrafts \subseteq N!Times \X NodeIds /\ commandClock \in 0..MaxCommands
  BY DEF FleetInv, N!TypeOK
<1>4. CASE N!Stamp
  <2>1. PICK n \in NodeIds : /\ commandClock < MaxCommands
                             /\ commandClock' = commandClock + 1
                             /\ commandDrafts' = commandDrafts \cup {<<commandClock + 1, n>>}
                             /\ UNCHANGED commands
    BY <1>4 DEF N!Stamp
  <2>2. N!TypeOK'
    BY <1>1, <1>3, <2>1 DEF FleetAssumption, FleetInv, N!TypeOK, N!Times
  <2>3. commands[commandClock + 1] = None
    BY <1>3, <2>1 DEF FleetAssumption, FleetInv, Appendable, N!Times, N!Has
  <2>4. Appendable'
    BY <1>3, <2>1, <2>3 DEF FleetAssumption, FleetInv, Appendable, N!Times, N!Has
  <2>5. Executed'
    BY <2>1 DEF FleetInv, Executed, N!Has
  <2>. QED BY <1>2, <2>2, <2>4, <2>5 DEF FleetInv
<1>5. CASE N!Enqueue
  <2>1. PICK d \in commandDrafts :
          /\ commandDrafts' = commandDrafts \ {d}
          /\ \/ commands' = [commands EXCEPT ![d[1]] =
                               [node |-> d[2], status |-> "pending", executed |-> FALSE]]
             \/ UNCHANGED commands
          /\ UNCHANGED commandClock
    BY <1>5 DEF N!Enqueue
  <2>2. d[1] \in N!Times /\ d[2] \in NodeIds
    BY <1>3
  <2>3. PICK r \in N!Command :
          r = [node |-> d[2], status |-> "pending", executed |-> FALSE]
    BY <2>2 DEF N!Command, N!CommandStatus
  <2>4. N!TypeOK'
    BY <1>1, <1>3, <2>1, <2>2, <2>3 DEF FleetInv, N!TypeOK, N!Opt
  <2>5. Appendable'
    BY <1>3, <2>1, <2>2, <2>3 DEF FleetInv, Appendable, N!Has
  <2>6. r.status = "pending" /\ r.executed = FALSE
    BY <2>3
  <2>7. Executed'
    BY <1>3, <2>1, <2>2, <2>3, <2>6 DEF FleetInv, Executed, N!Has
  <2>. QED BY <1>2, <2>4, <2>5, <2>7 DEF FleetInv
<1>6. CASE N!PurgeTerminal
  <2>1. /\ UNCHANGED <<commandDrafts, commandClock>>
        /\ \E gone \in SUBSET N!Times :
             commands' = [c \in N!Times |-> IF c \in gone THEN None ELSE commands[c]]
    BY <1>3, <1>6 DEF N!PurgeTerminal, N!Done, N!Has
  <2>2. PICK gone \in SUBSET N!Times :
             commands' = [c \in N!Times |-> IF c \in gone THEN None ELSE commands[c]]
    BY <2>1
  <2>3. N!TypeOK'
    BY <1>1, <1>3, <2>1, <2>2 DEF FleetInv, N!TypeOK, N!Opt
  <2>4. Appendable' /\ Executed'
    BY <1>3, <2>1, <2>2 DEF FleetInv, Appendable, Executed, N!Has
  <2>. QED BY <1>2, <2>3, <2>4 DEF FleetInv
<1>7. ASSUME NEW c \in N!Has(commands), NEW s \in N!CommandStatus \ {"pending"}, N!Mark(c, s)
      PROVE  FleetInv'
  <2>1. /\ UNCHANGED <<commandDrafts, commandClock>>
        /\ commands' = [commands EXCEPT ![c] = [commands[c] EXCEPT !.status = s, !.executed = TRUE]]
    BY <1>7 DEF N!Mark
  <2>2. c \in N!Times /\ commands[c] \in N!Command /\ commands[c] # None
    BY <1>3 DEF N!Has, N!Opt
  <2>3. PICK r \in N!Command :
          /\ r = [commands[c] EXCEPT !.status = s, !.executed = TRUE]
          /\ r.executed = TRUE /\ r.status = s
    <3>1. [commands[c] EXCEPT !.status = s, !.executed = TRUE] \in N!Command
      BY <2>2 DEF N!Command
    <3>2. /\ [commands[c] EXCEPT !.status = s, !.executed = TRUE].status = s
          /\ [commands[c] EXCEPT !.status = s, !.executed = TRUE].executed = TRUE
      BY <2>2 DEF N!Command
    <3>. QED BY <3>1, <3>2, Zenon
  <2>4. commands' = [commands EXCEPT ![c] = r]
    BY <2>1, <2>3
  <2>5. N!TypeOK'
    BY <1>1, <1>3, <2>1, <2>2, <2>4 DEF FleetInv, N!TypeOK, N!Opt
  <2>6. Appendable'
    BY <1>3, <2>1, <2>2, <2>4 DEF FleetInv, Appendable, N!Has
  <2>7. Executed'
    BY <1>3, <2>2, <2>3, <2>4 DEF FleetInv, Executed, N!Has
  <2>. QED BY <1>2, <2>5, <2>6, <2>7 DEF FleetInv
<1>. QED BY <1>4, <1>5, <1>6, <1>7 DEF N!handleRemoteCommand

LEMMA FleetStep == ASSUME FleetAssumption, FleetInv, [N!Next]_N!fleetVars PROVE FleetInv'
<1>1. FleetInv /\ UNCHANGED N!fleetVars => FleetInv'
  BY DEF N!fleetVars, FleetInv, N!TypeOK, N!InstancesHosted, Appendable, Executed, N!Has
<1>. QED BY <1>1, NodesStep, InstancesStep, CommandsStep DEF N!Next

LEMMA CommandsRest ==
  /\ N!handleNode \/ N!handleInstance => UNCHANGED <<commands, commandDrafts, commandClock>>
  /\ N!Stamp => UNCHANGED commands
<1>1. N!handleNode \/ N!handleInstance => UNCHANGED <<commands, commandDrafts, commandClock>>
  <2>1. N!handleNode => \E n, r : N!SetNode(n, r)
    BY Zenon DEF N!handleNode, N!CreateNode, N!UpdateNode, N!Heartbeat, N!DeleteNode
  <2>2. N!handleInstance => \E i, r : N!SetInstance(i, r)
    BY Zenon DEF N!handleInstance, N!CreateInstance, N!UpdateInstance, N!SetStatus, N!DeleteInstance
  <2>. QED BY <2>1, <2>2 DEF N!SetNode, N!SetInstance
<1>. QED BY <1>1 DEF N!Stamp

\* FleetInv of the collections of a document, with the commands that are to be
\* appended now.
FleetOf(d) ==
  /\ d.nodes \in [NodeIds -> N!Opt(N!Node)]
  /\ d.instances \in [InstanceIds -> N!Opt(N!Instance)]
  /\ d.commands \in [N!Times -> N!Opt(N!Command)]
  /\ \A i \in N!Has(d.instances) : d.instances[i].node \in N!Has(d.nodes)
  /\ \A a, b \in N!Has(d.nodes) : d.nodes[a].name = d.nodes[b].name => a = b
  /\ \A e \in commandDrafts : d.commands[e[1]] = None
  /\ \A c \in N!Has(d.commands) : c <= commandClock
  /\ \A c \in N!Has(d.commands) : d.commands[c].executed = (d.commands[c].status # "pending")

\* No step takes the time of a command that a document has.
LEMMA FleetLasts ==
  ASSUME FleetAssumption, FleetInv, [N!Next]_N!fleetVars, NEW d, FleetOf(d)
  PROVE  FleetOf(d)'
<1>1. \/ UNCHANGED <<commandDrafts, commandClock>>
      \/ N!Stamp
      \/ commandDrafts' \subseteq commandDrafts /\ UNCHANGED commandClock
  <2>1. N!handleNode \/ N!handleInstance => UNCHANGED <<commandDrafts, commandClock>>
    BY CommandsRest
  <2>2. ASSUME N!Enqueue PROVE commandDrafts' \subseteq commandDrafts /\ UNCHANGED commandClock
    BY <2>2 DEF N!Enqueue
  <2>3. N!PurgeTerminal => UNCHANGED <<commandDrafts, commandClock>>
    BY DEF N!PurgeTerminal
  <2>4. ASSUME NEW c, NEW s, N!Mark(c, s) PROVE UNCHANGED <<commandDrafts, commandClock>>
    BY <2>4 DEF N!Mark
  <2>. QED BY <2>1, <2>2, <2>3, <2>4, Zenon DEF N!fleetVars, N!Next, N!handleRemoteCommand
<1>2. CASE UNCHANGED <<commandDrafts, commandClock>>
  <2>1. \A e \in commandDrafts' : d.commands[e[1]] = None
    BY <1>2 DEF FleetOf
  <2>2. \A c \in N!Has(d.commands) : c <= commandClock'
    BY <1>2 DEF FleetOf
  <2>. QED BY <2>1, <2>2 DEF FleetOf, N!Has
<1>3. CASE N!Stamp
  <2>1. PICK n \in NodeIds : /\ commandClock < MaxCommands
                             /\ commandClock' = commandClock + 1
                             /\ commandDrafts' = commandDrafts \cup {<<commandClock + 1, n>>}
    BY <1>3 DEF N!Stamp
  <2>2. commandClock \in 0..MaxCommands /\ commandClock + 1 \in N!Times
    BY <2>1 DEF FleetAssumption, FleetInv, N!TypeOK, N!Times
  <2>3. N!Has(d.commands) \subseteq N!Times
    BY DEF FleetOf, N!Has
  <2>4. d.commands[commandClock + 1] = None
    <3>1. commandClock \in Int /\ ~(commandClock + 1 <= commandClock)
      BY <2>2
    <3>2. commandClock + 1 \notin N!Has(d.commands)
      BY <3>1 DEF FleetOf
    <3>3. DOMAIN d.commands = N!Times
      BY DEF FleetOf
    <3>. QED BY <2>2, <3>2, <3>3 DEF N!Has
  <2>5. \A e \in commandDrafts' : d.commands[e[1]] = None
    BY <2>1, <2>4 DEF FleetOf
  <2>6. \A c \in N!Has(d.commands) : c <= commandClock'
    BY <2>1, <2>2, <2>3 DEF FleetOf, N!Times
  <2>. QED BY <2>5, <2>6 DEF FleetOf, N!Has
<1>4. CASE commandDrafts' \subseteq commandDrafts /\ UNCHANGED commandClock
  BY <1>4 DEF FleetOf, N!Has
<1>. QED BY <1>1, <1>2, <1>3, <1>4

FleetsInv == FleetInv /\ \A d \in saved : FleetOf(d)

LEMMA FleetHolds == ASSUME FleetAssumption PROVE Spec => []FleetsInv
<1>1. Init => FleetsInv
  BY FleetInit DEF Init, FleetsInv
<1>2. FleetsInv /\ [Next]_vars => FleetsInv'
  <2> SUFFICES ASSUME FleetsInv, [Next]_vars PROVE FleetsInv'
    OBVIOUS
  <2>1. CASE Moves
    <3>1. [N!Next]_N!fleetVars /\ saved' = saved
      BY <2>1 DEF Moves, fleetVars, N!fleetVars
    <3>. QED BY <3>1, FleetStep, FleetLasts DEF FleetsInv
  <2>2. CASE ServicesRest /\ saved' = saved \cup {Document}
    <3>1. UNCHANGED N!fleetVars
      BY <2>2 DEF ServicesRest, fleetVars, N!fleetVars
    <3>2. FleetOf(Document)
      BY Documents DEF FleetsInv, FleetInv, N!TypeOK, N!InstancesHosted, Appendable, Executed, FleetOf
    <3>3. \A d \in saved' : FleetOf(d)
      BY <2>2, <3>2 DEF FleetsInv
    <3>. QED BY <3>1, <3>3, FleetStep, FleetLasts DEF FleetsInv
  <2>3. ASSUME saved' = saved, NEW d \in saved, Replaced(d), UNCHANGED underWay PROVE FleetsInv'
    <3>1. /\ nodes' = d.nodes /\ instances' = d.instances /\ commands' = d.commands
          /\ UNCHANGED <<commandDrafts, commandClock>>
      BY <2>3 DEF Replaced, underWay
    <3>2. FleetOf(d)
      BY DEF FleetsInv
    <3>3. FleetInv'
      BY <3>1, <3>2 DEF FleetsInv, FleetInv, N!TypeOK, N!InstancesHosted, Appendable, Executed,
                        FleetOf, N!Has
    <3>4. \A x \in saved : FleetOf(x) => FleetOf(x)'
      BY <3>1 DEF FleetOf, N!Has
    <3>. QED BY <2>3, <3>3, <3>4 DEF FleetsInv
  <2>. QED BY <2>1, <2>2, <2>3, StepIs
<1>. QED BY <1>1, <1>2, PTL DEF Spec

\* Every variable of the nodes, instances and commands keeps its type.
THEOREM FleetTypeCorrect == Spec => []N!TypeOK
<1>0. FleetAssumption
  BY ServicesAssumption
<1>. USE <1>0
<1>1. FleetsInv => N!TypeOK
  BY DEF FleetsInv, FleetInv
<1>. QED BY <1>1, FleetHolds, PTL

\* The outcome of a command is final, a command without one is not purged, and
\* it has ExecutedAt exactly when it has left pending.
LEMMA OutcomesFinal ==
  ASSUME FleetAssumption, FleetInv, [N!Next]_N!fleetVars PROVE N!CommandsFinal
<1>1. \A c \in N!Has(commands) :
        /\ N!Terminal(c) => commands'[c] \in {None, commands[c]}
        /\ ~N!Terminal(c) => commands'[c] # None /\ commands'[c].node = commands[c].node
        /\ commands[c].executed = (commands[c].status # "pending")
  <2> SUFFICES ASSUME NEW c \in N!Has(commands)
               PROVE  /\ N!Terminal(c) => commands'[c] \in {None, commands[c]}
                      /\ ~N!Terminal(c) => commands'[c] # None /\ commands'[c].node = commands[c].node
    BY DEF FleetInv, Executed
  <2>0. c \in N!Times /\ commands[c] \in N!Command /\ commands[c] # None
        /\ commands \in [N!Times -> N!Opt(N!Command)]
        /\ commandDrafts \subseteq N!Times \X NodeIds
    BY DEF N!Has, FleetInv, N!TypeOK, N!Opt
  <2>1. CASE UNCHANGED commands
    BY <2>0, <2>1
  <2>2. CASE N!handleNode \/ N!handleInstance \/ N!Stamp
    BY <2>1, <2>2, CommandsRest
  <2>3. CASE N!Enqueue
    <3>1. PICK d \in commandDrafts :
             \/ commands' = [commands EXCEPT ![d[1]] =
                               [node |-> d[2], status |-> "pending", executed |-> FALSE]]
             \/ UNCHANGED commands
      BY <2>3 DEF N!Enqueue
    <3>2. c # d[1]
      BY <2>0 DEF FleetInv, Appendable
    <3>. QED BY <2>0, <2>1, <3>1, <3>2
  <2>4. CASE N!PurgeTerminal
    <3>1. PICK max \in 0..MaxCommands :
            commands' = [k \in N!Times |-> IF k \in N!Done \ N!Kept(max) THEN None ELSE commands[k]]
      BY <2>4 DEF N!PurgeTerminal
    <3>2. ~N!Terminal(c) => c \notin N!Done
      BY DEF N!Done
    <3>. QED BY <2>0, <3>1, <3>2
  <2>5. ASSUME NEW k \in N!Has(commands), NEW s \in N!CommandStatus \ {"pending"}, N!Mark(k, s)
        PROVE  /\ N!Terminal(c) => commands'[c] \in {None, commands[c]}
               /\ ~N!Terminal(c) => commands'[c] # None /\ commands'[c].node = commands[c].node
    <3>1. /\ ~N!Terminal(k)
          /\ commands' = [commands EXCEPT ![k] = [commands[k] EXCEPT !.status = s, !.executed = TRUE]]
      BY <2>5 DEF N!Mark
    <3>2. CASE k # c
      BY <2>0, <3>1, <3>2
    <3>3. CASE k = c
      <4>1. [commands[c] EXCEPT !.status = s, !.executed = TRUE] \in N!Command
        BY <2>0 DEF N!Command
      <4>2. [commands[c] EXCEPT !.status = s, !.executed = TRUE].node = commands[c].node
        BY <2>0 DEF N!Command
      <4>3. commands'[c] = [commands[c] EXCEPT !.status = s, !.executed = TRUE]
        BY <2>0, <3>1, <3>3
      <4>. QED BY <3>1, <3>3, <4>1, <4>2, <4>3 DEF FleetAssumption
    <3>. QED BY <3>2, <3>3
  <2>6. UNCHANGED N!fleetVars => UNCHANGED commands
    BY DEF N!fleetVars
  <2>. QED BY <2>1, <2>2, <2>3, <2>4, <2>5, <2>6 DEF N!Next, N!handleRemoteCommand
<1>. QED BY <1>1 DEF N!CommandsFinal

\* A purge that drops a command drops every older one that is terminal: one
\* with enough newer than the newer has as many newer than it.
LEMMA NewestStays ==
  ASSUME FleetAssumption, FleetInv, [N!Next]_N!fleetVars PROVE N!NewestKept
<1>1. \A old, new \in N!Done : old < new /\ commands'[new] = None => commands'[old] = None
  <2> SUFFICES ASSUME NEW old \in N!Done, NEW new \in N!Done, old < new, commands'[new] = None
               PROVE  commands'[old] = None
    BY Zenon
  <2>0. /\ commands \in [N!Times -> N!Opt(N!Command)]
        /\ commandDrafts \subseteq N!Times \X NodeIds
        /\ N!Done \subseteq N!Times
        /\ \A c \in N!Done : commands[c] # None
    BY DEF N!Done, N!Has, FleetInv, N!TypeOK
  <2>1. CASE N!PurgeTerminal
    <3>1. PICK max \in 0..MaxCommands :
            commands' = [k \in N!Times |-> IF k \in N!Done \ N!Kept(max) THEN None ELSE commands[k]]
      BY <2>1 DEF N!PurgeTerminal
    <3> DEFINE Newer(c) == {n \in N!Done : n > c}
    <3>2. Newer(new) \subseteq Newer(old) /\ IsFiniteSet(Newer(old))
      <4>1. IsFiniteSet(1..MaxCommands)
        BY FS_Interval DEF FleetAssumption
      <4>2. Newer(old) \subseteq 1..MaxCommands
        BY <2>0 DEF N!Times
      <4>3. Newer(new) \subseteq Newer(old)
        <5>1. \A n \in N!Done : n \in Int
          BY <2>0 DEF N!Times, FleetAssumption
        <5>2. \A n \in N!Done : n > new => n > old
          BY <5>1
        <5>. QED BY <5>2
      <4>. QED BY <4>1, <4>2, <4>3, FS_Subset
    <3>3. /\ Cardinality(Newer(new)) \in Nat /\ Cardinality(Newer(old)) \in Nat
          /\ Cardinality(Newer(new)) <= Cardinality(Newer(old))
      BY <3>2, FS_Subset, FS_CardinalityType
    <3>4. new \notin N!Kept(max)
      BY <2>0, <3>1
    <3>5. ~(Cardinality(Newer(new)) < max)
      BY <3>4, Counts DEF N!Kept
    <3>6. ~(Cardinality(Newer(old)) < max)
      BY <3>3, <3>5
    <3>7. old \notin N!Kept(max)
      BY <3>6, Counts DEF N!Kept
    <3>. QED BY <2>0, <3>1, <3>7
  <2>2. CASE ~N!PurgeTerminal
    <3>1. CASE UNCHANGED commands
      BY <2>0, <3>1
    <3>2. CASE N!handleNode \/ N!handleInstance \/ N!Stamp
      BY <3>1, <3>2, CommandsRest
    <3>3. CASE N!Enqueue
      <4>1. PICK d \in commandDrafts :
               \/ commands' = [commands EXCEPT ![d[1]] =
                                 [node |-> d[2], status |-> "pending", executed |-> FALSE]]
               \/ UNCHANGED commands
        BY <3>3 DEF N!Enqueue
      <4>2. new # d[1]
        BY <2>0 DEF FleetInv, Appendable
      <4>. QED BY <2>0, <3>1, <4>1, <4>2
    <3>4. ASSUME NEW k \in N!Has(commands), NEW s \in N!CommandStatus \ {"pending"}, N!Mark(k, s)
          PROVE  commands'[new] # None
      <4>1. commands' = [commands EXCEPT ![k] = [commands[k] EXCEPT !.status = s, !.executed = TRUE]]
        BY <3>4 DEF N!Mark
      <4>2. commands[k] \in N!Command
        BY <2>0 DEF N!Has, N!Opt
      <4>3. [commands[k] EXCEPT !.status = s, !.executed = TRUE] \in N!Command
        BY <4>2 DEF N!Command
      <4>4. commands'[new] \in {commands[new], [commands[k] EXCEPT !.status = s, !.executed = TRUE]}
        BY <2>0, <4>1
      <4>. QED BY <2>0, <4>3, <4>4 DEF FleetAssumption
    <3>5. UNCHANGED N!fleetVars => UNCHANGED commands
      BY DEF N!fleetVars
    <3>. QED BY <2>2, <3>1, <3>2, <3>3, <3>4, <3>5 DEF N!Next, N!handleRemoteCommand
  <2>. QED BY <2>1, <2>2
<1>. QED BY <1>1 DEF N!NewestKept
-----------------------------------------------------------------------------
(* Library *)

\* What a playlist request can be.
Edits == {L!Idle}
         \cup [at : {"resolved"}, p : PlaylistIds, items : (SUBSET MediaIds) \cup {{L!Keep}},
               fallback : L!Opt(PlaylistIds)]
         \cup [at : {"updated"}, p : PlaylistIds, fallback : L!Opt(PlaylistIds)]
LibraryTypes ==
  /\ media \in [MediaIds -> L!Opt(Paths)]
  /\ playlists \in [PlaylistIds -> L!Opt(L!Playlist)]
  /\ tasks \in [TaskIds -> L!Opt(L!Task)]
  /\ caches \in [CacheIds -> L!Opt(L!Cache)]
  /\ scenes \in [SceneIds -> L!Opt(0..MaxCopies)]
  /\ stale \subseteq PlaylistIds \X MediaIds

LibraryInv == /\ LibraryTypes /\ edit \in [Editors -> Edits]
              /\ L!ReferencesResolve /\ L!LibraryConsistent

LEMMA LibraryInit == ASSUME LibraryAssumption, L!Init PROVE LibraryInv
<1>1. LibraryTypes /\ edit \in [Editors -> Edits]
  BY DEF L!Init, LibraryTypes, L!Opt, Edits
<1>2. L!Has(media) = {} /\ L!Has(playlists) = {} /\ L!Has(tasks) = {}
      /\ L!Has(caches) = {} /\ L!Has(scenes) = {}
  BY DEF L!Init, L!Has
<1>. QED BY <1>1, <1>2 DEF LibraryInv, L!ReferencesResolve, L!LibraryConsistent

\* What a step that leaves the media and the playlists alone has to keep.
LEMMA TasksPut ==
  ASSUME LibraryAssumption, LibraryInv, NEW t \in TaskIds, NEW r \in L!Opt(L!Task),
         r # None => L!RefsOK(r), L!SetTask(t, r)
  PROVE  LibraryInv'
<1>1. /\ tasks' = [tasks EXCEPT ![t] = r] /\ tasks \in [TaskIds -> L!Opt(L!Task)]
      /\ UNCHANGED <<media, playlists, caches, scenes, edit, stale>>
  BY DEF L!SetTask, LibraryInv, LibraryTypes
<1>2. LibraryTypes'
  BY <1>1 DEF LibraryInv, LibraryTypes
<1>3. L!ReferencesResolve'
  BY <1>1 DEF LibraryInv, L!ReferencesResolve, L!RefsOK, L!Has, L!FallbackOK, L!Unresolved
<1>4. L!LibraryConsistent'
  BY <1>1 DEF LibraryInv, L!LibraryConsistent, L!Has
<1>. QED BY <1>1, <1>2, <1>3, <1>4 DEF LibraryInv

LEMMA TasksStep == ASSUME LibraryAssumption, LibraryInv, L!handleTask PROVE LibraryInv'
<1>0. /\ tasks \in [TaskIds -> L!Opt(L!Task)] /\ L!Has(tasks) \subseteq TaskIds
      /\ \A t \in L!Has(tasks) : tasks[t] \in L!Task
  BY DEF L!Has, L!Opt, LibraryInv, LibraryTypes
<1>1. CASE L!CreateTask
  BY <1>1, TasksPut DEF L!CreateTask, L!Opt
<1>2. CASE L!ReplaceTask
  <2>1. PICK t \in L!Has(tasks), s \in L!Task :
          L!RefsOK(s) /\ L!SetTask(t, [s EXCEPT !.action = tasks[t].action])
    BY <1>2 DEF L!ReplaceTask
  <2>2. tasks[t].action \in {"play", "stop"}
    BY <1>0, <2>1 DEF L!Task
  <2>a. /\ [s EXCEPT !.action = tasks[t].action] \in L!Task
        /\ L!RefsOK([s EXCEPT !.action = tasks[t].action])
    BY <2>1, <2>2 DEF L!Task, L!RefsOK
  <2>3. PICK r \in L!Task : r = [s EXCEPT !.action = tasks[t].action] /\ L!RefsOK(r)
    BY <2>a, Zenon
  <2>4. L!SetTask(t, r)
    BY <2>1, <2>3
  <2>. QED BY <1>0, <2>1, <2>3, <2>4, TasksPut DEF L!Opt
<1>3. CASE L!DeleteTask
  BY <1>0, <1>3, TasksPut DEF L!DeleteTask, L!Opt
<1>. QED BY <1>1, <1>2, <1>3 DEF L!handleTask

LEMMA CachesPut ==
  ASSUME LibraryInv, NEW c \in CacheIds, NEW r \in L!Opt(L!Cache), L!SetCache(c, r),
         r # None => r.completed = (r.status \in L!Terminal)
  PROVE  LibraryInv'
<1>1. /\ caches' = [caches EXCEPT ![c] = r] /\ caches \in [CacheIds -> L!Opt(L!Cache)]
      /\ UNCHANGED <<media, playlists, tasks, scenes, edit, stale>>
  BY DEF L!SetCache, LibraryInv, LibraryTypes
<1>2. LibraryTypes'
  BY <1>1 DEF LibraryInv, LibraryTypes
<1>3. L!ReferencesResolve'
  BY <1>1 DEF LibraryInv, L!ReferencesResolve, L!Has, L!FallbackOK, L!Unresolved
<1>4. L!LibraryConsistent'
  BY <1>1 DEF LibraryInv, L!LibraryConsistent, L!Has
<1>. QED BY <1>1, <1>2, <1>3, <1>4 DEF LibraryInv

LEMMA CachesStep == ASSUME LibraryInv, L!handleCacheTask PROVE LibraryInv'
<1>0. /\ L!Has(caches) \subseteq CacheIds /\ L!Has(media) \subseteq MediaIds
      /\ \A c \in L!Has(caches) : caches[c] \in L!Cache
  BY DEF L!Has, L!Opt, LibraryInv, LibraryTypes
<1>1. CASE L!CreateCache \/ L!UpdateCache
  <2>1. PICK c \in CacheIds, m \in MediaIds, v \in L!Cache : L!SetCache(c, L!Synced(m, v.status))
    BY <1>0, <1>1 DEF L!CreateCache, L!UpdateCache
  <2>a. L!Synced(m, v.status) \in L!Cache
    BY DEF L!Synced, L!Cache
  <2>2. PICK r \in L!Cache : r = L!Synced(m, v.status)
    BY <2>a
  <2>3. r.completed = (r.status \in L!Terminal)
    BY <2>2 DEF L!Synced
  <2>. QED BY <2>1, <2>2, <2>3, CachesPut DEF L!Opt
<1>2. ASSUME NEW c \in L!Has(caches), NEW s \in {"running", "done", "failed"},
             NEW b \in BOOLEAN, b = (s \in L!Terminal),
             L!SetCache(c, [caches[c] EXCEPT !.status = s, !.completed = b])
      PROVE  LibraryInv'
  <2>a. /\ [caches[c] EXCEPT !.status = s, !.completed = b] \in L!Cache
        /\ [caches[c] EXCEPT !.status = s, !.completed = b].status = s
        /\ [caches[c] EXCEPT !.status = s, !.completed = b].completed = b
    BY <1>0, <1>2 DEF L!Cache
  <2>1. PICK r \in L!Cache : /\ r = [caches[c] EXCEPT !.status = s, !.completed = b]
                            /\ r.status = s /\ r.completed = b
    BY <2>a, Zenon
  <2>2. L!SetCache(c, r) /\ r.completed = (r.status \in L!Terminal)
    BY <1>2, <2>1
  <2>. QED BY <1>0, <2>1, <2>2, CachesPut DEF L!Opt
<1>3. CASE L!MarkRunning \/ L!MarkDone \/ L!MarkFailed
  <2>1. /\ FALSE = ("running" \in L!Terminal)
        /\ TRUE = ("done" \in L!Terminal) /\ TRUE = ("failed" \in L!Terminal)
    BY DEF L!Terminal
  <2>2. CASE L!MarkRunning
    BY <1>2, <2>1, <2>2, Zenon DEF L!MarkRunning
  <2>3. CASE L!MarkDone
    BY <1>2, <2>1, <2>3, Zenon DEF L!MarkDone
  <2>4. CASE L!MarkFailed
    BY <1>2, <2>1, <2>4, Zenon DEF L!MarkFailed
  <2>. QED BY <1>3, <2>2, <2>3, <2>4
<1>4. CASE L!DeleteCache
  BY <1>0, <1>4, CachesPut DEF L!DeleteCache, L!Opt
<1>. QED BY <1>1, <1>3, <1>4 DEF L!handleCacheTask

LEMMA ScenesStep ==
  ASSUME LibraryAssumption, LibraryInv, L!handleSceneTemplate PROVE LibraryInv'
<1>0. /\ L!Has(scenes) \subseteq SceneIds /\ scenes \in [SceneIds -> L!Opt(0..MaxCopies)]
      /\ \A o \in L!Has(scenes) : scenes[o] \in 0..MaxCopies
  BY DEF L!Has, L!Opt, LibraryInv, LibraryTypes
<1>1. /\ UNCHANGED <<media, playlists, tasks, caches, edit, stale>>
      /\ \E s \in SceneIds, n \in L!Opt(0..MaxCopies) :
           /\ scenes' = [scenes EXCEPT ![s] = n]
           /\ n # None => ~L!SceneNamed(n, s)
  <2>1. CASE L!Duplicate
    <3>1. PICK o \in L!Has(scenes), s \in SceneIds \ L!Has(scenes) :
            /\ scenes[o] < MaxCopies
            /\ ~L!SceneNamed(scenes[o] + 1, s) /\ L!SetScene(s, scenes[o] + 1)
      BY <2>1 DEF L!Duplicate
    <3>2. PICK n \in 0..MaxCopies : n = scenes[o] + 1
      BY <1>0, <3>1 DEF LibraryAssumption
    <3>. QED BY <3>1, <3>2 DEF L!SetScene, L!Opt
  <2>2. CASE L!CreateScene \/ L!UpdateScene
    BY <1>0, <2>2 DEF L!CreateScene, L!UpdateScene, L!SetScene, L!Opt
  <2>3. CASE L!DeleteScene
    BY <1>0, <2>3 DEF L!DeleteScene, L!SetScene, L!Opt
  <2>. QED BY <2>1, <2>2, <2>3 DEF L!handleSceneTemplate
<1>2. PICK s \in SceneIds, n \in L!Opt(0..MaxCopies) :
        /\ scenes' = [scenes EXCEPT ![s] = n]
        /\ n # None => ~L!SceneNamed(n, s)
  BY <1>1
<1>3. LibraryTypes'
  BY <1>0, <1>1, <1>2 DEF LibraryInv, LibraryTypes
<1>4. L!ReferencesResolve'
  BY <1>1 DEF LibraryInv, L!ReferencesResolve, L!Has, L!FallbackOK, L!Unresolved
<1>5. \A a, b \in L!Has(scenes)' : scenes'[a] = scenes'[b] => a = b
  BY <1>0, <1>2 DEF LibraryInv, L!LibraryConsistent, L!SceneNamed, L!Has
<1>6. L!LibraryConsistent'
  BY <1>1, <1>5 DEF LibraryInv, L!LibraryConsistent, L!Has
<1>. QED BY <1>1, <1>3, <1>4, <1>6 DEF LibraryInv

\* A playlist that is stored has a fallback that exists, and what its items
\* lack is in stale; one that is deleted is not referred to.
LEMMA PlaylistsPut ==
  ASSUME LibraryAssumption, LibraryInv,
         NEW p \in PlaylistIds, NEW r \in L!Opt(L!Playlist), playlists' = [playlists EXCEPT ![p] = r],
         UNCHANGED <<media, tasks, caches, scenes>>,
         edit' \in [Editors -> Edits], stale' \subseteq PlaylistIds \X MediaIds,
         r = None => ~L!PlaylistInUse(p),
         r # None => /\ L!FallbackOK(p, r.fallback)
                     /\ \A m \in r.items \ L!Has(media) : <<p, m>> \in stale',
         \A o \in PlaylistIds \ {p}, m \in MediaIds : <<o, m>> \in stale => <<o, m>> \in stale'
  PROVE  LibraryInv'
<1>0. /\ playlists \in [PlaylistIds -> L!Opt(L!Playlist)]
      /\ \A o \in L!Has(playlists) : o \in PlaylistIds /\ playlists[o] \in L!Playlist
      /\ \A o \in PlaylistIds \ {p} : playlists'[o] = playlists[o]
      /\ playlists'[p] = r
  BY DEF LibraryInv, LibraryTypes, L!Has, L!Opt
<1>1. LibraryTypes'
  BY <1>0 DEF LibraryInv, LibraryTypes
<1>2. L!Has(playlists)' = IF r = None THEN L!Has(playlists) \ {p} ELSE L!Has(playlists) \cup {p}
  BY <1>0 DEF L!Has
<1>3. L!Has(media)' = L!Has(media) /\ L!Has(tasks)' = L!Has(tasks)
  BY DEF L!Has
<1>4. \A o \in L!Has(playlists)' : L!FallbackOK(o, playlists[o].fallback)'
  <2> SUFFICES ASSUME NEW o \in L!Has(playlists)' PROVE L!FallbackOK(o, playlists[o].fallback)'
    OBVIOUS
  <2>1. CASE o = p
    BY <2>1, <1>0, <1>2 DEF L!FallbackOK
  <2>2. CASE o # p
    <3>1. o \in L!Has(playlists) /\ playlists'[o] = playlists[o]
      BY <2>2, <1>0, <1>2
    <3>2. L!FallbackOK(o, playlists[o].fallback)
      BY <3>1 DEF LibraryInv, L!ReferencesResolve
    <3>. QED BY <3>1, <3>2, <1>2 DEF L!FallbackOK, L!PlaylistInUse
  <2>. QED BY <2>1, <2>2
<1>5. \A o \in L!Has(playlists)' : \A m \in L!Unresolved(o)' : <<o, m>> \in stale'
  <2> SUFFICES ASSUME NEW o \in L!Has(playlists)', NEW m \in L!Unresolved(o)'
               PROVE  <<o, m>> \in stale'
    OBVIOUS
  <2>1. CASE o = p
    BY <2>1, <1>0, <1>2, <1>3 DEF L!Unresolved
  <2>2. CASE o # p
    <3>1. o \in L!Has(playlists) /\ o \in PlaylistIds /\ playlists[o] \in L!Playlist
      BY <2>2, <1>0, <1>2
    <3>2. m \in L!Unresolved(o) /\ m \in MediaIds
      BY <2>2, <3>1, <1>0, <1>3 DEF L!Unresolved, L!Playlist
    <3>3. <<o, m>> \in stale
      BY <3>1, <3>2 DEF LibraryInv, L!ReferencesResolve
    <3>. QED BY <2>2, <3>1, <3>2, <3>3
  <2>. QED BY <2>1, <2>2
<1>6. \A t \in L!Has(tasks)' : /\ tasks'[t].playlist \in L!Opt(L!Has(playlists)')
                              /\ tasks'[t].media \in L!Opt(L!Has(media)')
  BY <1>2, <1>3 DEF LibraryInv, L!ReferencesResolve, L!PlaylistInUse, L!Opt
<1>7. L!ReferencesResolve'
  BY <1>4, <1>5, <1>6 DEF L!ReferencesResolve
<1>8. L!LibraryConsistent'
  BY DEF LibraryInv, L!LibraryConsistent, L!Has
<1>. QED BY <1>1, <1>7, <1>8 DEF LibraryInv

\* SetPlaylist keeps what the items that stay lack.
LEMMA SetPlaylistPut ==
  ASSUME LibraryAssumption, LibraryInv,
         NEW p \in PlaylistIds, NEW r \in L!Opt(L!Playlist), L!SetPlaylist(p, r),
         edit' \in [Editors -> Edits],
         r = None => ~L!PlaylistInUse(p),
         r # None => /\ L!FallbackOK(p, r.fallback)
                     /\ \A m \in r.items \ L!Has(media) : <<p, m>> \in stale
  PROVE  LibraryInv'
<1>1. /\ playlists' = [playlists EXCEPT ![p] = r] /\ UNCHANGED <<media, tasks, caches, scenes>>
      /\ stale' = stale \ ({p} \X (MediaIds \ (IF r = None THEN {} ELSE r.items)))
  BY DEF L!SetPlaylist
<1>2. /\ stale' \subseteq PlaylistIds \X MediaIds
      /\ \A o \in PlaylistIds \ {p}, m \in MediaIds : <<o, m>> \in stale => <<o, m>> \in stale'
      /\ \A m \in r.items : r # None /\ <<p, m>> \in stale => <<p, m>> \in stale'
  BY <1>1 DEF LibraryInv, LibraryTypes
<1>. QED BY <1>1, <1>2, PlaylistsPut

LEMMA PlaylistFacts ==
  ASSUME LibraryInv
  PROVE  /\ L!Has(media) \subseteq MediaIds /\ L!Has(playlists) \subseteq PlaylistIds
         /\ \A p \in L!Has(playlists) :
              /\ playlists[p] \in L!Playlist /\ playlists[p].items \subseteq MediaIds
              /\ L!FallbackOK(p, playlists[p].fallback)
              /\ \A m \in playlists[p].items \ L!Has(media) : <<p, m>> \in stale
<1>1. \A p \in L!Has(playlists) : playlists[p] \in L!Playlist
  BY DEF LibraryInv, LibraryTypes, L!Has, L!Opt
<1>2. L!Has(media) \subseteq MediaIds /\ L!Has(playlists) \subseteq PlaylistIds
  BY DEF LibraryInv, LibraryTypes, L!Has
<1>3. \A p \in L!Has(playlists) : playlists[p].items \subseteq MediaIds
  BY <1>1 DEF L!Playlist
<1>. QED BY <1>1, <1>2, <1>3 DEF LibraryInv, L!ReferencesResolve, L!Unresolved

\* An update that replaces the items of a playlist.
LEMMA ItemsPut ==
  ASSUME LibraryAssumption, LibraryInv,
         NEW p \in L!Has(playlists), NEW items \in SUBSET MediaIds,
         L!SetPlaylist(p, [playlists[p] EXCEPT !.items = items]), UNCHANGED edit,
         \A m \in items \ L!Has(media) : m \in playlists[p].items
  PROVE  LibraryInv'
<1>1. p \in PlaylistIds /\ playlists[p] \in L!Playlist /\ L!FallbackOK(p, playlists[p].fallback)
  BY PlaylistFacts
<1>a. /\ [playlists[p] EXCEPT !.items = items] \in L!Playlist
      /\ [playlists[p] EXCEPT !.items = items].items = items
      /\ [playlists[p] EXCEPT !.items = items].fallback = playlists[p].fallback
  BY <1>1 DEF L!Playlist
<1>2. PICK r \in L!Playlist : /\ r = [playlists[p] EXCEPT !.items = items]
                              /\ r.items = items /\ r.fallback = playlists[p].fallback
  BY <1>a, Zenon
<1>3. L!SetPlaylist(p, r)
  BY <1>2
<1>4. L!FallbackOK(p, r.fallback) /\ \A m \in r.items \ L!Has(media) : <<p, m>> \in stale
  BY <1>1, <1>2, PlaylistFacts
<1>5. edit' \in [Editors -> Edits]
  BY DEF LibraryInv
<1>. QED BY <1>1, <1>3, <1>4, <1>5, SetPlaylistPut DEF L!Opt, LibraryAssumption

LEMMA ItemsStep ==
  ASSUME LibraryAssumption, LibraryInv, L!AddItem \/ L!RemoveItem \/ L!SetItems
  PROVE  LibraryInv'
<1>1. CASE L!AddItem
  <2>1. PICK p \in L!Has(playlists), m \in L!Has(media) :
          /\ L!SetPlaylist(p, [playlists[p] EXCEPT !.items = @ \cup {m}]) /\ UNCHANGED edit
    BY <1>1 DEF L!AddItem
  <2>2. PICK items \in SUBSET MediaIds : items = playlists[p].items \cup {m}
    BY PlaylistFacts
  <2>3. L!SetPlaylist(p, [playlists[p] EXCEPT !.items = items])
    BY <2>1, <2>2
  <2>. QED BY <2>1, <2>2, <2>3, ItemsPut
<1>2. CASE L!RemoveItem
  <2>1. PICK p \in L!Has(playlists) : \E m \in playlists[p].items :
          /\ L!SetPlaylist(p, [playlists[p] EXCEPT !.items = @ \ {m}]) /\ UNCHANGED edit
    BY <1>2 DEF L!RemoveItem
  <2>2. PICK m \in playlists[p].items :
          /\ L!SetPlaylist(p, [playlists[p] EXCEPT !.items = @ \ {m}]) /\ UNCHANGED edit
    BY <2>1
  <2>3. PICK items \in SUBSET MediaIds : items = playlists[p].items \ {m}
    BY PlaylistFacts
  <2>4. L!SetPlaylist(p, [playlists[p] EXCEPT !.items = items])
    BY <2>2, <2>3
  <2>. QED BY <2>2, <2>3, <2>4, ItemsPut
<1>3. CASE L!SetItems
  BY <1>3, ItemsPut, PlaylistFacts DEF L!SetItems
<1>. QED BY <1>1, <1>2, <1>3

LEMMA DeletedPlaylist == ASSUME LibraryAssumption, LibraryInv, L!DeletePlaylist PROVE LibraryInv'
<1>1. edit' \in [Editors -> Edits]
  BY DEF L!DeletePlaylist, LibraryInv
<1>. QED BY <1>1, SetPlaylistPut, PlaylistFacts DEF L!DeletePlaylist, L!Opt

\* Only the requests under way move.
LEMMA LibraryRests ==
  ASSUME LibraryInv, UNCHANGED <<media, playlists, tasks, caches, scenes, stale>>,
         edit' \in [Editors -> Edits]
  PROVE  LibraryInv'
<1>1. LibraryTypes'
  BY DEF LibraryInv, LibraryTypes
<1>2. L!ReferencesResolve'
  BY DEF LibraryInv, L!ReferencesResolve, L!Has, L!FallbackOK, L!Unresolved
<1>3. L!LibraryConsistent'
  BY DEF LibraryInv, L!LibraryConsistent, L!Has
<1>. QED BY <1>1, <1>2, <1>3 DEF LibraryInv

\* The steps of a request that changes a playlist in several updates.
LEMMA EditsStep ==
  ASSUME LibraryAssumption, LibraryInv, NEW c \in Editors,
         \/ L!PostPlaylist(c) \/ L!PutPlaylist(c) \/ L!UpdatePlaylist(c)
         \/ L!SetFallback(c) \/ L!EditFails(c)
  PROVE  LibraryInv'
<1>0. edit \in [Editors -> Edits] /\ L!Idle \in Edits
  BY DEF LibraryInv, Edits
<1>1. CASE L!PostPlaylist(c)
  <2>1. PICK p \in PlaylistIds \ L!Has(playlists), items \in SUBSET L!Has(media),
             f \in L!Opt(PlaylistIds) :
          /\ L!SetPlaylist(p, [items |-> items, fallback |-> None])
          /\ edit' = IF f = None THEN edit
                     ELSE [edit EXCEPT ![c] = [at |-> "updated", p |-> p, fallback |-> f]]
    BY <1>1 DEF L!PostPlaylist
  <2>2. [at |-> "updated", p |-> p, fallback |-> f] \in Edits
    BY DEF Edits
  <2>3. edit' \in [Editors -> Edits]
    BY <1>0, <2>1, <2>2
  <2>a. [items |-> items, fallback |-> None] \in L!Playlist
    BY PlaylistFacts DEF L!Playlist, L!Opt
  <2>4. PICK r \in L!Playlist : r = [items |-> items, fallback |-> None]
    BY <2>a
  <2>5. L!SetPlaylist(p, r) /\ L!FallbackOK(p, r.fallback) /\ r.items \ L!Has(media) = {}
    BY <2>1, <2>4 DEF L!FallbackOK
  <2>. QED BY <2>3, <2>5, SetPlaylistPut DEF L!Opt, LibraryAssumption
<1>2. CASE L!PutPlaylist(c)
  <2>1. PICK p \in PlaylistIds, items \in L!resolvePlaylistItems \cup {{L!Keep}},
             f \in L!Opt(PlaylistIds) :
          /\ edit' = [edit EXCEPT ![c] =
                        [at |-> "resolved", p |-> p, items |-> items, fallback |-> f]]
          /\ UNCHANGED <<media, playlists, tasks, caches, scenes, stale>>
    BY <1>2 DEF L!PutPlaylist
  <2>2. [at |-> "resolved", p |-> p, items |-> items, fallback |-> f] \in Edits
    BY PlaylistFacts DEF Edits, L!resolvePlaylistItems
  <2>3. edit' \in [Editors -> Edits]
    BY <1>0, <2>1, <2>2
  <2>. QED BY <2>1, <2>3, LibraryRests
<1>3. CASE L!UpdatePlaylist(c)
  <2>1. PICK p \in L!Has(playlists) : p = edit[c].p
    BY <1>3 DEF L!UpdatePlaylist
  <2>2. edit[c] \in Edits /\ edit[c].at = "resolved"
    BY <1>0, <1>3 DEF L!UpdatePlaylist
  <2>3. /\ edit[c].fallback \in L!Opt(PlaylistIds)
        /\ edit[c].items = {L!Keep} \/ edit[c].items \in SUBSET MediaIds
    BY <2>2 DEF Edits, L!Idle
  <2>4. PICK items \in SUBSET MediaIds :
          items = IF edit[c].items = {L!Keep} THEN playlists[p].items ELSE edit[c].items
    BY <2>3, PlaylistFacts
  <2>5. /\ playlists' = [playlists EXCEPT ![p].items = items]
        /\ stale' = (stale \ ({p} \X MediaIds)) \cup ({p} \X (items \ L!Has(media)))
        /\ edit' = [edit EXCEPT ![c] = [at |-> "updated", p |-> p, fallback |-> edit[c].fallback]]
        /\ UNCHANGED <<media, tasks, caches, scenes>>
    BY <1>3, <2>1, <2>4 DEF L!UpdatePlaylist
  <2>6. [at |-> "updated", p |-> p, fallback |-> edit[c].fallback] \in Edits
    BY <2>3, PlaylistFacts DEF Edits
  <2>7. edit' \in [Editors -> Edits]
    BY <1>0, <2>5, <2>6
  <2>8. p \in PlaylistIds /\ playlists[p] \in L!Playlist /\ L!FallbackOK(p, playlists[p].fallback)
    BY PlaylistFacts
  <2>a. /\ [playlists[p] EXCEPT !.items = items] \in L!Playlist
        /\ [playlists[p] EXCEPT !.items = items].items = items
        /\ [playlists[p] EXCEPT !.items = items].fallback = playlists[p].fallback
    BY <2>8 DEF L!Playlist
  <2>9. PICK r \in L!Playlist : /\ r = [playlists[p] EXCEPT !.items = items]
                                /\ r.items = items /\ r.fallback = playlists[p].fallback
    BY <2>a, Zenon
  <2>10. playlists' = [playlists EXCEPT ![p] = r]
    BY <2>5, <2>9
  <2>11. /\ stale' \subseteq PlaylistIds \X MediaIds
         /\ \A o \in PlaylistIds \ {p}, m \in MediaIds : <<o, m>> \in stale => <<o, m>> \in stale'
         /\ \A m \in r.items \ L!Has(media) : <<p, m>> \in stale'
    BY <2>5, <2>8, <2>9 DEF LibraryInv, LibraryTypes
  <2>12. L!FallbackOK(p, r.fallback)
    BY <2>8, <2>9
  <2>13. UNCHANGED <<media, tasks, caches, scenes>> /\ r \in L!Opt(L!Playlist) /\ r # None
    BY <2>5 DEF L!Opt, LibraryAssumption
  <2>. QED BY <2>7, <2>8, <2>10, <2>11, <2>12, <2>13, PlaylistsPut
<1>4. CASE L!SetFallback(c)
  <2>1. PICK p \in L!Has(playlists) : p = edit[c].p
    BY <1>4 DEF L!SetFallback
  <2>2. edit[c] \in Edits /\ edit[c].at = "updated"
    BY <1>0, <1>4 DEF L!SetFallback
  <2>3. PICK f \in L!Opt(PlaylistIds) : f = edit[c].fallback
    BY <2>2 DEF Edits, L!Idle
  <2>4. /\ L!FallbackOK(p, f) /\ L!SetPlaylist(p, [playlists[p] EXCEPT !.fallback = f])
        /\ edit' = [edit EXCEPT ![c] = L!Idle]
    BY <1>4, <2>1, <2>3 DEF L!SetFallback
  <2>5. p \in PlaylistIds /\ playlists[p] \in L!Playlist
    BY PlaylistFacts
  <2>a. /\ [playlists[p] EXCEPT !.fallback = f] \in L!Playlist
        /\ [playlists[p] EXCEPT !.fallback = f].items = playlists[p].items
        /\ [playlists[p] EXCEPT !.fallback = f].fallback = f
    BY <2>5 DEF L!Playlist
  <2>6. PICK r \in L!Playlist : /\ r = [playlists[p] EXCEPT !.fallback = f]
                                /\ r.items = playlists[p].items /\ r.fallback = f
    BY <2>a, Zenon
  <2>7. L!SetPlaylist(p, r) /\ L!FallbackOK(p, r.fallback)
    BY <2>4, <2>6
  <2>8. \A m \in r.items \ L!Has(media) : <<p, m>> \in stale
    BY <2>6, PlaylistFacts
  <2>9. edit' \in [Editors -> Edits]
    BY <1>0, <2>4
  <2>. QED BY <2>5, <2>7, <2>8, <2>9, SetPlaylistPut DEF L!Opt, LibraryAssumption
<1>5. CASE L!EditFails(c)
  <2>1. /\ edit' = [edit EXCEPT ![c] = L!Idle]
        /\ UNCHANGED <<media, playlists, tasks, caches, scenes, stale>>
    BY <1>5 DEF L!EditFails
  <2>2. edit' \in [Editors -> Edits]
    BY <1>0, <2>1
  <2>. QED BY <2>1, <2>2, LibraryRests
<1>. QED BY <1>1, <1>2, <1>3, <1>4, <1>5

\* Media that are added have paths that were not known.
LEMMA InsertAdds ==
  ASSUME LibraryInv, NEW paths \in SUBSET Paths, L!Insert(paths), paths \cap L!Known = {},
         UNCHANGED <<playlists, tasks, caches, scenes, edit, stale>>
  PROVE  LibraryInv'
<1>1. PICK id \in [paths -> MediaIds \ L!Has(media)] :
        /\ \A a, b \in paths : id[a] = id[b] => a = b
        /\ media' = [m \in MediaIds |-> IF \E a \in paths : id[a] = m
                                        THEN CHOOSE a \in paths : id[a] = m
                                        ELSE media[m]]
  BY DEF L!Insert
<1>2. media \in [MediaIds -> L!Opt(Paths)]
  BY DEF LibraryInv, LibraryTypes
<1>3. \A m \in MediaIds : IF \E a \in paths : id[a] = m
                          THEN media'[m] \in paths /\ id[media'[m]] = m
                          ELSE media'[m] = media[m]
  BY <1>1
<1>4. media' \in [MediaIds -> L!Opt(Paths)]
  <2>1. media' = [m \in MediaIds |-> media'[m]]
    BY <1>1
  <2>2. \A m \in MediaIds : media'[m] \in L!Opt(Paths)
    BY <1>2, <1>3 DEF L!Opt
  <2>. QED BY <2>1, <2>2
<1>5. L!Has(media) \subseteq L!Has(media)'
  BY <1>1, <1>2, <1>3, <1>4 DEF L!Has
<1>6. \A a, b \in L!Has(media)' : media'[a] = media'[b] => a = b
  <2> SUFFICES ASSUME NEW a \in L!Has(media)', NEW b \in L!Has(media)', media'[a] = media'[b]
               PROVE  a = b
    OBVIOUS
  <2>0. a \in MediaIds /\ b \in MediaIds /\ media'[a] # None
    BY <1>4 DEF L!Has
  <2>1. \A m \in L!Has(media) : media[m] \notin paths
    BY DEF L!Known
  <2>2. CASE media'[a] \in paths
    <3>1. \A m \in MediaIds : media'[m] \in paths /\ media'[m] # None => id[media'[m]] = m
      <4> SUFFICES ASSUME NEW m \in MediaIds, media'[m] \in paths, media'[m] # None
                   PROVE  id[media'[m]] = m
        OBVIOUS
      <4>1. CASE \E k \in paths : id[k] = m
        BY <4>1, <1>3
      <4>2. CASE ~\E k \in paths : id[k] = m
        BY <4>2, <1>2, <1>3, <2>1 DEF L!Has
      <4>. QED BY <4>1, <4>2
    <3>. QED BY <2>0, <2>2, <3>1
  <2>3. CASE media'[a] \notin paths
    <3>1. media[a] = media'[a] /\ media[b] = media'[b]
      BY <2>0, <2>3, <1>3
    <3>2. a \in L!Has(media) /\ b \in L!Has(media)
      BY <2>0, <3>1, <1>2 DEF L!Has
    <3>. QED BY <3>1, <3>2 DEF LibraryInv, L!LibraryConsistent
  <2>. QED BY <2>2, <2>3
<1>7. LibraryTypes'
  BY <1>4 DEF LibraryInv, LibraryTypes
<1>8. L!ReferencesResolve'
  <2>1. L!Has(playlists)' = L!Has(playlists) /\ L!Has(tasks)' = L!Has(tasks)
    BY DEF L!Has
  <2>2. \A p : L!Unresolved(p)' \subseteq L!Unresolved(p)
    BY <1>5 DEF L!Unresolved
  <2>. QED BY <1>5, <2>1, <2>2 DEF LibraryInv, L!ReferencesResolve, L!FallbackOK, L!Opt
<1>9. L!LibraryConsistent'
  BY <1>6 DEF LibraryInv, L!LibraryConsistent, L!Has
<1>. QED BY <1>7, <1>8, <1>9 DEF LibraryInv

LEMMA MediaStep == ASSUME LibraryInv, L!handleMedia PROVE LibraryInv'
<1>1. CASE L!AddMedia
  BY <1>1, InsertAdds DEF L!AddMedia
<1>2. CASE L!Scan
  <2>1. PICK found \in SUBSET Paths :
          /\ L!Insert(found \ L!Known)
          /\ UNCHANGED <<playlists, tasks, caches, scenes, edit, stale>>
    BY <1>2 DEF L!Scan
  <2>2. PICK paths \in SUBSET Paths : paths = found \ L!Known
    OBVIOUS
  <2>3. L!Insert(paths) /\ paths \cap L!Known = {}
    BY <2>1, <2>2
  <2>. QED BY <2>1, <2>3, InsertAdds
<1>3. CASE L!DeleteMedia
  <2>1. PICK m \in L!Has(media) :
          /\ ~L!MediaInUse(m) /\ media' = [media EXCEPT ![m] = None]
          /\ UNCHANGED <<playlists, tasks, caches, scenes, edit, stale>>
    BY <1>3 DEF L!DeleteMedia
  <2>2. media \in [MediaIds -> L!Opt(Paths)]
    BY DEF LibraryInv, LibraryTypes
  <2>3. L!Has(media)' = L!Has(media) \ {m}
    BY <2>1, <2>2 DEF L!Has
  <2>4. LibraryTypes'
    BY <2>1, <2>2 DEF LibraryInv, LibraryTypes, L!Opt
  <2>5. L!Has(playlists)' = L!Has(playlists) /\ L!Has(tasks)' = L!Has(tasks)
    BY <2>1 DEF L!Has
  <2>6. \A p \in L!Has(playlists) : L!Unresolved(p)' = L!Unresolved(p)
    BY <2>1, <2>3 DEF L!Unresolved, L!MediaInUse
  <2>7. \A t \in L!Has(tasks) : tasks[t].media # m
    BY <2>1 DEF L!MediaInUse
  <2>8. L!ReferencesResolve'
    BY <2>1, <2>3, <2>5, <2>6, <2>7 DEF LibraryInv, L!ReferencesResolve, L!FallbackOK, L!Opt
  <2>9. L!LibraryConsistent'
    BY <2>1, <2>2, <2>3 DEF LibraryInv, L!LibraryConsistent, L!Has
  <2>. QED BY <2>1, <2>4, <2>8, <2>9 DEF LibraryInv
<1>. QED BY <1>1, <1>2, <1>3 DEF L!handleMedia

LEMMA LibraryStep == ASSUME LibraryAssumption, LibraryInv, [L!Next]_L!libVars PROVE LibraryInv'
<1>1. LibraryInv /\ UNCHANGED L!libVars => LibraryInv'
  BY LibraryRests DEF L!libVars, LibraryInv
<1>2. LibraryInv /\ L!handlePlaylist => LibraryInv'
  BY EditsStep, ItemsStep, DeletedPlaylist DEF L!handlePlaylist
<1>. QED BY <1>1, <1>2, MediaStep, ItemsStep, TasksStep, CachesStep, ScenesStep DEF L!Next

\* LibraryInv of the collections of a document: what an edit under way may be
\* does not depend on them.
LibraryOf(d) ==
  /\ d.media \in [MediaIds -> L!Opt(Paths)]
  /\ d.playlists \in [PlaylistIds -> L!Opt(L!Playlist)]
  /\ d.tasks \in [TaskIds -> L!Opt(L!Task)]
  /\ d.caches \in [CacheIds -> L!Opt(L!Cache)]
  /\ d.scenes \in [SceneIds -> L!Opt(0..MaxCopies)]
  /\ d.stale \subseteq PlaylistIds \X MediaIds
  /\ \A p \in L!Has(d.playlists) :
       /\ \/ d.playlists[p].fallback = None
          \/ d.playlists[p].fallback # p /\ d.playlists[p].fallback \in L!Has(d.playlists)
       /\ \A m \in d.playlists[p].items \ L!Has(d.media) : <<p, m>> \in d.stale
  /\ \A t \in L!Has(d.tasks) : /\ d.tasks[t].playlist \in L!Opt(L!Has(d.playlists))
                               /\ d.tasks[t].media \in L!Opt(L!Has(d.media))
  /\ \A a, b \in L!Has(d.media) : d.media[a] = d.media[b] => a = b
  /\ \A a, b \in L!Has(d.scenes) : d.scenes[a] = d.scenes[b] => a = b
  /\ \A c \in L!Has(d.caches) :
       d.caches[c].completed = (d.caches[c].status \in L!Terminal)

LibrarysInv == LibraryInv /\ \A d \in saved : LibraryOf(d)

LEMMA LibraryCaptured == ASSUME LibraryInv PROVE LibraryOf(Document)
<1>. DEFINE d == Document
<1>1. /\ d.media = media /\ d.playlists = playlists /\ d.tasks = tasks
      /\ d.caches = caches /\ d.scenes = scenes /\ d.stale = stale
  BY Documents
<1>. HIDE DEF d
<1>2. LibraryOf(d)
  BY <1>1 DEF LibraryInv, LibraryTypes, L!ReferencesResolve, L!FallbackOK, L!Unresolved,
              L!LibraryConsistent, LibraryOf
<1>. QED BY <1>2 DEF d

LEMMA LibraryRestored ==
  ASSUME LibraryInv, NEW d, LibraryOf(d), Replaced(d), UNCHANGED underWay PROVE LibraryInv'
<1>1. /\ media' = d.media /\ playlists' = d.playlists /\ tasks' = d.tasks
      /\ caches' = d.caches /\ scenes' = d.scenes /\ stale' = d.stale /\ edit' = edit
  BY DEF Replaced, underWay
<1>2. LibraryTypes' /\ edit' \in [Editors -> Edits]
  BY <1>1 DEF LibraryInv, LibraryTypes, LibraryOf
<1>3. L!ReferencesResolve'
  BY <1>1 DEF L!ReferencesResolve, L!FallbackOK, L!Unresolved, L!Has, LibraryOf
<1>4. L!LibraryConsistent'
  BY <1>1 DEF L!LibraryConsistent, L!Has, LibraryOf
<1>. QED BY <1>2, <1>3, <1>4 DEF LibraryInv

LEMMA LibraryHolds == ASSUME LibraryAssumption PROVE Spec => []LibrarysInv
<1>1. Init => LibrarysInv
  BY LibraryInit DEF Init, LibrarysInv
<1>2. LibrarysInv /\ [Next]_vars => LibrarysInv'
  <2> SUFFICES ASSUME LibrarysInv, [Next]_vars PROVE LibrarysInv'
    OBVIOUS
  <2>1. CASE Moves
    <3>1. [L!Next]_L!libVars /\ saved' = saved
      BY <2>1 DEF Moves, libVars, L!libVars
    <3>. QED BY <3>1, LibraryStep, Zenon DEF LibrarysInv, LibraryOf, L!Has
  <2>2. CASE ServicesRest /\ saved' = saved \cup {Document}
    <3>1. UNCHANGED L!libVars
      BY <2>2 DEF ServicesRest, libVars, L!libVars
    <3>2. \A d \in saved' : LibraryOf(d)
      BY <2>2, LibraryCaptured DEF LibrarysInv
    <3>. QED BY <3>1, <3>2, LibraryStep, Zenon DEF LibrarysInv
  <2>3. ASSUME saved' = saved, NEW d \in saved, Replaced(d), UNCHANGED underWay PROVE LibrarysInv'
    BY <2>3, LibraryRestored, Zenon DEF LibrarysInv
  <2>. QED BY <2>1, <2>2, <2>3, StepIs
<1>. QED BY <1>1, <1>2, PTL DEF Spec

\* Every variable of the library keeps its type; a path is in it once, names of
\* scenes are unique and a cache task is completed when it is final.
THEOREM LibraryTypeCorrect == Spec => [](L!TypeOK /\ L!LibraryConsistent)
<1>0. LibraryAssumption
  BY ServicesAssumption
<1>. USE <1>0
<1>1. LibraryInv => L!TypeOK /\ L!LibraryConsistent
  <2>1. \A e \in Edits :
          \/ e = L!Idle
          \/ /\ e.at \in {"resolved", "updated"} /\ e.p \in PlaylistIds
             /\ e.fallback \in L!Opt(PlaylistIds)
             /\ e.at = "resolved" => e.items \in (SUBSET MediaIds) \cup {{L!Keep}}
    BY DEF Edits
  <2>. QED BY <2>1 DEF LibraryInv, LibraryTypes, L!TypeOK
<1>2. LibrarysInv => LibraryInv
  BY DEF LibrarysInv
<1>. QED BY <1>1, <1>2, LibraryHolds, PTL

\* What comes of going on and on from x, as F says, d times.
Iterated(f, F, X, x, d) == /\ f \in [0..d -> X] /\ f[0] = x
                           /\ \A i \in 1..d : f[i] = F[f[i - 1]]
LEMMA Iterates ==
  ASSUME NEW X, NEW F \in [X -> X], NEW x \in X, NEW d \in Nat
  PROVE  \E f : Iterated(f, F, X, x, d)
<1> DEFINE Good(n) == \E f \in [0..n -> X] : f[0] = x /\ \A i \in 1..n : f[i] = F[f[i - 1]]
           bad == {n \in Nat : ~Good(n)}
<1> SUFFICES ASSUME bad # {} PROVE FALSE
  BY DEF Iterated
<1>1. PICK n \in bad : \A o \in bad : n <= o
  <2>1. bad \subseteq Nat
    OBVIOUS
  <2> HIDE DEF bad
  <2>. QED BY <2>1, LeastIs
<1>2. n \in Nat /\ ~Good(n)
  OBVIOUS
<1>3. CASE n = 0
  <2> DEFINE f == [i \in 0..0 |-> x]
  <2>1. f \in [0..n -> X] /\ f[0] = x /\ \A i \in 1..n : f[i] = F[f[i - 1]]
    BY <1>3
  <2>2. Good(n)
    BY <2>1
  <2>. QED BY <1>2, <2>2
<1>4. CASE n # 0
  <2>1. n - 1 \in Nat /\ ~(n <= n - 1)
    BY <1>2, <1>4
  <2>2. Good(n - 1)
    <3>1. n - 1 \notin bad
      <4> HIDE DEF bad
      <4>. QED BY <1>1, <2>1
    <3>. QED BY <2>1, <3>1
  <2>3. PICK f \in [0..(n - 1) -> X] : f[0] = x /\ \A i \in 1..(n - 1) : f[i] = F[f[i - 1]]
    BY <2>2
  <2> DEFINE g == [i \in 0..n |-> IF i = n THEN F[f[n - 1]] ELSE f[i]]
  <2>4. n - 1 \in 0..(n - 1) /\ 0 \in 0..n /\ \A i \in 0..n : i # n => i \in 0..(n - 1)
    BY <1>2, <1>4
  <2>5. g \in [0..n -> X] /\ g[0] = x
    BY <1>4, <2>3, <2>4
  <2>6. ASSUME NEW i \in 1..n PROVE g[i] = F[g[i - 1]]
    <3>1. i \in 0..n /\ i - 1 \in 0..n /\ i - 1 # n /\ i - 1 \in 0..(n - 1) /\ (i # n => i \in 1..(n - 1))
      BY <1>2
    <3>2. g[i - 1] = f[i - 1] /\ g[i] = IF i = n THEN F[f[n - 1]] ELSE f[i]
      BY <3>1
    <3> HIDE DEF g
    <3>3. CASE i = n
      BY <3>2, <3>3
    <3>4. CASE i # n
      BY <2>3, <3>1, <3>2, <3>4
    <3>. QED BY <3>3, <3>4
  <2> HIDE DEF g
  <2>7. Good(n)
    BY <2>5, <2>6
  <2>. QED BY <1>2, <2>7
<1>. QED BY <1>3, <1>4

Kinds == {"cycle", "not found", "items", "empty", "missing media", "too deep"}
Outcomes == [kind : Kinds, from : PlaylistIds]
CanPlay(q) == q \in L!Has(playlists) /\ playlists[q].items # {} /\ L!Unresolved(q) = {}
\* One round of the walk, which goes on as t says.
Round(t, h) ==
  IF h.cur \in h.seen THEN L!Result("cycle", h.cur)
  ELSE IF h.cur \notin L!Has(playlists) THEN L!Result("not found", h.cur)
  ELSE IF L!Unresolved(h.cur) = {} /\ playlists[h.cur].items # {} THEN L!Result("items", h.cur)
  ELSE IF playlists[h.cur].fallback = None
       THEN L!Result(IF L!Unresolved(h.cur) = {} THEN "empty" ELSE "missing media", h.cur)
  ELSE IF h.hops >= MaxDepth THEN L!Result("too deep", h.cur)
  ELSE t[L!Onward(h, playlists[h.cur].fallback)]

LEMMA HopOn ==
  ASSUME LibraryAssumption, LibraryTypes, NEW h \in L!Hop, h.cur \in L!Has(playlists),
         playlists[h.cur].fallback # None, ~(h.hops >= MaxDepth)
  PROVE  LET o == L!Onward(h, playlists[h.cur].fallback) IN
         o \in L!Hop /\ o.hops = h.hops + 1 /\ h.hops \in 0..MaxDepth
<1>1. playlists[h.cur] \in L!Playlist /\ h.hops \in 0..MaxDepth /\ h.cur \in PlaylistIds
      /\ h.seen \in SUBSET PlaylistIds
  BY DEF LibraryTypes, L!Has, L!Opt, L!Hop
<1>2. playlists[h.cur].fallback \in PlaylistIds
  BY <1>1 DEF L!Playlist, L!Opt
<1>3. h.hops + 1 \in 0..MaxDepth
  BY <1>1 DEF LibraryAssumption
<1>. QED BY <1>1, <1>2, <1>3 DEF L!Onward, L!Hop

LEMMA Rounds ==
  ASSUME LibraryAssumption, LibraryTypes
  PROVE  \A t \in [L!Hop -> Outcomes], h \in L!Hop : Round(t, h) \in Outcomes
<1>1. ASSUME NEW t \in [L!Hop -> Outcomes], NEW h \in L!Hop PROVE Round(t, h) \in Outcomes
  <2>1. h.cur \in PlaylistIds
    BY DEF L!Hop
  <2>2. \A k \in Kinds : L!Result(k, h.cur) \in Outcomes
    BY <2>1 DEF L!Result, Outcomes
  <2>3. h.cur \in L!Has(playlists) /\ playlists[h.cur].fallback # None /\ ~(h.hops >= MaxDepth) =>
          L!Onward(h, playlists[h.cur].fallback) \in L!Hop
    BY HopOn
  <2>. QED BY <2>2, <2>3 DEF Round, Kinds
<1>. QED BY <1>1

\* The walk is the function its recursion says.
LEMMA Walks ==
  ASSUME LibraryAssumption, LibraryTypes, NEW p \in PlaylistIds
  PROVE  \E t :
           /\ \A h \in L!Hop : t[h] = Round(t, h)
           /\ L!Walk(p) = t[[hops |-> 0, seen |-> {}, cur |-> p]]
<1> DEFINE body(f) == [h \in L!Hop |-> Round(f, h)]
           step == CHOOSE f : f = body(f)
           Tables == [L!Hop -> Outcomes]
           F == [t \in Tables |-> body(t)]
           any == [h \in L!Hop |-> L!Result("cycle", h.cur)]
           D == MaxDepth
<1>1. F \in [Tables -> Tables] /\ any \in Tables
  <2>1. \A t \in Tables : body(t) \in Tables
    BY Rounds
  <2>2. any \in Tables
    BY DEF L!Result, Outcomes, L!Hop, Kinds
  <2> HIDE DEF body, Tables, any
  <2>. QED BY <2>1, <2>2
<1>2. D \in Nat /\ D + 2 \in Nat
  <2>1. D \in Nat
    BY DEF LibraryAssumption
  <2>. QED BY <2>1
<1>3. PICK e \in [0..(D + 2) -> Tables] : e[0] = any /\ \A i \in 1..(D + 2) : e[i] = F[e[i - 1]]
  <2> HIDE DEF F, any, Tables, D
  <2> DEFINE d == D + 2
  <2>1. d \in Nat
    BY <1>2
  <2> HIDE DEF d
  <2>2. \E e : Iterated(e, F, Tables, any, d)
    BY <1>1, <2>1, Iterates
  <2>. QED BY <2>2 DEF d, Iterated
<1>4. \A i \in 0..(D + 1) : e[i] \in Tables /\ e[i + 1] = body(e[i])
  <2> SUFFICES ASSUME NEW i \in 0..(D + 1) PROVE e[i] \in Tables /\ e[i + 1] = body(e[i])
    OBVIOUS
  <2>1. i + 1 \in 1..(D + 2) /\ i + 1 - 1 = i /\ i \in 0..(D + 2)
    BY <1>2
  <2>2. e[i] \in Tables /\ e[i + 1] = F[e[i]]
    <3> HIDE DEF F, Tables, D
    <3>. QED BY <1>3, <2>1
  <2> HIDE DEF body, Tables
  <2>. QED BY <2>2
\* After i rounds the walks of fewer than i hops to come are what they will be.
<1>5. \A i \in 0..(D + 1), h \in L!Hop : h.hops + i >= D + 1 => e[i + 1][h] = e[i][h]
  <2> DEFINE Same(i) == \A h \in L!Hop : h.hops + i >= D + 1 => e[i + 1][h] = e[i][h]
             wrong == {i \in 0..(D + 1) : ~Same(i)}
  <2> SUFFICES ASSUME wrong # {} PROVE FALSE
    OBVIOUS
  <2>1. PICK i \in wrong : \A o \in wrong : i <= o
    <3>1. wrong \subseteq Nat
      BY <1>2
    <3> HIDE DEF wrong
    <3>. QED BY <3>1, LeastIs
  <2>2. i \in 0..(D + 1) /\ i \in Nat /\ ~Same(i)
    BY <1>2, <2>1
  <2>3. PICK h \in L!Hop : h.hops + i >= D + 1 /\ e[i + 1][h] # e[i][h]
    BY <2>2
  <2>4. h.hops \in 0..D
    BY DEF L!Hop
  <2>5. i # 0
    BY <1>2, <2>3, <2>4
  <2>6. i - 1 \in 0..(D + 1) /\ Same(i - 1)
    <3>1. i - 1 \in 0..(D + 1) /\ ~(i <= i - 1)
      BY <1>2, <2>2, <2>5
    <3>. QED BY <2>1, <3>1
  <2> HIDE DEF D, wrong
  <2>7. e[i + 1][h] = Round(e[i], h) /\ e[i][h] = Round(e[i - 1], h)
    <3>1. e[i + 1] = body(e[i]) /\ e[i - 1 + 1] = body(e[i - 1]) /\ i - 1 + 1 = i
      BY <1>4, <2>2, <2>6
    <3>. QED BY <3>1
  <2> DEFINE o == L!Onward(h, playlists[h.cur].fallback)
  <2>8. h.cur \in L!Has(playlists) /\ playlists[h.cur].fallback # None /\ ~(h.hops >= MaxDepth) =>
          e[i][o] = e[i - 1][o]
    <3> SUFFICES ASSUME h.cur \in L!Has(playlists), playlists[h.cur].fallback # None, ~(h.hops >= MaxDepth)
                 PROVE  e[i][o] = e[i - 1][o]
      OBVIOUS
    <3>1. o \in L!Hop /\ o.hops = h.hops + 1
      BY HopOn
    <3> HIDE DEF o
    <3>2. o.hops + (i - 1) >= D + 1 /\ i - 1 + 1 = i
      BY <1>2, <2>2, <2>3, <2>4, <3>1
    <3>. QED BY <2>6, <3>1, <3>2
  <2>9. Round(e[i], h) = Round(e[i - 1], h)
    BY <2>8 DEF Round
  <2>. QED BY <2>3, <2>7, <2>9
<1>6. e[D + 1] \in Tables /\ e[D + 1] = body(e[D + 1])
  <2>1. D + 1 \in 0..(D + 1)
    BY <1>2
  <2>2. e[D + 1] \in Tables /\ e[D + 2] = body(e[D + 1])
    <3>1. D + 1 + 1 = D + 2
      BY <1>2
    <3> HIDE DEF body, Tables, D
    <3>. QED BY <1>4, <2>1, <3>1
  <2>3. \A h \in L!Hop : h.hops + (D + 1) >= D + 1
    BY <1>2 DEF L!Hop
  <2>4. \A h \in L!Hop : e[D + 1 + 1][h] = e[D + 1][h]
    <3> HIDE DEF D
    <3>. QED BY <1>5, <2>1, <2>3
  <2>5. D + 1 + 1 = D + 2
    BY <1>2
  <2>6. \A h \in L!Hop : body(e[D + 1])[h] = e[D + 1][h]
    <3> HIDE DEF D, body
    <3>. QED BY <2>2, <2>4, <2>5
  <2>7. e[D + 1] = [h \in L!Hop |-> e[D + 1][h]] /\ body(e[D + 1]) = [h \in L!Hop |-> body(e[D + 1])[h]]
    BY <2>2
  <2> HIDE DEF body, Tables
  <2>. QED BY <2>2, <2>6, <2>7
<1>7. step = body(step)
  <2> HIDE DEF body
  <2>. QED BY <1>6
<1>8. \A h \in L!Hop : step[h] = Round(step, h)
  <2> HIDE DEF step
  <2>. QED BY <1>7
<1>9. L!Walk(p) = step[[hops |-> 0, seen |-> {}, cur |-> p]]
  BY Zenon DEF L!Walk, Round
<1> HIDE DEF step
<1>. QED BY <1>8, <1>9

\* The chain of fallbacks, which ends where there is none.
Link == [x \in PlaylistIds \cup {None} |->
           IF x \in L!Has(playlists) THEN playlists[x].fallback ELSE None]
ChainOf(at, p) == Iterated(at, Link, PlaylistIds \cup {None}, p, MaxDepth)

LEMMA LinkType ==
  ASSUME LibraryTypes
  PROVE  Link \in [PlaylistIds \cup {None} -> PlaylistIds \cup {None}]
<1>1. \A x \in L!Has(playlists) : playlists[x].fallback \in PlaylistIds \cup {None}
  BY DEF LibraryTypes, L!Has, L!Opt, L!Playlist
<1>. QED BY <1>1 DEF Link

LEMMA Chains ==
  ASSUME LibraryAssumption, LibraryTypes, NEW p \in PlaylistIds,
         NEW at, at = CHOOSE f : f = [i \in 0..MaxDepth |->
                        IF i = 0 THEN p ELSE IF f[i - 1] \in L!Has(playlists)
                                             THEN playlists[f[i - 1]].fallback ELSE None]
  PROVE  ChainOf(at, p)
<1> DEFINE body(f) == [i \in 0..MaxDepth |->
                        IF i = 0 THEN p ELSE IF f[i - 1] \in L!Has(playlists)
                                             THEN playlists[f[i - 1]].fallback ELSE None]
           P == PlaylistIds \cup {None}
<1>1. MaxDepth \in Nat /\ p \in P
  BY DEF LibraryAssumption
<1>2. PICK f : Iterated(f, Link, P, p, MaxDepth)
  BY <1>1, LinkType, Iterates
<1>4. f = body(f)
  <2>1. f \in [0..MaxDepth -> P] /\ f[0] = p /\ \A i \in 1..MaxDepth : f[i] = Link[f[i - 1]]
    BY <1>2 DEF Iterated
  <2>2. ASSUME NEW i \in 0..MaxDepth, i # 0
        PROVE  f[i] = IF f[i - 1] \in L!Has(playlists) THEN playlists[f[i - 1]].fallback ELSE None
    <3>1. i \in 1..MaxDepth /\ i - 1 \in 0..MaxDepth
      BY <1>1, <2>2
    <3>2. f[i - 1] \in P /\ f[i] = Link[f[i - 1]]
      BY <2>1, <3>1
    <3>. QED BY <3>2 DEF Link
  <2>3. ASSUME NEW i \in 0..MaxDepth PROVE f[i] = body(f)[i]
    BY <2>1, <2>2
  <2>4. f = [i \in 0..MaxDepth |-> f[i]] /\ body(f) = [i \in 0..MaxDepth |-> body(f)[i]]
    BY <2>1
  <2> HIDE DEF body, P
  <2>. QED BY <2>3, <2>4
<1>5. at = body(at)
  <2>1. at = CHOOSE g : g = body(g)
    OBVIOUS
  <2> HIDE DEF body
  <2>. QED BY <1>4, <2>1
<1>6. \A i \in 0..MaxDepth : at[i] = f[i]
  <2> DEFINE wrong == {i \in 0..MaxDepth : at[i] # f[i]}
  <2> SUFFICES ASSUME wrong # {} PROVE FALSE
    OBVIOUS
  <2>1. wrong \subseteq Nat
    BY <1>1
  <2>2. PICK i \in wrong : \A o \in wrong : i <= o
    <3> HIDE DEF wrong
    <3>. QED BY <2>1, LeastIs
  <2>3. i \in 0..MaxDepth /\ at[i] # f[i] /\ at[i] = body(at)[i] /\ f[i] = body(f)[i]
    <3> HIDE DEF body
    <3>. QED BY <1>4, <1>5
  <2>4. i # 0
    BY <2>3
  <2>5. i - 1 \in 0..MaxDepth /\ ~(i <= i - 1)
    BY <1>1, <2>3, <2>4
  <2>6. at[i - 1] = f[i - 1]
    BY <2>2, <2>5
  <2>. QED BY <2>3, <2>6
<1>7. f \in [0..MaxDepth -> P] /\ f[0] = p /\ \A i \in 1..MaxDepth : f[i] = Link[f[i - 1]]
  BY <1>2 DEF Iterated
<1>8. body(at) \in [0..MaxDepth -> P]
  <2>1. \A i \in 0..MaxDepth : body(at)[i] = f[i]
    <3> HIDE DEF body
    <3>. QED BY <1>5, <1>6
  <2>2. \A i \in 0..MaxDepth : body(at)[i] \in P
    <3> HIDE DEF body, P
    <3>. QED BY <1>7, <2>1
  <2> HIDE DEF P
  <2>. QED BY <2>2
<1>9. at \in [0..MaxDepth -> P] /\ at[0] = p
  <2> HIDE DEF body, P
  <2>1. 0 \in 0..MaxDepth
    BY <1>1
  <2>. QED BY <1>5, <1>6, <1>7, <1>8, <2>1
<1>10. ASSUME NEW i \in 1..MaxDepth PROVE at[i] = Link[at[i - 1]]
  <2>1. i \in 0..MaxDepth /\ i - 1 \in 0..MaxDepth
    BY <1>1
  <2>. QED BY <1>6, <1>7, <2>1
<1>. QED BY <1>9, <1>10 DEF ChainOf, Iterated

\* Past what is not there, there is nothing; and a chain that has come back to
\* where it was comes to nothing else.
LEMMA ChainStops ==
  ASSUME LibraryAssumption, LibraryTypes, NEW p, NEW at, ChainOf(at, p),
         NEW i \in 0..MaxDepth, at[i] \notin L!Has(playlists)
  PROVE  \A k \in i..MaxDepth : at[k] \notin L!Has(playlists)
<1> DEFINE wrong == {k \in i..MaxDepth : at[k] \in L!Has(playlists)}
<1> SUFFICES ASSUME wrong # {} PROVE FALSE
  OBVIOUS
<1>1. MaxDepth \in Nat /\ i \in Nat
  BY DEF LibraryAssumption
<1>2. PICK k \in wrong : \A o \in wrong : k <= o
  <2>1. wrong \subseteq Nat
    BY <1>1
  <2> HIDE DEF wrong
  <2>. QED BY <2>1, LeastIs
<1>3. k \in i..MaxDepth /\ at[k] \in L!Has(playlists) /\ k # i
  OBVIOUS
<1>4. k - 1 \in i..MaxDepth /\ ~(k <= k - 1) /\ k \in 1..MaxDepth /\ k - 1 \in 0..MaxDepth
  BY <1>1, <1>3
<1>5. at[k - 1] \notin L!Has(playlists)
  BY <1>2, <1>4
<1>6. at[k] = Link[at[k - 1]] /\ at[k - 1] \in PlaylistIds \cup {None}
  BY <1>4 DEF ChainOf, Iterated
<1>7. at[k] = None
  BY <1>5, <1>6 DEF Link
<1>8. None \notin L!Has(playlists)
  BY DEF LibraryAssumption, L!Has, LibraryTypes
<1>. QED BY <1>3, <1>7, <1>8

LEMMA ChainCycles ==
  ASSUME LibraryAssumption, LibraryTypes, NEW p, NEW at, ChainOf(at, p),
         NEW i \in 0..MaxDepth, NEW j \in 0..(i - 1), at[i] = at[j]
  PROVE  \A k \in i..MaxDepth : \E m \in 0..(i - 1) : at[k] = at[m]
<1> DEFINE wrong == {k \in i..MaxDepth : \A m \in 0..(i - 1) : at[k] # at[m]}
<1> SUFFICES ASSUME wrong # {} PROVE FALSE
  OBVIOUS
<1>1. MaxDepth \in Nat /\ i \in Nat /\ j \in Nat /\ j < i
  BY DEF LibraryAssumption
<1>2. PICK k \in wrong : \A o \in wrong : k <= o
  <2>1. wrong \subseteq Nat
    BY <1>1
  <2> HIDE DEF wrong
  <2>. QED BY <2>1, LeastIs
<1>3. k \in i..MaxDepth /\ k # i /\ \A m \in 0..(i - 1) : at[k] # at[m]
  OBVIOUS
<1>4. k - 1 \in i..MaxDepth /\ ~(k <= k - 1) /\ k \in 1..MaxDepth
  BY <1>1, <1>3
<1>5. PICK m \in 0..(i - 1) : at[k - 1] = at[m]
  BY <1>2, <1>4
<1>6. m + 1 \in 1..MaxDepth /\ m + 1 - 1 = m /\ m + 1 \in 0..i
  BY <1>1
<1>7. at[k] = Link[at[k - 1]] /\ at[m + 1] = Link[at[m + 1 - 1]]
  BY <1>4, <1>6 DEF ChainOf, Iterated
<1>8. at[k] = at[m + 1]
  BY <1>5, <1>6, <1>7
<1>9. m + 1 = i \/ m + 1 \in 0..(i - 1)
  BY <1>1, <1>6
<1>10. at[k] # at[i] /\ at[k] # at[j]
  BY <1>3
<1>. QED BY <1>3, <1>8, <1>9, <1>10

\* A walk that has come along the chain as far as i, and found nothing to play
\* on its way, goes on to the nearest playlist that can be played.
Arrived(at, i) == [hops |-> i, seen |-> {at[j] : j \in 0..(i - 1)}, cur |-> at[i]]
Reached(at, i) == /\ at[i] \in PlaylistIds
                  /\ \A j \in 0..(i - 1) : at[j] \in L!Has(playlists) /\ ~CanPlay(at[j])
Nearest(at, i, k) == CanPlay(at[k]) /\ \A j \in i..(k - 1) : ~CanPlay(at[j])
Finds(t, at, i) ==
  Reached(at, i) =>
    /\ \A k \in i..MaxDepth : Nearest(at, i, k) => t[Arrived(at, i)] = L!Result("items", at[k])
    /\ (\A k \in i..MaxDepth : ~CanPlay(at[k])) => t[Arrived(at, i)].kind # "items"

LEMMA NextOnChain ==
  ASSUME LibraryAssumption, LibraryTypes, NEW p, NEW at, ChainOf(at, p), NEW i \in 0..MaxDepth,
         Reached(at, i), at[i] \in L!Has(playlists), ~CanPlay(at[i]), i < MaxDepth,
         playlists[at[i]].fallback # None
  PROVE  /\ L!Onward(Arrived(at, i), playlists[at[i]].fallback) = Arrived(at, i + 1)
         /\ Reached(at, i + 1)
<1>1. MaxDepth \in Nat /\ i \in Nat
  BY DEF LibraryAssumption
<1>2. i + 1 \in 1..MaxDepth /\ i + 1 - 1 = i
  BY <1>1
<1>3. at[i + 1] = playlists[at[i]].fallback
  <2>1. at[i + 1] = Link[at[i]]
    BY <1>2 DEF ChainOf, Iterated
  <2>2. at[i] \in PlaylistIds
    BY DEF Reached
  <2>. QED BY <2>1, <2>2 DEF Link
<1>4. at[i + 1] \in PlaylistIds
  BY <1>3 DEF LibraryTypes, L!Has, L!Opt, L!Playlist
<1>5. 0..(i + 1 - 1) = (0..(i - 1)) \cup {i}
  BY <1>1
<1>6. {at[j] : j \in 0..(i + 1 - 1)} = {at[j] : j \in 0..(i - 1)} \cup {at[i]}
  BY <1>5
<1>7. L!Onward(Arrived(at, i), playlists[at[i]].fallback) = Arrived(at, i + 1)
  BY <1>3, <1>6 DEF Arrived, L!Onward
<1>8. Reached(at, i + 1)
  BY <1>4, <1>5 DEF Reached
<1>. QED BY <1>7, <1>8

LEMMA NoItems ==
  ASSUME NEW r, NEW q, \/ r = L!Result("not found", q) \/ r = L!Result("too deep", q)
                       \/ r = L!Result("empty", q) \/ r = L!Result("missing media", q)
  PROVE  r.kind # "items"
<1>1. CASE r = L!Result("not found", q)
  <2>1. r.kind = "not found"
    BY Zenon, <1>1 DEF L!Result
  <2>. QED BY Zenon, <2>1
<1>2. CASE r = L!Result("too deep", q)
  <2>1. r.kind = "too deep"
    BY Zenon, <1>2 DEF L!Result
  <2>. QED BY Zenon, <2>1
<1>3. CASE r = L!Result("empty", q)
  <2>1. r.kind = "empty"
    BY Zenon, <1>3 DEF L!Result
  <2>. QED BY Zenon, <2>1
<1>4. CASE r = L!Result("missing media", q)
  <2>1. r.kind = "missing media"
    BY Zenon, <1>4 DEF L!Result
  <2>. QED BY Zenon, <2>1
<1>. QED BY Zenon, <1>1, <1>2, <1>3, <1>4

LEMMA FindsHere ==
  ASSUME LibraryAssumption, LibraryTypes, NEW p, NEW at, ChainOf(at, p),
         NEW t, \A h \in L!Hop : t[h] = Round(t, h),
         NEW i \in 0..MaxDepth, i < MaxDepth => Finds(t, at, i + 1)
  PROVE  Finds(t, at, i)
<1> DEFINE h == Arrived(at, i)
<1> SUFFICES ASSUME Reached(at, i)
             PROVE  /\ \A k \in i..MaxDepth : Nearest(at, i, k) => t[h] = L!Result("items", at[k])
                    /\ (\A k \in i..MaxDepth : ~CanPlay(at[k])) => t[h].kind # "items"
  BY DEF Finds
<1>1. MaxDepth \in Nat /\ i \in Nat /\ i \in i..MaxDepth
  BY DEF LibraryAssumption
<1>2. h \in L!Hop
  <2>1. \A j \in 0..(i - 1) : at[j] \in PlaylistIds
    BY DEF Reached, L!Has, LibraryTypes
  <2>. QED BY <2>1 DEF Arrived, L!Hop, Reached
<1>3. h.hops = i /\ h.cur = at[i] /\ h.seen = {at[j] : j \in 0..(i - 1)}
  BY DEF Arrived
<1>4. t[h] = Round(t, h)
  BY <1>2
<1> HIDE DEF h
\* It is enough that nothing farther on can be played, when nothing is.
<1>6. ASSUME \A k \in i..MaxDepth : ~CanPlay(at[k]), t[h].kind # "items" PROVE
        /\ \A k \in i..MaxDepth : Nearest(at, i, k) => t[h] = L!Result("items", at[k])
        /\ (\A k \in i..MaxDepth : ~CanPlay(at[k])) => t[h].kind # "items"
  BY <1>6 DEF Nearest
<1>7. CASE h.cur \in h.seen
  <2>1. PICK j \in 0..(i - 1) : at[i] = at[j]
    BY <1>3, <1>7
  <2>2. \A k \in i..MaxDepth : ~CanPlay(at[k])
    BY <2>1, ChainCycles DEF Reached
  <2>3. t[h] = L!Result("cycle", h.cur)
    BY <1>4, <1>7 DEF Round
  <2>. QED BY <1>6, <2>2, <2>3 DEF L!Result
<1>8. CASE h.cur \notin h.seen /\ h.cur \notin L!Has(playlists)
  <2>1. \A k \in i..MaxDepth : ~CanPlay(at[k])
    BY <1>3, <1>8, ChainStops DEF CanPlay
  <2>2. t[h] = L!Result("not found", h.cur)
    BY <1>4, <1>8 DEF Round
  <2>3. t[h].kind # "items"
    BY <2>2, NoItems
  <2>. QED BY <1>6, <2>1, <2>3
<1>9. CASE h.cur \notin h.seen /\ h.cur \in L!Has(playlists) /\ CanPlay(h.cur)
  <2>1. t[h] = L!Result("items", at[i])
    BY <1>3, <1>4, <1>9 DEF Round, CanPlay
  <2>2. ASSUME NEW k \in i..MaxDepth, Nearest(at, i, k) PROVE k = i
    <3>1. CASE k # i
      <4>1. i \in i..(k - 1)
        BY <1>1, <3>1
      <4>. QED BY <1>3, <1>9, <2>2, <4>1 DEF Nearest
    <3>. QED BY <3>1
  <2>. QED BY <1>1, <1>3, <1>9, <2>1, <2>2
<1>10. CASE /\ h.cur \notin h.seen /\ h.cur \in L!Has(playlists) /\ ~CanPlay(h.cur)
            /\ playlists[h.cur].fallback = None
  <2>1. t[h].kind # "items"
    <3>1. t[h] = L!Result(IF L!Unresolved(h.cur) = {} THEN "empty" ELSE "missing media", h.cur)
      BY <1>4, <1>10 DEF Round, CanPlay
    <3>2. CASE L!Unresolved(h.cur) = {}
      BY <3>1, <3>2, NoItems
    <3>3. CASE L!Unresolved(h.cur) # {}
      BY <3>1, <3>3, NoItems
    <3>. QED BY <3>2, <3>3
  <2>2. ASSUME NEW k \in i..MaxDepth PROVE ~CanPlay(at[k])
    <3>1. CASE k = i
      BY <1>3, <1>10, <3>1
    <3>2. CASE k # i
      <4>1. i + 1 \in 1..MaxDepth /\ i + 1 - 1 = i /\ i + 1 \in 0..MaxDepth /\ k \in (i + 1)..MaxDepth
        BY <1>1, <3>2
      <4>2. at[i + 1] = Link[at[i]] /\ at[i] \in PlaylistIds
        BY <4>1 DEF ChainOf, Iterated, Reached
      <4>3. at[i + 1] = None
        BY <1>3, <1>10, <4>2 DEF Link
      <4>4. at[i + 1] \notin L!Has(playlists)
        BY <4>3 DEF LibraryAssumption, L!Has, LibraryTypes
      <4>. QED BY <4>1, <4>4, ChainStops DEF CanPlay
    <3>. QED BY <3>1, <3>2
  <2>. QED BY <1>6, <2>1, <2>2
<1>11. CASE /\ h.cur \notin h.seen /\ h.cur \in L!Has(playlists) /\ ~CanPlay(h.cur)
            /\ playlists[h.cur].fallback # None /\ h.hops >= MaxDepth
  <2>1. t[h] = L!Result("too deep", h.cur)
    BY <1>4, <1>11 DEF Round, CanPlay
  <2>2. \A k \in i..MaxDepth : k = i
    BY <1>1, <1>3, <1>11
  <2>3. \A k \in i..MaxDepth : ~CanPlay(at[k])
    BY <1>3, <1>11, <2>2
  <2>4. t[h].kind # "items"
    BY <2>1, NoItems
  <2>. QED BY <1>6, <2>3, <2>4
<1>12. CASE /\ h.cur \notin h.seen /\ h.cur \in L!Has(playlists) /\ ~CanPlay(h.cur)
            /\ playlists[h.cur].fallback # None /\ ~(h.hops >= MaxDepth)
  <2>1. t[h] = t[L!Onward(h, playlists[h.cur].fallback)]
    BY <1>4, <1>12 DEF Round, CanPlay
  <2>2. i < MaxDepth
    BY <1>1, <1>3, <1>12
  <2>3. t[h] = t[Arrived(at, i + 1)] /\ Reached(at, i + 1)
    <3>1. /\ L!Onward(Arrived(at, i), playlists[at[i]].fallback) = Arrived(at, i + 1)
          /\ Reached(at, i + 1)
      BY <1>3, <1>12, <2>2, NextOnChain
    <3>. QED BY <1>3, <2>1, <3>1 DEF h
  <2>4. ASSUME NEW k \in i..MaxDepth, Nearest(at, i, k) PROVE t[h] = L!Result("items", at[k])
    <3>1. k # i
      BY <1>3, <1>12, <2>4 DEF Nearest
    <3>2. k \in (i + 1)..MaxDepth /\ \A j \in (i + 1)..(k - 1) : j \in i..(k - 1)
      BY <1>1, <3>1
    <3>3. Nearest(at, i + 1, k)
      BY <2>4, <3>2 DEF Nearest
    <3>. QED BY <2>2, <2>3, <3>2, <3>3 DEF Finds
  <2>5. ASSUME \A k \in i..MaxDepth : ~CanPlay(at[k]) PROVE t[h].kind # "items"
    <3>1. \A k \in (i + 1)..MaxDepth : k \in i..MaxDepth
      BY <1>1
    <3>. QED BY <2>2, <2>3, <2>5, <3>1 DEF Finds
  <2>. QED BY <2>4, <2>5
<1>. QED BY <1>7, <1>8, <1>9, <1>10, <1>11, <1>12

\* From the deepest hop back to the first.
LEMMA FindsNearest ==
  ASSUME LibraryAssumption, LibraryTypes, NEW p, NEW at, ChainOf(at, p),
         NEW t, \A h \in L!Hop : t[h] = Round(t, h)
  PROVE  Finds(t, at, 0)
<1> DEFINE wrong == {n \in 0..MaxDepth : ~Finds(t, at, MaxDepth - n)}
<1>1. MaxDepth \in Nat /\ MaxDepth \in 0..MaxDepth /\ MaxDepth - MaxDepth = 0
  BY DEF LibraryAssumption
<1>2. wrong = {}
  <2> SUFFICES ASSUME wrong # {} PROVE FALSE
    OBVIOUS
  <2>1. PICK n \in wrong : \A o \in wrong : n <= o
    <3>1. wrong \subseteq Nat
      BY <1>1
    <3> HIDE DEF wrong
    <3>. QED BY <3>1, LeastIs
  <2>2. n \in 0..MaxDepth /\ ~Finds(t, at, MaxDepth - n)
    OBVIOUS
  <2>3. MaxDepth - n \in 0..MaxDepth
    BY <1>1, <2>2
  <2>4. ASSUME MaxDepth - n < MaxDepth PROVE Finds(t, at, MaxDepth - n + 1)
    <3>1. n - 1 \in 0..MaxDepth /\ ~(n <= n - 1) /\ MaxDepth - (n - 1) = MaxDepth - n + 1
      BY <1>1, <2>2, <2>4
    <3>2. Finds(t, at, MaxDepth - (n - 1))
      BY <2>1, <3>1
    <3>. QED BY <3>1, <3>2
  <2>. QED BY <2>2, <2>3, <2>4, FindsHere
<1>3. Finds(t, at, MaxDepth - MaxDepth)
  <2> HIDE DEF Finds
  <2>. QED BY <1>1, <1>2
<1>. QED BY <1>1, <1>3

LEMMA PlaysNearest ==
  ASSUME LibraryAssumption, LibraryTypes
  PROVE  L!FallbackNearest
<1> DEFINE chain(p) == CHOOSE f : f = [i \in 0..MaxDepth |->
                        IF i = 0 THEN p ELSE IF f[i - 1] \in L!Has(playlists)
                                             THEN playlists[f[i - 1]].fallback ELSE None]
           near(at) == {i \in 0..MaxDepth : CanPlay(at[i]) /\ \A j \in 0..(i - 1) : ~CanPlay(at[j])}
<1>1. ASSUME NEW p \in PlaylistIds, NEW at, at = chain(p)
      PROVE  IF near(at) = {} THEN L!Walk(p).kind # "items"
             ELSE L!Walk(p) = L!Result("items", at[CHOOSE i \in near(at) : TRUE])
  <2>1. ChainOf(at, p)
    BY <1>1, Chains
  <2>2. PICK t : /\ \A h \in L!Hop : t[h] = Round(t, h)
                 /\ L!Walk(p) = t[[hops |-> 0, seen |-> {}, cur |-> p]]
    BY Walks
  <2>3. Finds(t, at, 0)
    BY <2>1, <2>2, FindsNearest
  <2>4. Reached(at, 0) /\ Arrived(at, 0) = [hops |-> 0, seen |-> {}, cur |-> p]
    <3>1. at[0] = p /\ 0..(0 - 1) = {}
      BY <2>1 DEF ChainOf, Iterated
    <3>. QED BY <3>1 DEF Reached, Arrived
  <2>5. L!Walk(p) = t[Arrived(at, 0)]
    BY <2>2, <2>4
  <2>6. \A k \in 0..MaxDepth : Nearest(at, 0, k) <=> k \in near(at)
    BY DEF Nearest
  <2>7. ASSUME near(at) = {} PROVE \A k \in 0..MaxDepth : ~CanPlay(at[k])
    <3> DEFINE some == {k \in 0..MaxDepth : CanPlay(at[k])}
    <3> SUFFICES ASSUME some # {} PROVE FALSE
      OBVIOUS
    <3>1. some \subseteq Nat /\ MaxDepth \in Nat
      BY DEF LibraryAssumption
    <3>2. PICK k \in some : \A o \in some : k <= o
      <4> HIDE DEF some
      <4>. QED BY <3>1, LeastIs
    <3>3. \A j \in 0..(k - 1) : j \in 0..MaxDepth /\ ~(k <= j)
      BY <3>1, <3>2
    <3>4. k \in near(at)
      BY <3>2, <3>3
    <3>. QED BY <2>7, <3>4
  <2>8. ASSUME near(at) # {} PROVE L!Walk(p) = L!Result("items", at[CHOOSE i \in near(at) : TRUE])
    <3> DEFINE k == CHOOSE i \in near(at) : TRUE
    <3>1. k \in near(at)
      <4> HIDE DEF near
      <4>. QED BY <2>8
    <3> HIDE DEF k
    <3>2. k \in 0..MaxDepth
      BY <3>1
    <3> HIDE DEF near
    <3>3. Nearest(at, 0, k)
      BY <2>6, <3>1, <3>2
    <3>4. t[Arrived(at, 0)] = L!Result("items", at[k])
      BY <2>3, <2>4, <3>2, <3>3 DEF Finds
    <3>. QED BY <2>5, <3>4 DEF k
  <2>9. ASSUME near(at) = {} PROVE L!Walk(p).kind # "items"
    BY <2>3, <2>4, <2>5, <2>7, <2>9 DEF Finds
  <2> HIDE DEF near
  <2>. QED BY <2>8, <2>9
<1> HIDE DEF chain
<1>. QED BY <1>1 DEF L!FallbackNearest, CanPlay, chain

\* Whatever requests interleave, the walk along the fallbacks plays the nearest
\* playlist that can be played and is within MaxDepth, and otherwise none: no
\* cycle hides one or loops (ResolveWithFallback).
THEOREM FallsBackNearest == Spec => []L!FallbackNearest
<1>0. LibraryAssumption
  BY ServicesAssumption
<1>. USE <1>0
<1>1. LibraryInv => L!FallbackNearest
  BY PlaysNearest DEF LibraryInv
<1>2. LibrarysInv => LibraryInv
  BY DEF LibrarysInv
<1>. QED BY <1>1, <1>2, LibraryHolds, PTL

-----------------------------------------------------------------------------
(* Programs *)

ProgramTypes ==
  /\ library \subseteq Media /\ sceneNames \subseteq TemplateNames \X SceneKinds
  /\ deployed \in [DeployedIds -> Q!Opt(SUBSET Media)]
  /\ planned \in [PlannedIds -> Q!Opt(DeployedIds)]
  /\ templates \in [TemplateIds -> Q!Opt(Q!Template)]
  /\ rules \in [RuleIds -> Q!Opt(Q!Rule)]
  /\ suggestions \in [SuggestionIds -> Q!Opt(Q!Suggestion)]

\* What a deployment or generation under way has read.
RequestOK(r) ==
  /\ r.at \in {"idle", "template", "checked", "deploying", "rule", "generated"}
  /\ r.at \in {"template", "checked", "deploying"} => r.template \in Q!Template
  /\ r.at = "deploying" => r.left \subseteq SceneKinds
Requested == /\ request = [c \in Deployers |-> request[c]]
             /\ \A c \in Deployers : RequestOK(request[c])

ProgramInv == ProgramTypes /\ Requested /\ Q!ProgramsResolve

LEMMA ProgramInit == ASSUME Q!Init PROVE ProgramInv
<1>1. ProgramTypes
  BY DEF Q!Init, ProgramTypes, Q!Opt
<1>2. Requested
  BY DEF Q!Init, Requested, RequestOK, Q!Idle
<1>3. Q!Has(deployed) = {} /\ Q!Has(planned) = {} /\ Q!Has(templates) = {}
  BY DEF Q!Init, Q!Has
<1>. QED BY <1>1, <1>2, <1>3 DEF ProgramInv, Q!ProgramsResolve

LEMMA ResolveRests ==
  ASSUME Q!ProgramsResolve, UNCHANGED <<library, deployed, planned, templates>>
  PROVE  Q!ProgramsResolve'
  BY DEF Q!ProgramsResolve, Q!Has, Q!TemplateNamed

LEMMA RequestRests == ASSUME Requested, UNCHANGED request PROVE Requested'
  BY DEF Requested, RequestOK

\* A request that takes a step knows what the step needs.
LEMMA Stepped ==
  ASSUME Requested, NEW c \in Deployers, NEW r, RequestOK(r), Q!Step(c, r)
  PROVE  Requested'
<1>1. request' = [request EXCEPT ![c] = r]
  BY DEF Q!Step
<1>2. request' = [d \in Deployers |-> IF d = c THEN r ELSE request[d]]
  BY <1>1 DEF Requested
<1>3. \A d \in Deployers : request'[d] = r \/ request'[d] = request[d]
  BY <1>2
<1>4. request' = [d \in Deployers |-> request'[d]]
  BY <1>2
<1>5. \A d \in Deployers : RequestOK(request[d])
  BY DEF Requested
<1>6. \A d \in Deployers : RequestOK(request'[d])
  BY <1>3, <1>5, Zenon
<1>. QED BY <1>4, <1>6 DEF Requested, RequestOK

LEMMA SteppedIdle ==
  ASSUME Requested, NEW c \in Deployers, Q!Step(c, Q!Idle) PROVE Requested'
<1>1. RequestOK(Q!Idle)
  BY DEF RequestOK, Q!Idle
<1>. QED BY <1>1, Stepped DEF Q!Idle

LEMMA ProgramFacts ==
  ASSUME ProgramInv
  PROVE  /\ Q!Has(deployed) \subseteq DeployedIds /\ Q!Has(planned) \subseteq PlannedIds
         /\ Q!Has(templates) \subseteq TemplateIds /\ Q!Has(rules) \subseteq RuleIds
         /\ Q!Has(suggestions) \subseteq SuggestionIds
         /\ \A p \in Q!Has(deployed) : deployed[p] \subseteq Media /\ deployed[p] \subseteq library
         /\ \A t \in Q!Has(templates) : templates[t] \in Q!Template
         /\ \A s \in Q!Has(suggestions) : suggestions[s] \in Q!Suggestion
  BY DEF ProgramInv, ProgramTypes, Q!ProgramsResolve, Q!Has, Q!Opt

\* A playlist that is created has its items in the library.
LEMMA Created ==
  ASSUME ProgramAssumption, ProgramInv, NEW p \in DeployedIds \ Q!Has(deployed), NEW items,
         Q!CreatePlaylist(p, items), UNCHANGED <<library, planned, templates>>
  PROVE  /\ deployed' \in [DeployedIds -> Q!Opt(SUBSET Media)]
         /\ Q!ProgramsResolve'
<1>1. /\ items \in SUBSET Media /\ items \subseteq library
      /\ deployed' = [deployed EXCEPT ![p] = items]
      /\ deployed \in [DeployedIds -> Q!Opt(SUBSET Media)]
  BY DEF Q!CreatePlaylist, ProgramInv, ProgramTypes
<1>2. items # None
  BY <1>1 DEF ProgramAssumption
<1>3. Q!Has(deployed)' = Q!Has(deployed) \cup {p}
  BY <1>1, <1>2 DEF Q!Has
<1>4. \A o \in Q!Has(deployed)' : deployed'[o] \subseteq library'
  BY <1>1, <1>3 DEF ProgramInv, Q!ProgramsResolve, Q!Has
<1>5. \A t \in Q!Has(planned)' : planned'[t] \in Q!Has(deployed)'
  BY <1>3 DEF ProgramInv, Q!ProgramsResolve, Q!Has
<1>6. \A t \in Q!Has(templates)' : ~Q!TemplateNamed(templates[t].name, t)'
  BY DEF ProgramInv, Q!ProgramsResolve, Q!Has, Q!TemplateNamed
<1>. QED BY <1>1, <1>4, <1>5, <1>6 DEF Q!ProgramsResolve, Q!Opt

LEMMA OthersStep ==
  ASSUME ProgramAssumption, ProgramInv,
         Q!AddMedia \/ Q!DeleteMedia \/ Q!DeletePlaylist \/ Q!DeleteTask \/ Q!DeleteScene
  PROVE  ProgramInv'
<1>1. CASE Q!AddMedia
  <2>1. ProgramTypes' /\ Requested'
    BY <1>1, RequestRests DEF Q!AddMedia, ProgramInv, ProgramTypes
  <2>2. Q!ProgramsResolve'
    BY <1>1 DEF Q!AddMedia, ProgramInv, Q!ProgramsResolve, Q!Has, Q!TemplateNamed
  <2>. QED BY <2>1, <2>2 DEF ProgramInv
<1>2. CASE Q!DeleteMedia
  <2>1. ProgramTypes' /\ Requested'
    BY <1>2, RequestRests DEF Q!DeleteMedia, ProgramInv, ProgramTypes
  <2>2. Q!ProgramsResolve'
    BY <1>2 DEF Q!DeleteMedia, ProgramInv, Q!ProgramsResolve, Q!Has, Q!TemplateNamed
  <2>. QED BY <2>1, <2>2 DEF ProgramInv
<1>3. CASE Q!DeletePlaylist
  <2>1. PICK p \in Q!Has(deployed) :
          /\ \A t \in Q!Has(planned) : planned[t] # p
          /\ deployed' = [deployed EXCEPT ![p] = None]
          /\ UNCHANGED <<library, planned, sceneNames, templates, rules, suggestions, request>>
    BY <1>3 DEF Q!DeletePlaylist
  <2>2. deployed \in [DeployedIds -> Q!Opt(SUBSET Media)]
    BY DEF ProgramInv, ProgramTypes
  <2>3. ProgramTypes' /\ Requested'
    BY <2>1, RequestRests DEF ProgramInv, ProgramTypes, Q!Opt
  <2>4. Q!Has(deployed)' = Q!Has(deployed) \ {p}
    BY <2>1, <2>2 DEF Q!Has
  <2>5. \A o \in Q!Has(deployed)' : deployed'[o] \subseteq library'
    BY <2>1, <2>2, <2>4 DEF ProgramInv, Q!ProgramsResolve, Q!Has
  <2>6. \A t \in Q!Has(planned)' : planned'[t] \in Q!Has(deployed)'
    BY <2>1, <2>4 DEF ProgramInv, Q!ProgramsResolve, Q!Has
  <2>7. \A t \in Q!Has(templates)' : ~Q!TemplateNamed(templates[t].name, t)'
    BY <2>1 DEF ProgramInv, Q!ProgramsResolve, Q!Has, Q!TemplateNamed
  <2>. QED BY <2>3, <2>5, <2>6, <2>7 DEF ProgramInv, Q!ProgramsResolve
<1>4. CASE Q!DeleteTask
  <2>1. ProgramTypes' /\ Requested'
    BY <1>4, RequestRests DEF Q!DeleteTask, ProgramInv, ProgramTypes, Q!Opt
  <2>2. Q!ProgramsResolve'
    BY <1>4 DEF Q!DeleteTask, ProgramInv, ProgramTypes, Q!ProgramsResolve, Q!Has, Q!TemplateNamed
  <2>. QED BY <2>1, <2>2 DEF ProgramInv
<1>5. CASE Q!DeleteScene
  <2>1. ProgramTypes' /\ Requested'
    BY <1>5, RequestRests DEF Q!DeleteScene, ProgramInv, ProgramTypes
  <2>. QED BY <2>1, <1>5, ResolveRests DEF ProgramInv, Q!DeleteScene
<1>. QED BY <1>1, <1>2, <1>3, <1>4, <1>5

\* A template that is stored has a name of its own.
LEMMA TemplatesPut ==
  ASSUME ProgramAssumption, ProgramInv,
         Q!CreateTemplate \/ Q!UpdateTemplate \/ Q!DeleteTemplate
  PROVE  ProgramInv'
<1>1. PICK t \in TemplateIds, r \in Q!Opt(Q!Template) :
        /\ Q!SetTemplate(t, r) /\ (r # None => ~Q!TemplateNamed(r.name, t))
  BY ProgramFacts DEF Q!CreateTemplate, Q!UpdateTemplate, Q!DeleteTemplate, Q!Opt
<1>2. /\ templates' = [templates EXCEPT ![t] = r]
      /\ templates \in [TemplateIds -> Q!Opt(Q!Template)]
      /\ UNCHANGED <<library, deployed, planned, sceneNames, rules, suggestions, request>>
  BY <1>1 DEF Q!SetTemplate, ProgramInv, ProgramTypes
<1>3. ProgramTypes' /\ Requested'
  BY <1>2, RequestRests DEF ProgramInv, ProgramTypes
<1>4. \A a \in Q!Has(templates)' : ~Q!TemplateNamed(templates[a].name, a)'
  BY <1>1, <1>2 DEF ProgramInv, Q!ProgramsResolve, Q!Has, Q!TemplateNamed
<1>5. /\ \A p \in Q!Has(deployed)' : deployed'[p] \subseteq library'
      /\ \A a \in Q!Has(planned)' : planned'[a] \in Q!Has(deployed)'
  BY <1>2 DEF ProgramInv, Q!ProgramsResolve, Q!Has
<1>. QED BY <1>3, <1>4, <1>5 DEF ProgramInv, Q!ProgramsResolve

\* The steps of a deployment.
LEMMA DeployStep ==
  ASSUME ProgramAssumption, ProgramInv, NEW c \in Deployers,
         \/ Q!GetTemplate(c) \/ Q!CheckMedia(c) \/ Q!DeployPlaylist(c) \/ Q!DeployScene(c)
         \/ Q!DeployTask(c) \/ Q!DeployDone(c) \/ Q!DeployFails(c)
  PROVE  ProgramInv'
<1>0. RequestOK(request[c]) /\ Requested
  BY DEF ProgramInv, Requested
<1>1. CASE Q!GetTemplate(c)
  <2>1. PICK t \in Q!Has(templates) : Q!Step(c, [at |-> "template", template |-> templates[t]])
    BY <1>1 DEF Q!GetTemplate
  <2>2. PICK v \in Q!Template : v = templates[t]
    BY ProgramFacts
  <2>3. RequestOK([at |-> "template", template |-> v])
    BY DEF RequestOK
  <2>4. Requested'
    BY <1>0, <2>1, <2>2, <2>3, Stepped
  <2>5. UNCHANGED <<library, deployed, planned, sceneNames, templates, rules, suggestions>>
    BY <1>1 DEF Q!GetTemplate
  <2>. QED BY <2>4, <2>5, ResolveRests DEF ProgramInv, ProgramTypes
<1>2. CASE Q!CheckMedia(c)
  <2>a. PICK v \in Q!Template : v = request[c].template
    BY <1>0, <1>2 DEF Q!CheckMedia, RequestOK
  <2>b. PICK param \in Q!Opt(Media) :
          Q!Step(c, IF Q!Expand(v.entries, param) \subseteq library
                    THEN [at |-> "checked", template |-> v, items |-> Q!Expand(v.entries, param)]
                    ELSE Q!Idle)
    BY <1>2, <2>a DEF Q!CheckMedia
  <2>1. PICK items :
          Q!Step(c, [at |-> "checked", template |-> v, items |-> items]) \/ Q!Step(c, Q!Idle)
    BY <2>b
  <2>2. RequestOK([at |-> "checked", template |-> v, items |-> items])
    BY DEF RequestOK
  <2>3. Requested'
    BY <1>0, <2>1, <2>2, Stepped, SteppedIdle
  <2>4. UNCHANGED <<library, deployed, planned, sceneNames, templates, rules, suggestions>>
    BY <1>2 DEF Q!CheckMedia
  <2>. QED BY <2>3, <2>4, ResolveRests DEF ProgramInv, ProgramTypes
<1>3. CASE Q!DeployPlaylist(c)
  <2>1. PICK p \in DeployedIds \ Q!Has(deployed) :
          /\ request[c].at = "checked" /\ Q!CreatePlaylist(p, request[c].items)
          /\ Q!Step(c, Q!Deploying(request[c].template, p, request[c].template.kinds))
          /\ UNCHANGED <<library, planned, sceneNames, templates, rules, suggestions>>
    BY <1>3 DEF Q!DeployPlaylist
  <2>2. PICK v \in Q!Template : v = request[c].template
    BY <1>0, <2>1 DEF RequestOK
  <2>3. RequestOK(Q!Deploying(v, p, v.kinds))
    BY DEF RequestOK, Q!Deploying, Q!Template
  <2>4. Requested'
    BY <1>0, <2>1, <2>2, <2>3, Stepped
  <2>5. PICK items : items = request[c].items
    OBVIOUS
  <2>6. Q!CreatePlaylist(p, items)
    BY <2>1, <2>5
  <2>7. /\ deployed' \in [DeployedIds -> Q!Opt(SUBSET Media)]
        /\ Q!ProgramsResolve'
    BY <2>1, <2>6, Created
  <2>. QED BY <2>1, <2>4, <2>7 DEF ProgramInv, ProgramTypes
<1>4. CASE Q!DeployScene(c)
  <2>1. PICK k \in request[c].left :
          /\ sceneNames' = sceneNames \cup {<<request[c].template.name, k>>}
          /\ Q!Step(c, [request[c] EXCEPT !.left = request[c].left \ {k}])
          /\ request[c].at = "deploying"
          /\ UNCHANGED <<library, deployed, planned, templates, rules, suggestions>>
    BY <1>4 DEF Q!DeployScene
  <2>2. request[c].template.name \in TemplateNames /\ k \in SceneKinds
    BY <1>0, <2>1 DEF RequestOK, Q!Template
  <2>3. PICK r : r = [request[c] EXCEPT !.left = request[c].left \ {k}]
    OBVIOUS
  <2>4. RequestOK(r)
    BY <1>0, <2>1, <2>3 DEF RequestOK
  <2>5. Requested'
    BY <1>0, <2>1, <2>3, <2>4, Stepped
  <2>6. <<request[c].template.name, k>> \in TemplateNames \X SceneKinds
    BY <2>2
  <2>7. ProgramTypes'
    BY <2>1, <2>6 DEF ProgramInv, ProgramTypes
  <2>. QED BY <2>1, <2>5, <2>7, ResolveRests DEF ProgramInv
<1>5. CASE Q!DeployTask(c)
  <2>1. PICK t \in PlannedIds, p \in Q!Has(deployed) :
          /\ planned' = [planned EXCEPT ![t] = p] /\ Q!Step(c, Q!Idle)
          /\ UNCHANGED <<library, deployed, sceneNames, templates, rules, suggestions>>
    BY <1>5 DEF Q!DeployTask
  <2>2. Requested'
    BY <1>0, <2>1, SteppedIdle
  <2>3. ProgramTypes'
    BY <2>1, ProgramFacts DEF ProgramInv, ProgramTypes, Q!Opt
  <2>4. \A a \in Q!Has(planned)' : planned'[a] \in Q!Has(deployed)'
    BY <2>1 DEF ProgramInv, ProgramTypes, Q!ProgramsResolve, Q!Has
  <2>5. /\ \A o \in Q!Has(deployed)' : deployed'[o] \subseteq library'
        /\ \A a \in Q!Has(templates)' : ~Q!TemplateNamed(templates[a].name, a)'
    BY <2>1 DEF ProgramInv, Q!ProgramsResolve, Q!Has, Q!TemplateNamed
  <2>. QED BY <2>2, <2>3, <2>4, <2>5 DEF ProgramInv, Q!ProgramsResolve
<1>6. CASE Q!DeployDone(c) \/ Q!DeployFails(c)
  <2>1. /\ Q!Step(c, Q!Idle)
        /\ UNCHANGED <<library, deployed, planned, sceneNames, templates, rules, suggestions>>
    BY <1>6 DEF Q!DeployDone, Q!DeployFails
  <2>2. Requested'
    BY <1>0, <2>1, SteppedIdle
  <2>. QED BY <2>1, <2>2, ResolveRests DEF ProgramInv, ProgramTypes
<1>. QED BY <1>1, <1>2, <1>3, <1>4, <1>5, <1>6

\* Rules, and the steps of a generation: the playlist that is created is
\* checked against the library as it is then.
LEMMA RulesStep == ASSUME ProgramAssumption, ProgramInv, Q!handleSmartRule PROVE ProgramInv'
<1>0. Requested
  BY DEF ProgramInv
<1>1. CASE Q!CreateRule \/ Q!UpdateRule \/ Q!DeleteRule
  <2>1. PICK r \in RuleIds, v \in Q!Opt(Q!Rule) : Q!SetRule(r, v)
    BY <1>1, ProgramFacts DEF Q!CreateRule, Q!UpdateRule, Q!DeleteRule, Q!Opt
  <2>2. /\ rules' = [rules EXCEPT ![r] = v]
        /\ UNCHANGED <<library, deployed, planned, sceneNames, templates, suggestions, request>>
    BY <2>1 DEF Q!SetRule
  <2>3. Requested'
    BY <2>2, <1>0, RequestRests
  <2>. QED BY <2>2, <2>3, ResolveRests DEF ProgramInv, ProgramTypes
<1>2. ASSUME NEW c \in Deployers, Q!GetRule(c) \/ Q!GeneratePlaylist(c) PROVE ProgramInv'
  <2>1. PICK v : \/ Q!Step(c, Q!Idle) \/ Q!Step(c, [at |-> "rule", rule |-> v])
                 \/ Q!Step(c, [at |-> "generated", items |-> v])
    BY <1>2 DEF Q!GetRule, Q!GeneratePlaylist
  <2>2. /\ RequestOK([at |-> "rule", rule |-> v])
        /\ RequestOK([at |-> "generated", items |-> v])
    BY DEF RequestOK
  <2>3. Requested'
    BY <1>0, <2>1, <2>2, Stepped, SteppedIdle
  <2>4. UNCHANGED <<library, deployed, planned, sceneNames, templates, rules, suggestions>>
    BY <1>2 DEF Q!GetRule, Q!GeneratePlaylist
  <2>. QED BY <2>3, <2>4, ResolveRests DEF ProgramInv, ProgramTypes
<1>3. ASSUME NEW c \in Deployers, Q!ApplyGenerated(c) PROVE ProgramInv'
  <2>1. /\ UNCHANGED <<library, planned, sceneNames, templates, rules, suggestions>>
        /\ Q!Step(c, Q!Idle)
    BY <1>3 DEF Q!ApplyGenerated
  <2>2. Requested'
    BY <1>0, <2>1, SteppedIdle
  <2>3. PICK items : items = request[c].items
    OBVIOUS
  <2>4. \/ \E p \in DeployedIds \ Q!Has(deployed) : Q!CreatePlaylist(p, items)
        \/ UNCHANGED deployed
    BY <1>3, <2>3 DEF Q!ApplyGenerated
  <2>5. /\ deployed' \in [DeployedIds -> Q!Opt(SUBSET Media)]
        /\ Q!ProgramsResolve'
    BY <2>1, <2>4, Created, ResolveRests DEF ProgramInv, ProgramTypes
  <2>. QED BY <2>1, <2>2, <2>5 DEF ProgramInv, ProgramTypes
<1>. QED BY <1>1, <1>2, <1>3 DEF Q!handleSmartRule

\* Suggestions, and their review.
LEMMA ReviewStep == ASSUME ProgramAssumption, ProgramInv, Q!handleSuggestion PROVE ProgramInv'
<1>0. /\ suggestions \in [SuggestionIds -> Q!Opt(Q!Suggestion)]
      /\ Requested
  BY DEF ProgramInv, ProgramTypes
<1>1. CASE Q!CreateSuggestion
  <2>1. PICK s \in SuggestionIds, m \in Q!Opt(Media) :
          /\ suggestions' = [suggestions EXCEPT ![s] =
                               [media |-> m, status |-> "pending", playlist |-> None]]
          /\ UNCHANGED <<library, deployed, planned, sceneNames, templates, rules, request>>
    BY <1>1 DEF Q!CreateSuggestion
  <2>2. [media |-> m, status |-> "pending", playlist |-> None] \in Q!Suggestion
    BY DEF Q!Suggestion, Q!Opt
  <2>3. ProgramTypes' /\ Requested'
    BY <1>0, <2>1, <2>2, RequestRests DEF ProgramInv, ProgramTypes, Q!Opt
  <2>. QED BY <2>1, <2>3, ResolveRests DEF ProgramInv
<1>2. CASE Q!Approve
  <2>1. PICK s \in Q!Has(suggestions), p \in DeployedIds \ Q!Has(deployed) :
          /\ Q!CreatePlaylist(p, {suggestions[s].media})
          /\ suggestions' = [suggestions EXCEPT ![s] =
                               [suggestions[s] EXCEPT !.status = "applied", !.playlist = p]]
          /\ UNCHANGED <<library, planned, sceneNames, templates, rules, request>>
    BY <1>2 DEF Q!Approve
  <2>2. PICK items : items = {suggestions[s].media}
    OBVIOUS
  <2>3. Q!CreatePlaylist(p, items)
    BY <2>1, <2>2
  <2>4. /\ deployed' \in [DeployedIds -> Q!Opt(SUBSET Media)]
        /\ Q!ProgramsResolve'
    BY <2>1, <2>3, Created
  <2>5. [suggestions[s] EXCEPT !.status = "applied", !.playlist = p] \in Q!Suggestion
    BY ProgramFacts DEF Q!Suggestion, Q!Opt
  <2>6. suggestions' \in [SuggestionIds -> Q!Opt(Q!Suggestion)]
    BY <1>0, <2>1, <2>5 DEF Q!Opt
  <2>. QED BY <1>0, <2>1, <2>4, <2>6, RequestRests DEF ProgramInv, ProgramTypes
<1>3. CASE Q!Reject
  <2>1. PICK s \in Q!Has(suggestions) :
          /\ suggestions' = [suggestions EXCEPT ![s] = [suggestions[s] EXCEPT !.status = "rejected"]]
          /\ UNCHANGED <<library, deployed, planned, sceneNames, templates, rules, request>>
    BY <1>3 DEF Q!Reject
  <2>2. [suggestions[s] EXCEPT !.status = "rejected"] \in Q!Suggestion
    BY ProgramFacts DEF Q!Suggestion
  <2>3. suggestions' \in [SuggestionIds -> Q!Opt(Q!Suggestion)]
    BY <1>0, <2>1, <2>2 DEF Q!Opt
  <2>4. ProgramTypes' /\ Requested'
    BY <1>0, <2>1, <2>3, RequestRests DEF ProgramInv, ProgramTypes
  <2>. QED BY <2>1, <2>4, ResolveRests DEF ProgramInv
<1>. QED BY <1>1, <1>2, <1>3 DEF Q!handleSuggestion

LEMMA ProgramStep ==
  ASSUME ProgramAssumption, ProgramInv, [Q!Next]_Q!programVars PROVE ProgramInv'
<1>1. ProgramInv /\ UNCHANGED Q!programVars => ProgramInv'
  BY ResolveRests, RequestRests DEF Q!programVars, ProgramInv, ProgramTypes
<1>2. ProgramInv /\ Q!handleIndustryTemplate => ProgramInv'
  BY TemplatesPut, DeployStep DEF Q!handleIndustryTemplate
<1>. QED BY <1>1, <1>2, OthersStep, RulesStep, ReviewStep DEF Q!Next

\* ProgramInv of the collections of a document: what a request has read does not
\* depend on them.
ProgramOf(d) ==
  /\ d.library \subseteq Media /\ d.sceneNames \subseteq TemplateNames \X SceneKinds
  /\ d.deployed \in [DeployedIds -> Q!Opt(SUBSET Media)]
  /\ d.planned \in [PlannedIds -> Q!Opt(DeployedIds)]
  /\ d.templates \in [TemplateIds -> Q!Opt(Q!Template)]
  /\ d.rules \in [RuleIds -> Q!Opt(Q!Rule)]
  /\ d.suggestions \in [SuggestionIds -> Q!Opt(Q!Suggestion)]
  /\ \A p \in Q!Has(d.deployed) : d.deployed[p] \subseteq d.library
  /\ \A t \in Q!Has(d.planned) : d.planned[t] \in Q!Has(d.deployed)
  /\ \A t \in Q!Has(d.templates) :
       ~\E o \in Q!Has(d.templates) \ {t} : d.templates[o].name = d.templates[t].name

ProgramsInv == ProgramInv /\ \A d \in saved : ProgramOf(d)

LEMMA ProgramCaptured == ASSUME ProgramInv PROVE ProgramOf(Document)
<1>. DEFINE d == Document
<1>1. /\ d.library = library /\ d.sceneNames = sceneNames /\ d.deployed = deployed
      /\ d.planned = planned /\ d.templates = templates /\ d.rules = rules
      /\ d.suggestions = suggestions
  BY Documents
<1>. HIDE DEF d
<1>2. ProgramOf(d)
  BY <1>1 DEF ProgramInv, ProgramTypes, Q!ProgramsResolve, Q!TemplateNamed, ProgramOf
<1>. QED BY <1>2 DEF d

LEMMA ProgramRestored ==
  ASSUME ProgramInv, NEW d, ProgramOf(d), Replaced(d), UNCHANGED underWay PROVE ProgramInv'
<1>1. /\ library' = d.library /\ sceneNames' = d.sceneNames /\ deployed' = d.deployed
      /\ planned' = d.planned /\ templates' = d.templates /\ rules' = d.rules
      /\ suggestions' = d.suggestions /\ request' = request
  BY DEF Replaced, underWay
<1>2. ProgramTypes'
  BY <1>1 DEF ProgramTypes, ProgramOf
<1>3. Requested'
  BY <1>1, RequestRests DEF ProgramInv
<1>4. Q!ProgramsResolve'
  BY <1>1 DEF Q!ProgramsResolve, Q!TemplateNamed, Q!Has, ProgramOf
<1>. QED BY <1>2, <1>3, <1>4 DEF ProgramInv

LEMMA ProgramHolds == ASSUME ProgramAssumption PROVE Spec => []ProgramsInv
<1>1. Init => ProgramsInv
  BY ProgramInit DEF Init, ProgramsInv
<1>2. ProgramsInv /\ [Next]_vars => ProgramsInv'
  <2> SUFFICES ASSUME ProgramsInv, [Next]_vars PROVE ProgramsInv'
    OBVIOUS
  <2>1. CASE Moves
    <3>1. [Q!Next]_Q!programVars /\ saved' = saved
      BY <2>1 DEF Moves, programVars, Q!programVars
    <3>. QED BY <3>1, ProgramStep, Zenon DEF ProgramsInv, ProgramOf, Q!Has
  <2>2. CASE ServicesRest /\ saved' = saved \cup {Document}
    <3>1. UNCHANGED Q!programVars
      BY <2>2 DEF ServicesRest, programVars, Q!programVars
    <3>2. \A d \in saved' : ProgramOf(d)
      BY <2>2, ProgramCaptured DEF ProgramsInv
    <3>. QED BY <3>1, <3>2, ProgramStep, Zenon DEF ProgramsInv
  <2>3. ASSUME saved' = saved, NEW d \in saved, Replaced(d), UNCHANGED underWay PROVE ProgramsInv'
    BY <2>3, ProgramRestored, Zenon DEF ProgramsInv
  <2>. QED BY <2>1, <2>2, <2>3, StepIs
<1>. QED BY <1>1, <1>2, PTL DEF Spec

\* Every variable of the programmes keeps its type.
THEOREM ProgramTypeCorrect == Spec => []Q!TypeOK
<1>0. ProgramAssumption
  BY ServicesAssumption
<1>. USE <1>0
<1>1. ProgramInv => Q!TypeOK
  BY DEF ProgramInv, ProgramTypes, Requested, RequestOK, Q!TypeOK
<1>2. ProgramsInv => ProgramInv
  BY DEF ProgramsInv
<1>. QED BY <1>1, <1>2, ProgramHolds, PTL

\* A review decision is final, and an approval makes its one playlist in the
\* same update.
LEMMA ReviewsFinal ==
  ASSUME ProgramAssumption, ProgramInv, [Q!Next]_Q!programVars PROVE Q!DecisionsFinal
<1>1. \A s \in Q!Has(suggestions) :
           /\ suggestions'[s] # None
           /\ suggestions[s].status # "pending" => suggestions'[s] = suggestions[s]
           /\ suggestions'[s].status = "applied" /\ suggestions[s].status = "pending" =>
                /\ deployed[suggestions'[s].playlist] = None
                /\ deployed'[suggestions'[s].playlist] = {suggestions[s].media}
  <2> SUFFICES ASSUME NEW s \in Q!Has(suggestions)
               PROVE  /\ suggestions'[s] # None
                      /\ suggestions[s].status # "pending" => suggestions'[s] = suggestions[s]
                      /\ suggestions'[s].status = "applied" /\ suggestions[s].status = "pending" =>
                           /\ deployed[suggestions'[s].playlist] = None
                           /\ deployed'[suggestions'[s].playlist] = {suggestions[s].media}
    BY Zenon
  <2>0. /\ suggestions \in [SuggestionIds -> Q!Opt(Q!Suggestion)]
        /\ deployed \in [DeployedIds -> Q!Opt(SUBSET Media)]
        /\ s \in SuggestionIds /\ suggestions[s] \in Q!Suggestion /\ suggestions[s] # None
    BY ProgramFacts DEF ProgramInv, ProgramTypes, Q!Has
  <2>1. CASE UNCHANGED suggestions
    BY <2>0, <2>1
  <2>2. CASE Q!CreateSuggestion
    <3>1. PICK t \in SuggestionIds \ Q!Has(suggestions), m \in Q!Opt(Media) :
            suggestions' = [suggestions EXCEPT ![t] =
                              [media |-> m, status |-> "pending", playlist |-> None]]
      BY <2>2 DEF Q!CreateSuggestion
    <3>2. suggestions'[s] = suggestions[s]
      BY <2>0, <3>1
    <3>. QED BY <2>0, <3>2
  <2>3. CASE Q!Approve
    <3>0. PICK t \in Q!Has(suggestions), p \in DeployedIds \ Q!Has(deployed) :
            /\ suggestions[t].status = "pending"
            /\ Q!CreatePlaylist(p, {suggestions[t].media})
            /\ suggestions' = [suggestions EXCEPT ![t] =
                                 [suggestions[t] EXCEPT !.status = "applied", !.playlist = p]]
      BY <2>3, Zenon DEF Q!Approve
    <3>1. /\ suggestions[t].status = "pending"
          /\ deployed' = [deployed EXCEPT ![p] = {suggestions[t].media}]
          /\ suggestions' = [suggestions EXCEPT ![t] =
                               [suggestions[t] EXCEPT !.status = "applied", !.playlist = p]]
      BY <3>0 DEF Q!CreatePlaylist
    <3>2. CASE t # s
      BY <2>0, <3>1, <3>2
    <3>3. CASE t = s
      <4>1. suggestions'[s] = [suggestions[s] EXCEPT !.status = "applied", !.playlist = p]
        BY <2>0, <3>1, <3>3
      <4>2. /\ [suggestions[s] EXCEPT !.status = "applied", !.playlist = p] \in Q!Suggestion
            /\ [suggestions[s] EXCEPT !.status = "applied", !.playlist = p].playlist = p
        BY <2>0 DEF Q!Suggestion, Q!Opt
      <4>3. deployed[p] = None /\ deployed'[p] = {suggestions[s].media}
        BY <2>0, <3>1, <3>3 DEF Q!Has
      <4>. QED BY <3>1, <3>3, <4>1, <4>2, <4>3 DEF ProgramAssumption
    <3>. QED BY <3>2, <3>3
  <2>4. CASE Q!Reject
    <3>1. PICK t \in Q!Has(suggestions) :
            /\ suggestions[t].status = "pending"
            /\ suggestions' = [suggestions EXCEPT ![t] = [suggestions[t] EXCEPT !.status = "rejected"]]
      BY <2>4 DEF Q!Reject
    <3>2. CASE t # s
      BY <2>0, <3>1, <3>2
    <3>3. CASE t = s
      <4>1. suggestions'[s] = [suggestions[s] EXCEPT !.status = "rejected"]
        BY <2>0, <3>1, <3>3
      <4>2. /\ [suggestions[s] EXCEPT !.status = "rejected"] \in Q!Suggestion
            /\ [suggestions[s] EXCEPT !.status = "rejected"].status = "rejected"
        BY <2>0 DEF Q!Suggestion
      <4>. QED BY <3>1, <3>3, <4>1, <4>2 DEF ProgramAssumption
    <3>. QED BY <3>2, <3>3
  <2>5. CASE Q!Next /\ ~(Q!CreateSuggestion \/ Q!Approve \/ Q!Reject)
    <3>1. UNCHANGED suggestions
      BY <2>5 DEF Q!Next, Q!AddMedia, Q!DeleteMedia, Q!DeletePlaylist, Q!DeleteTask, Q!DeleteScene,
         Q!handleIndustryTemplate, Q!CreateTemplate, Q!UpdateTemplate, Q!DeleteTemplate, Q!SetTemplate,
         Q!GetTemplate, Q!CheckMedia, Q!DeployPlaylist, Q!DeployScene, Q!DeployTask, Q!DeployDone,
         Q!DeployFails, Q!handleSmartRule, Q!CreateRule, Q!UpdateRule, Q!DeleteRule, Q!SetRule,
         Q!GetRule, Q!GeneratePlaylist, Q!ApplyGenerated, Q!handleSuggestion
    <3>. QED BY <2>1, <3>1
  <2>6. UNCHANGED Q!programVars => UNCHANGED suggestions
    BY DEF Q!programVars
  <2>. QED BY <2>1, <2>2, <2>3, <2>4, <2>5, <2>6
<1>. QED BY <1>1 DEF Q!DecisionsFinal

\* Of the numbers S, those below m, and the ones a list of at most cap keeps.
Below(S, m) == {o \in S : o < m}
Leading(S, cap) == {m \in S : Cardinality(Below(S, m)) < cap}

\* Once the list is full, as many as it may hold came before: the first that
\* fill it have fewer than that before them.
LEMMA LeadingFills ==
  ASSUME NEW S, S \subseteq Nat, IsFiniteSet(S), NEW cap \in Nat, NEW m \in Nat
  PROVE  Cardinality({o \in Leading(S, cap) : o < m}) >= cap <=> Cardinality(Below(S, m)) >= cap
<1> DEFINE kept(n) == {o \in Leading(S, cap) : o < n}
<1>1. \A n : /\ Below(S, n) \in SUBSET S /\ kept(n) \in SUBSET Below(S, n)
             /\ IsFiniteSet(Below(S, n)) /\ IsFiniteSet(kept(n))
             /\ Cardinality(Below(S, n)) \in Nat /\ Cardinality(kept(n)) \in Nat
             /\ Cardinality(kept(n)) <= Cardinality(Below(S, n))
  <2>1. \A n : Below(S, n) \in SUBSET S /\ kept(n) \in SUBSET Below(S, n)
    BY DEF Below, Leading
  <2> HIDE DEF kept
  <2>2. ASSUME NEW n PROVE /\ IsFiniteSet(Below(S, n)) /\ IsFiniteSet(kept(n))
                           /\ Cardinality(kept(n)) <= Cardinality(Below(S, n))
    <3>1. IsFiniteSet(Below(S, n))
      BY <2>1, FS_Subset
    <3>. QED BY <2>1, <3>1, FS_Subset
  <2>3. ASSUME NEW n PROVE Cardinality(Below(S, n)) \in Nat /\ Cardinality(kept(n)) \in Nat
    BY <2>2, FS_CardinalityType
  <2>. QED BY <2>1, <2>2, <2>3
<1>2. \A i, j \in Nat : i <= j => Cardinality(Below(S, i)) <= Cardinality(Below(S, j))
  <2> SUFFICES ASSUME NEW i \in Nat, NEW j \in Nat, i <= j
               PROVE  Cardinality(Below(S, i)) <= Cardinality(Below(S, j))
    OBVIOUS
  <2>1. ASSUME NEW o \in Below(S, i) PROVE o \in Below(S, j)
    <3>1. o \in S /\ o < i /\ o \in Nat
      BY <2>1 DEF Below
    <3>2. o < j
      BY <3>1
    <3>. QED BY <3>1, <3>2 DEF Below
  <2>2. Below(S, i) \in SUBSET Below(S, j) /\ IsFiniteSet(Below(S, j))
    BY <1>1, <2>1
  <2>. QED BY <2>2, FS_Subset
<1>3. ASSUME Cardinality(Below(S, m)) >= cap PROVE Cardinality(kept(m)) >= cap
  <2> DEFINE full == {n \in Nat : Cardinality(Below(S, n)) >= cap}
             k == LeastOf(full)
  <2>1. k \in full /\ \A n \in full : k <= n
    BY <1>3, LeastIs
  <2> HIDE DEF k
  <2>2. k <= m /\ k \in Nat
    BY <1>3, <2>1
  <2>3. ASSUME NEW o \in Below(S, k) PROVE o \in kept(m)
    <3>1. o \in S /\ o < k /\ o \in Nat /\ o < m
      BY <2>2, <2>3 DEF Below
    <3>2. o \notin full
      BY <2>1, <2>2, <3>1
    <3>3. Cardinality(Below(S, o)) \in Nat /\ ~(Cardinality(Below(S, o)) >= cap)
      BY <1>1, <3>1, <3>2
    <3>4. Cardinality(Below(S, o)) < cap
      BY <3>3
    <3>. QED BY <3>1, <3>4 DEF Leading
  <2>4. Below(S, k) \in SUBSET kept(m)
    BY <2>3
  <2>5. Cardinality(Below(S, k)) <= Cardinality(kept(m))
    BY <1>1, <2>4, FS_Subset
  <2>6. Cardinality(Below(S, k)) >= cap
    BY <2>1
  <2>7. Cardinality(Below(S, k)) \in Nat /\ Cardinality(kept(m)) \in Nat
    BY <1>1
  <2> HIDE DEF kept
  <2>. QED BY <2>5, <2>6, <2>7
<1>4. Cardinality(kept(m)) <= Cardinality(Below(S, m)) /\ Cardinality(kept(m)) \in Nat
      /\ Cardinality(Below(S, m)) \in Nat
  BY <1>1
<1> HIDE DEF kept
<1>5. Cardinality(kept(m)) >= cap <=> Cardinality(Below(S, m)) >= cap
  BY <1>3, <1>4
<1>. QED BY <1>5 DEF kept

\* What is generated is the start, in library order, of what the rule allows.
LEMMA GeneratesFirst ==
  ASSUME ProgramAssumption, NEW rule, Q!Cap(rule) \in Nat, NEW lib \in SUBSET Media, NEW recent
  PROVE  Q!Generate(rule, lib, recent) =
           Leading({m \in lib : rule.open /\ Q!MatchesTags(rule, m) /\ ~Q!TooLong(rule, m)
                                /\ ~Q!Repeats(rule, m, recent)}, Q!Cap(rule))
<1> DEFINE top == Q!Cardinality(Media)
           cap == Q!Cap(rule)
           allowed == {m \in lib : Q!MatchesTags(rule, m) /\ ~Q!TooLong(rule, m)
                                   /\ ~Q!Repeats(rule, m, recent)}
           body(f) == [m \in 0..top |->
             IF m = 0 THEN {}
             ELSE IF \/ m \notin lib \/ ~Q!MatchesTags(rule, m) \/ Q!TooLong(rule, m)
                     \/ Q!Repeats(rule, m, recent) \/ Q!Cardinality(f[m - 1]) >= Q!Cap(rule)
                  THEN f[m - 1] ELSE f[m - 1] \cup {m}]
           pass == CHOOSE f : f = body(f)
           kept(n) == {o \in Leading(allowed, cap) : o < n}
           g == [m \in 0..top |-> kept(m + 1)]
<1>1. Q!Generate(rule, lib, recent) = IF rule.open THEN pass[top] ELSE {}
  BY DEF Q!Generate
<1>2. top \in Nat /\ Media = 1..top /\ cap \in Nat /\ Cardinality(Media) = top
  BY Counts DEF ProgramAssumption, Numbered
<1>3. allowed \subseteq Nat /\ allowed \subseteq 1..top /\ IsFiniteSet(allowed)
  <2>1. allowed \subseteq lib /\ lib \subseteq 1..top
    BY <1>2
  <2> HIDE DEF allowed, top
  <2>2. IsFiniteSet(1..top)
    BY <1>2, FS_Interval
  <2>3. allowed \in SUBSET (1..top) /\ 1..top \subseteq Nat
    BY <1>2, <2>1
  <2>4. IsFiniteSet(allowed)
    BY <2>2, <2>3, FS_Subset
  <2>. QED BY <2>3, <2>4
<1>4. \A m \in 1..top : m \in allowed <=>
        m \in lib /\ Q!MatchesTags(rule, m) /\ ~Q!TooLong(rule, m) /\ ~Q!Repeats(rule, m, recent)
  OBVIOUS
<1>5. \A m \in 1..top : Q!Cardinality(kept(m)) >= cap <=> Cardinality(Below(allowed, m)) >= cap
  <2> HIDE DEF allowed, cap
  <2> SUFFICES ASSUME NEW m \in 1..top
               PROVE  Q!Cardinality(kept(m)) >= cap <=> Cardinality(Below(allowed, m)) >= cap
    OBVIOUS
  <2>1. m \in Nat
    BY <1>2
  <2>2. Q!Cardinality(kept(m)) = Cardinality(kept(m))
    BY Counts
  <2>. QED BY <1>2, <1>3, <2>1, <2>2, LeadingFills
<1>6. \A m \in 1..top : /\ m \in allowed /\ Cardinality(Below(allowed, m)) < cap => kept(m + 1) = kept(m) \cup {m}
                        /\ ~(m \in allowed /\ Cardinality(Below(allowed, m)) < cap) => kept(m + 1) = kept(m)
  <2>1. \A o \in Leading(allowed, cap) : o \in Nat
    BY <1>3 DEF Leading
  <2>2. \A m \in 1..top : m \in Leading(allowed, cap) <=> m \in allowed /\ Cardinality(Below(allowed, m)) < cap
    BY DEF Leading
  <2> HIDE DEF allowed, cap
  <2>3. \A m \in 1..top, o \in Nat : o < m + 1 <=> o < m \/ o = m
    BY <1>2
  <2>. QED BY <1>2, <2>1, <2>2, <2>3
<1>7. \A m \in 1..top : Cardinality(Below(allowed, m)) \in Nat
  <2>1. \A m : Below(allowed, m) \in SUBSET allowed
    BY DEF Below
  <2>. QED BY <1>3, <2>1, FS_Subset, FS_CardinalityType
<1>8. g = body(g)
  <2> SUFFICES ASSUME NEW m \in 0..top PROVE g[m] = body(g)[m]
    OBVIOUS
  <2>1. CASE m = 0
    <3>1. \A o \in Leading(allowed, cap) : o \in Nat /\ o # 0
      BY <1>2, <1>3 DEF Leading
    <3> HIDE DEF allowed, cap
    <3>2. kept(1) = {}
      BY <3>1
    <3>. QED BY <1>2, <2>1, <3>2
  <2>2. CASE m # 0
    <3>1. m \in 1..top /\ m - 1 \in 0..top /\ m - 1 + 1 = m
      BY <1>2, <2>2
    <3>2. g[m] = kept(m + 1) /\ g[m - 1] = kept(m)
      BY <3>1
    <3>3. body(g)[m] = IF m \notin allowed \/ Q!Cardinality(kept(m)) >= cap THEN kept(m) ELSE kept(m) \cup {m}
      <4> HIDE DEF g, kept
      <4>. QED BY <1>4, <2>2, <3>1, <3>2
    <3> HIDE DEF g, kept, body, allowed, cap
    <3>4. ~(Cardinality(Below(allowed, m)) >= cap) <=> Cardinality(Below(allowed, m)) < cap
      BY <1>2, <1>7, <3>1
    <3>5. m \notin allowed \/ Q!Cardinality(kept(m)) >= cap
            <=> ~(m \in allowed /\ Cardinality(Below(allowed, m)) < cap)
      BY <1>5, <3>1, <3>4, Zenon
    <3>6. kept(m + 1) = IF m \notin allowed \/ Q!Cardinality(kept(m)) >= cap
                        THEN kept(m) ELSE kept(m) \cup {m}
      BY <1>6, <3>1, <3>5, Zenon
    <3>. QED BY <3>2, <3>3, <3>6, Zenon
  <2>. QED BY <2>1, <2>2
<1>9. pass = body(pass)
  <2> HIDE DEF g, body
  <2>. QED BY <1>8
<1>10. \A m \in 0..top : pass[m] = g[m]
  <2> DEFINE wrong == {m \in 0..top : pass[m] # g[m]}
  <2> SUFFICES ASSUME wrong # {} PROVE FALSE
    OBVIOUS
  <2>1. wrong \subseteq Nat
    BY <1>2
  <2>2. PICK m \in wrong : \A n \in wrong : m <= n
    <3> HIDE DEF wrong
    <3>. QED BY <2>1, LeastIs
  <2>3. m \in 0..top /\ pass[m] = body(pass)[m] /\ g[m] = body(g)[m]
    <3> HIDE DEF pass, g, body
    <3>. QED BY <1>8, <1>9
  <2> HIDE DEF pass, g
  <2>4. m # 0
    BY <2>3, <2>2, <1>2
  <2>5. m - 1 \in 0..top /\ m - 1 \notin wrong
    BY <2>2, <2>3, <2>4, <1>2
  <2>6. pass[m - 1] = g[m - 1]
    BY <2>5
  <2>. QED BY <2>2, <2>3, <2>6
<1>11. pass[top] = Leading(allowed, cap)
  <2>1. pass[top] = kept(top + 1)
    <3> HIDE DEF pass, kept
    <3>. QED BY <1>2, <1>10
  <2>2. \A o \in Leading(allowed, cap) : o \in 1..top
    BY <1>3 DEF Leading
  <2> HIDE DEF pass, allowed, cap
  <2>3. kept(top + 1) = Leading(allowed, cap)
    BY <1>2, <2>2
  <2>. QED BY <2>1, <2>3
<1>12. CASE rule.open
  BY <1>1, <1>11, <1>12, Zenon
<1>13. CASE ~rule.open
  <2>1. Leading({}, cap) = {}
    BY DEF Leading
  <2>. QED BY <1>1, <1>13, <2>1
<1>. QED BY <1>12, <1>13

\* A rule generates the start, in library order, of what it allows.
THEOREM GeneratesInOrder == Spec => []Q!GenerateKeepsFirst
<1>0. ProgramAssumption
  BY ServicesAssumption
<1>. USE <1>0
<1>1. ProgramInv => Q!GenerateKeepsFirst
  <2> SUFFICES ASSUME ProgramInv, NEW r \in Q!Has(rules), NEW recent \in SUBSET Media
               PROVE  LET rule == rules[r]
                          allowed == {m \in library : rule.open /\ Q!MatchesTags(rule, m) /\ ~Q!TooLong(rule, m)
                                                      /\ ~Q!Repeats(rule, m, recent)}
                      IN Q!Generate(rule, library, recent) =
                           {m \in allowed : Q!Cardinality({o \in allowed : o < m}) < Q!Cap(rule)}
    BY DEF Q!GenerateKeepsFirst
  <2> DEFINE rule == rules[r]
             allowed == {m \in library : rule.open /\ Q!MatchesTags(rule, m) /\ ~Q!TooLong(rule, m)
                                         /\ ~Q!Repeats(rule, m, recent)}
  <2>1. library \in SUBSET Media /\ rule \in Q!Rule
    BY DEF ProgramInv, ProgramTypes, Q!Has, Q!Opt
  <2>2. Q!Cap(rule) \in Nat
    BY <2>1, Counts DEF Q!Cap, Q!Rule, ProgramAssumption, Numbered
  <2> HIDE DEF rule
  <2>3. Q!Generate(rule, library, recent) = Leading(allowed, Q!Cap(rule))
    BY <2>1, <2>2, GeneratesFirst
  <2> HIDE DEF allowed
  <2>4. \A m : Q!Cardinality({o \in allowed : o < m}) = Cardinality({o \in allowed : o < m})
    BY Counts
  <2>5. Leading(allowed, Q!Cap(rule)) = {m \in allowed : Q!Cardinality({o \in allowed : o < m}) < Q!Cap(rule)}
    BY <2>4 DEF Leading, Below
  <2>. QED BY <2>3, <2>5 DEF rule, allowed
<1>2. ProgramsInv => ProgramInv
  BY DEF ProgramsInv
<1>. QED BY <1>1, <1>2, ProgramHolds, PTL

-----------------------------------------------------------------------------
(* ResourceProvider *)

ResourceTypes ==
  /\ mode \in {"list", "loop", "queue", "random"}
  /\ list \in Seq(Resources) /\ list # <<>>
  /\ \A i, j \in DOMAIN list : list[i] = list[j] => i = j
  /\ cursor \in Nat \ {0} /\ history \subseteq Resources
  /\ core \in Seq(Resources) /\ finished \in Seq(Resources)
  /\ started \in BOOLEAN /\ slipped \in BOOLEAN
  /\ seek \in Seeks \cup {None}
  /\ R!Locked => seek.index \in DOMAIN list
  /\ mode = "random" => cursor \in DOMAIN list

\* What the core has been handed and the provider has not yet heard the end of.
Handed == Len(core) + Len(finished)
\* No answer was lost, after which the provider keeps its mutex.
Answered == ~(R!Locked /\ seek.lost)

\* The cursor goes past the list by no more than the core had been handed.
Bounded ==
  /\ Handed <= MaxHanded + 1 /\ cursor <= Len(list) + MaxHanded + 1
  /\ Answered => cursor <= Len(list) \/ cursor + Handed <= Len(list) + MaxHanded + 1
  /\ R!Locked /\ ~seek.lost => Handed <= MaxHanded
Rests == ~started => /\ core = <<>> /\ finished = <<>> /\ ~R!Locked
                     /\ cursor \in DOMAIN list
\* The core has what the cursor is at, or has just finished it; and what is
\* being sought is what the cursor will be at.
Follows == started /\ ~slipped /\ Answered =>
  /\ \/ core = <<>> /\ finished = <<>> /\ mode \notin {"loop", "random"}
     \/ cursor \in DOMAIN list /\ core = <<list[cursor]>> /\ finished = <<>>
     \/ cursor \in DOMAIN list /\ core = <<>> /\ finished = <<list[cursor]>>
  /\ R!Locked => finished = <<>> /\ seek.to = list[seek.index]

ResourceInv == ResourceTypes /\ Bounded /\ Rests /\ Follows

LEMMA OneHanded ==
  ASSUME NEW S, NEW u \in S
  PROVE  /\ <<u>> \in Seq(S) /\ <<>> \in Seq(S) /\ Len(<<u>>) = 1 /\ Len(<<>>) = 0
         /\ Append(<<>>, u) = <<u>> /\ Tail(<<u>>) = <<>> /\ Head(<<u>>) = u
         /\ <<u>> # <<>>
  OBVIOUS

\* A sequence without repetitions has as many elements as it is long.
LEMMA DistinctElements ==
  ASSUME NEW S, NEW s \in Seq(S), \A i, j \in DOMAIN s : s[i] = s[j] => i = j
  PROVE  IsFiniteSet(R!ToSet(s)) /\ Cardinality(R!ToSet(s)) = Len(s)
<1>1. Len(s) \in Nat /\ s \in [1..Len(s) -> S] /\ DOMAIN s = 1..Len(s)
  BY LenProperties
<1>2. s \in Bijection(1..Len(s), R!ToSet(s))
  BY <1>1, Fun_IsBij DEF R!ToSet
<1>3. ExistsBijection(1..Len(s), R!ToSet(s))
  BY <1>2 DEF ExistsBijection
<1>4. Cardinality(R!ToSet(s)) = Len(s)
  BY <1>1, <1>3, FS_CountingElements
<1>5. IsFiniteSet(1..Len(s)) /\ Cardinality(1..Len(s)) = Len(s)
  BY <1>1, FS_Interval
<1>. QED BY <1>3, <1>4, <1>5, FS_Bijection

LEMMA SeqFacts ==
  ASSUME ResourceTypes
  PROVE  /\ DOMAIN list = 1..Len(list) /\ Len(list) \in Nat \ {0}
         /\ Len(core) \in Nat /\ Len(finished) \in Nat /\ Handed \in Nat
         /\ \A k \in DOMAIN list : list[k] \in Resources
         /\ R!ToSet(list) = {list[k] : k \in DOMAIN list} /\ R!ToSet(list) \subseteq Resources
         /\ core # <<>> => Len(core) > 0
         /\ finished # <<>> => Len(finished) > 0
<1>1. /\ DOMAIN list = 1..Len(list) /\ Len(list) \in Nat \ {0}
      /\ Len(core) \in Nat /\ Len(finished) \in Nat
      /\ core # <<>> => Len(core) > 0
      /\ finished # <<>> => Len(finished) > 0
  BY LenProperties, EmptySeq DEF ResourceTypes
<1>2. \A k \in DOMAIN list : list[k] \in Resources
  BY <1>1, ElementOfSeq DEF ResourceTypes
<1>3. R!ToSet(list) = {list[k] : k \in DOMAIN list}
  BY DEF R!ToSet
<1>. QED BY <1>1, <1>2, <1>3 DEF Handed

\* GetResourceByUnique finds the one place of a resource.
LEMMA IndexOf ==
  ASSUME ResourceTypes, NEW u \in R!ToSet(list)
  PROVE  R!Index(u) \in DOMAIN list /\ list[R!Index(u)] = u
  BY SeqFacts DEF R!Index

\* RemoveResourceByUnique: the rest keeps its order.
LEMMA Removed ==
  ASSUME NEW S, NEW s \in Seq(S), NEW i \in DOMAIN s
  PROVE  /\ R!RemoveAt(s, i) \in Seq(S) /\ Len(R!RemoveAt(s, i)) = Len(s) - 1
         /\ \A k \in 1..(Len(s) - 1) : R!RemoveAt(s, i)[k] = IF k < i THEN s[k] ELSE s[k + 1]
<1>1. Len(s) \in Nat /\ DOMAIN s = 1..Len(s) /\ i \in 1..Len(s)
      /\ \A k \in 1..Len(s) : s[k] \in S
  BY LenProperties, ElementOfSeq
<1>2. /\ SubSeq(s, 1, i - 1) \in Seq(S) /\ Len(SubSeq(s, 1, i - 1)) = i - 1
      /\ \A k \in 1..(i - 1) : SubSeq(s, 1, i - 1)[k] = s[k]
  <2>1. \A k \in 1..(i - 1) : s[k] \in S
    BY <1>1
  <2>2. 1 \in Int /\ i - 1 \in Int
    BY <1>1
  <2>. QED BY <1>1, <2>1, <2>2, SubSeqProperties
<1>3. /\ SubSeq(s, i + 1, Len(s)) \in Seq(S) /\ Len(SubSeq(s, i + 1, Len(s))) = Len(s) - i
      /\ \A k \in 1..(Len(s) - i) : SubSeq(s, i + 1, Len(s))[k] = s[k + i]
  <2>1. \A k \in (i + 1)..Len(s) : s[k] \in S
    BY <1>1
  <2>2. i + 1 \in Int /\ Len(s) \in Int
    BY <1>1
  <2>. QED BY <1>1, <2>1, <2>2, SubSeqProperties
<1>4. R!RemoveAt(s, i) = SubSeq(s, 1, i - 1) \o SubSeq(s, i + 1, Len(s))
  BY DEF R!RemoveAt
<1>5. /\ R!RemoveAt(s, i) \in Seq(S)
      /\ Len(R!RemoveAt(s, i)) = (i - 1) + (Len(s) - i)
      /\ \A k \in 1..((i - 1) + (Len(s) - i)) : R!RemoveAt(s, i)[k] =
           IF k <= i - 1 THEN SubSeq(s, 1, i - 1)[k] ELSE SubSeq(s, i + 1, Len(s))[k - (i - 1)]
  <2>1. PICK a \in Seq(S) : a = SubSeq(s, 1, i - 1)
    BY <1>2
  <2>2. PICK b \in Seq(S) : b = SubSeq(s, i + 1, Len(s))
    BY <1>3
  <2>3. Len(a) = i - 1 /\ Len(b) = Len(s) - i /\ R!RemoveAt(s, i) = a \o b
    BY <1>2, <1>3, <1>4, <2>1, <2>2
  <2>4. /\ a \o b \in Seq(S) /\ Len(a \o b) = Len(a) + Len(b)
        /\ \A k \in 1..(Len(a) + Len(b)) :
             (a \o b)[k] = IF k <= Len(a) THEN a[k] ELSE b[k - Len(a)]
    BY ConcatProperties
  <2>5. \A k \in 1..((i - 1) + (Len(s) - i)) :
          (a \o b)[k] = IF k <= i - 1 THEN a[k] ELSE b[k - (i - 1)]
    BY <2>3, <2>4
  <2>. QED BY <2>1, <2>2, <2>3, <2>4, <2>5
<1>6. ASSUME NEW k \in 1..(Len(s) - 1)
      PROVE  R!RemoveAt(s, i)[k] = IF k < i THEN s[k] ELSE s[k + 1]
  <2>1. CASE k < i
    <3>1. k \in 1..((i - 1) + (Len(s) - i)) /\ k <= i - 1 /\ k \in 1..(i - 1)
      BY <1>1, <2>1
    <3>. QED BY <1>2, <1>5, <2>1, <3>1
  <2>2. CASE ~(k < i)
    <3>1. /\ k \in 1..((i - 1) + (Len(s) - i)) /\ ~(k <= i - 1)
          /\ k - (i - 1) \in 1..(Len(s) - i) /\ k - (i - 1) + i = k + 1
      BY <1>1, <2>2
    <3>. QED BY <1>3, <1>5, <2>2, <3>1
  <2>. QED BY <2>1, <2>2
<1>7. Len(R!RemoveAt(s, i)) = Len(s) - 1
  BY <1>1, <1>5
<1>. QED BY <1>5, <1>6, <1>7

LEMMA ResourceInit == ASSUME ResourceAssumption, R!Init PROVE ResourceInv
<1>1. /\ ~R!Locked /\ core = <<>> /\ finished = <<>> /\ list = Configured
      /\ cursor \in DOMAIN Configured /\ seek = None
  BY DEF R!Init, R!Locked
<1>2. Len(Configured) \in Nat /\ DOMAIN Configured = 1..Len(Configured)
  BY LenProperties DEF ResourceAssumption
<1>3. ResourceTypes
  <2>1. mode \in {"list", "loop", "queue", "random"} /\ history \subseteq Resources
        /\ started \in BOOLEAN /\ slipped \in BOOLEAN
    BY DEF R!Init
  <2>2. core \in Seq(Resources) /\ finished \in Seq(Resources)
    BY <1>1, EmptySeq
  <2>3. list \in Seq(Resources) /\ list # <<>>
        /\ \A i, j \in DOMAIN list : list[i] = list[j] => i = j
    BY <1>1 DEF ResourceAssumption
  <2>. QED BY <1>1, <1>2, <2>1, <2>2, <2>3 DEF ResourceTypes
<1>4. Bounded
  BY <1>1, <1>2 DEF Bounded, Handed, ResourceAssumption
<1>5. Rests /\ Follows
  BY <1>1 DEF Rests, Follows, R!Init
<1>. QED BY <1>3, <1>4, <1>5 DEF ResourceInv

LEMMA ResourceAdds == ASSUME ResourceAssumption, ResourceInv, R!ResourceAdd PROVE ResourceInv'
<1>1. PICK u \in Resources \ R!ToSet(list) : list' = Append(list, u)
  BY DEF R!ResourceAdd
<1>2. /\ ~R!Locked /\ seek' = seek /\ cursor' = cursor /\ history' = history
      /\ slipped' = slipped /\ mode' = mode /\ started' = started
      /\ core' = core /\ finished' = finished
  BY DEF R!ResourceAdd, R!CoreUnchanged
<1>3. ~R!Locked'
  BY <1>2 DEF R!Locked
<1>4. ResourceTypes
  BY DEF ResourceInv
<1>5. /\ list' \in Seq(Resources) /\ list' # <<>> /\ Len(list') = Len(list) + 1
      /\ \A i \in 1..Len(list) : list'[i] = list[i]
      /\ list'[Len(list) + 1] = u
  BY <1>1, <1>4, AppendProperties DEF ResourceTypes
<1>6. DOMAIN list' = 1..(Len(list) + 1)
  BY <1>5, LenProperties
<1>7. \A i, j \in DOMAIN list' : list'[i] = list'[j] => i = j
  <2>1. \A i \in 1..Len(list) : list[i] # u
    BY <1>1, <1>4, SeqFacts
  <2>2. \A i \in DOMAIN list' : i \in 1..Len(list) \/ i = Len(list) + 1
    BY <1>4, <1>6, SeqFacts
  <2>. QED BY <1>4, <1>5, <2>1, <2>2, SeqFacts DEF ResourceTypes
<1>8. ResourceTypes'
  <2>1. cursor \in DOMAIN list => cursor \in DOMAIN list'
    BY <1>4, <1>6, SeqFacts
  <2>. QED BY <1>2, <1>3, <1>4, <1>5, <1>7, <2>1 DEF ResourceTypes
<1>9. Bounded'
  <2>1. /\ MaxHanded \in Nat /\ Len(list) \in Nat /\ cursor \in Nat /\ Handed \in Nat
        /\ Handed <= MaxHanded + 1
        /\ cursor <= Len(list) \/ cursor + Handed <= Len(list) + MaxHanded + 1
        /\ cursor <= Len(list) + MaxHanded + 1
    BY <1>2, <1>4, SeqFacts DEF ResourceInv, Bounded, ResourceTypes, ResourceAssumption, Answered
  <2>2. Handed' = Handed
    BY <1>2 DEF Handed
  <2>3. /\ Handed' <= MaxHanded + 1 /\ cursor' <= Len(list') + MaxHanded + 1
        /\ cursor' <= Len(list') \/ cursor' + Handed' <= Len(list') + MaxHanded + 1
    BY <1>2, <1>5, <2>1, <2>2
  <2>. QED BY <1>3, <2>3 DEF Bounded
<1>10. \A k \in DOMAIN list : k \in DOMAIN list' /\ list'[k] = list[k]
  BY <1>4, <1>5, <1>6, SeqFacts
<1>11. Rests'
  BY <1>2, <1>3, <1>10 DEF ResourceInv, Rests
<1>12. Follows'
  BY <1>2, <1>3, <1>10 DEF ResourceInv, Follows, Answered
<1>. QED BY <1>8, <1>9, <1>11, <1>12 DEF ResourceInv

LEMMA ResourceRemoves == ASSUME ResourceAssumption, ResourceInv, R!ResourceRemove PROVE ResourceInv'
<1>1. PICK u \in R!ToSet(list) \ {R!Current} :
        /\ list' = R!RemoveAt(list, R!Index(u))
        /\ cursor' = IF R!Index(u) < cursor THEN cursor - 1 ELSE cursor
  BY DEF R!ResourceRemove
<1>2. /\ ~R!Locked /\ seek' = seek /\ history' = history /\ R!Current # None
      /\ slipped' = slipped /\ mode' = mode /\ started' = started
      /\ core' = core /\ finished' = finished
  BY DEF R!ResourceRemove, R!CoreUnchanged
<1>3. ~R!Locked'
  BY <1>2 DEF R!Locked
<1>4. ResourceTypes
  BY DEF ResourceInv
<1>5. cursor \in DOMAIN list /\ R!Current = list[cursor]
  BY <1>2 DEF R!Current
<1>6. PICK i \in DOMAIN list : i = R!Index(u) /\ list[i] = u
  BY <1>1, <1>4, IndexOf
<1>7. i # cursor /\ cursor' = (IF i < cursor THEN cursor - 1 ELSE cursor)
  BY <1>1, <1>5, <1>6
<1>8. /\ DOMAIN list = 1..Len(list) /\ Len(list) \in Nat \ {0} /\ cursor \in 1..Len(list)
      /\ i \in 1..Len(list)
  BY <1>4, <1>5, SeqFacts
<1>9. /\ list' \in Seq(Resources) /\ Len(list') = Len(list) - 1
      /\ \A k \in 1..(Len(list) - 1) : list'[k] = IF k < i THEN list[k] ELSE list[k + 1]
  BY <1>1, <1>4, <1>6, Removed DEF ResourceTypes
<1>10. DOMAIN list' = 1..(Len(list) - 1)
  BY <1>9, LenProperties
<1>11. cursor' \in DOMAIN list' /\ list'[cursor'] = list[cursor]
  <2>1. CASE i < cursor
    <3>1. /\ cursor' = cursor - 1 /\ cursor' \in 1..(Len(list) - 1) /\ ~(cursor' < i)
          /\ cursor' + 1 = cursor
      BY <1>7, <1>8, <2>1
    <3>. QED BY <1>9, <1>10, <3>1
  <2>2. CASE ~(i < cursor)
    <3>1. cursor' = cursor /\ cursor' \in 1..(Len(list) - 1) /\ cursor' < i
      BY <1>7, <1>8, <2>2
    <3>. QED BY <1>9, <1>10, <3>1
  <2>. QED BY <2>1, <2>2
<1>12. list' # <<>>
  BY <1>8, <1>10, <1>11
<1>13. \A k, l \in DOMAIN list' : list'[k] = list'[l] => k = l
  <2>1. \A k \in DOMAIN list' : k \in Nat /\ k \in DOMAIN list /\ k + 1 \in DOMAIN list
                                /\ list'[k] = IF k < i THEN list[k] ELSE list[k + 1]
    BY <1>8, <1>9, <1>10
  <2>2. TAKE k, l \in DOMAIN list'
  <2>3. HAVE list'[k] = list'[l]
  <2>4. (IF k < i THEN k ELSE k + 1) = (IF l < i THEN l ELSE l + 1)
    BY <1>4, <2>1, <2>3 DEF ResourceTypes
  <2>. QED BY <1>8, <2>1, <2>4
<1>14. ResourceTypes'
  BY <1>2, <1>3, <1>4, <1>8, <1>9, <1>10, <1>11, <1>12, <1>13 DEF ResourceTypes
<1>15. Bounded'
  <2>1. MaxHanded \in Nat /\ Handed <= MaxHanded + 1
    BY DEF ResourceInv, Bounded, ResourceAssumption
  <2>2. Handed' = Handed
    BY <1>2 DEF Handed
  <2>3. cursor' <= Len(list') /\ cursor' <= Len(list') + MaxHanded + 1
    BY <1>8, <1>9, <1>10, <1>11, <2>1
  <2>. QED BY <1>3, <2>1, <2>2, <2>3 DEF Bounded
<1>16. Rests'
  BY <1>2, <1>3, <1>11 DEF ResourceInv, Rests
<1>17. Follows'
  BY <1>2, <1>3, <1>5, <1>11 DEF ResourceInv, Follows, Answered
<1>. QED BY <1>14, <1>15, <1>16, <1>17 DEF ResourceInv

\* The prompt of a seek: what it seeks is in the list or is what is current.
LEMMA SeekSends == ASSUME ResourceAssumption, ResourceInv, R!SeekSend PROVE ResourceInv'
<1>1. PICK u \in R!ToSet(list) \cup {None} :
        /\ u = None => R!Current # None
        /\ seek' = [at |-> "sent", lost |-> FALSE, to |-> IF u = None THEN R!Current ELSE u,
                    index |-> IF u = None THEN 1 ELSE R!Index(u)]
        /\ slipped' = (slipped \/ seek'.to # list[seek'.index] \/ finished # <<>>)
  BY DEF R!SeekSend
<1>2. /\ ~R!Locked /\ started /\ Handed <= MaxHanded
      /\ cursor' = cursor /\ history' = history /\ list' = list
      /\ mode' = mode /\ started' = started /\ core' = core /\ finished' = finished
  BY DEF R!SeekSend, R!CoreUnchanged, Handed
<1>3. ResourceTypes
  BY DEF ResourceInv
<1>4. /\ (IF u = None THEN R!Current ELSE u) \in Resources
      /\ (IF u = None THEN 1 ELSE R!Index(u)) \in DOMAIN list
  <2>1. CASE u = None
    BY <1>1, <1>3, <2>1, SeqFacts DEF R!Current
  <2>2. CASE u # None
    BY <1>1, <1>3, <2>2, SeqFacts, IndexOf
  <2>. QED BY <2>1, <2>2
<1>5. /\ seek' \in Seeks /\ ~seek'.lost /\ seek'.index \in DOMAIN list
  BY <1>1, <1>3, <1>4, SeqFacts DEF Seeks
<1>6. R!Locked' /\ Answered'
  BY <1>5 DEF R!Locked, Answered, ResourceAssumption
<1>7. slipped' \in BOOLEAN
  BY <1>1, <1>3, Zenon DEF ResourceTypes
<1>8. ResourceTypes'
  BY <1>2, <1>3, <1>5, <1>7 DEF ResourceTypes
<1>9. Bounded'
  <2>1. Handed' = Handed /\ (Answered)
    BY <1>2 DEF Handed, Answered
  <2>. QED BY <1>2, <1>6, <2>1 DEF ResourceInv, Bounded
<1>10. Rests'
  BY <1>2 DEF Rests
<1>11. Follows'
  <2>1. ~slipped' => ~slipped /\ seek'.to = list[seek'.index] /\ finished = <<>>
    BY <1>1, <1>3 DEF ResourceTypes
  <2>2. Answered
    BY <1>2 DEF Answered
  <2>. QED BY <1>2, <2>1, <2>2 DEF ResourceInv, Follows
<1>. QED BY <1>8, <1>9, <1>10, <1>11 DEF ResourceInv

LEMMA SeekRegisters == ASSUME ResourceAssumption, ResourceInv, R!SeekRegister PROVE ResourceInv'
<1>1. /\ R!Locked /\ seek' = [seek EXCEPT !.at = "waits"] /\ slipped' = slipped
      /\ cursor' = cursor /\ history' = history /\ list' = list
      /\ mode' = mode /\ started' = started /\ core' = core /\ finished' = finished
  BY DEF R!SeekRegister, R!CoreUnchanged
<1>2. seek \in Seeks
  BY <1>1 DEF ResourceInv, ResourceTypes, R!Locked
<1>3. /\ seek' \in Seeks /\ seek'.lost = seek.lost /\ seek'.index = seek.index
      /\ seek'.to = seek.to
  BY <1>1, <1>2 DEF Seeks
<1>4. R!Locked' /\ (Answered' <=> Answered)
  BY <1>1, <1>3 DEF R!Locked, ResourceAssumption, Answered
<1>5. ResourceTypes'
  BY <1>1, <1>3 DEF ResourceInv, ResourceTypes
<1>6. Bounded'
  <2>1. Handed' = Handed
    BY <1>1 DEF Handed
  <2>. QED BY <1>1, <1>3, <1>4, <2>1 DEF ResourceInv, Bounded
<1>7. Rests'
  BY <1>1 DEF ResourceInv, Rests
<1>8. Follows'
  BY <1>1, <1>3, <1>4 DEF ResourceInv, Follows
<1>. QED BY <1>5, <1>6, <1>7, <1>8 DEF ResourceInv

\* The core answers: what was sought is what it plays, or nothing changes.
LEMMA SeekIsAnswered ==
  ASSUME ResourceAssumption, ResourceInv, NEW ok \in BOOLEAN, R!SeekAnswered(ok)
  PROVE  ResourceInv'
<1>1. /\ R!Locked /\ ~seek.lost /\ seek' = None /\ slipped' = slipped
      /\ core' = (IF ok THEN <<seek.to>> ELSE core)
      /\ cursor' = (IF ok THEN seek.index ELSE cursor)
      /\ history' = history /\ list' = list
      /\ mode' = mode /\ started' = started /\ finished' = finished
  BY DEF R!SeekAnswered
<1>2. ResourceTypes
  BY DEF ResourceInv
<1>3. seek \in Seeks /\ seek.to \in Resources /\ seek.index \in DOMAIN list
  BY <1>1, <1>2 DEF ResourceTypes, R!Locked, Seeks
<1>4. ~R!Locked' /\ Answered' /\ Answered
  BY <1>1 DEF R!Locked, Answered
<1>5. /\ <<seek.to>> \in Seq(Resources) /\ Len(<<seek.to>>) = 1
  BY <1>3, OneHanded
<1>6. core' \in Seq(Resources) /\ cursor' \in Nat \ {0}
  BY <1>1, <1>2, <1>3, <1>5, SeqFacts DEF ResourceTypes
<1>7. ResourceTypes'
  BY <1>1, <1>2, <1>3, <1>4, <1>6 DEF ResourceTypes
<1>8. Bounded'
  <2>1. /\ MaxHanded \in Nat /\ Handed <= MaxHanded /\ Len(core) \in Nat
        /\ Len(finished) \in Nat /\ Len(list) \in Nat /\ cursor \in Nat
        /\ cursor <= Len(list) + MaxHanded + 1
        /\ cursor <= Len(list) \/ cursor + Handed <= Len(list) + MaxHanded + 1
    BY <1>1, <1>2, <1>4, SeqFacts DEF ResourceInv, Bounded, ResourceTypes, ResourceAssumption
  <2>2. CASE ok
    <3>1. Handed' = 1 + Len(finished) /\ cursor' = seek.index /\ list' = list
      BY <1>1, <1>5, <2>2 DEF Handed
    <3>2. Len(finished) <= MaxHanded /\ cursor' <= Len(list) /\ cursor' \in Nat
      BY <1>2, <1>3, <2>1, <3>1, SeqFacts DEF Handed
    <3>. QED BY <1>4, <2>1, <3>1, <3>2 DEF Bounded
  <2>3. CASE ~ok
    <3>1. Handed' = Handed /\ cursor' = cursor /\ list' = list
      BY <1>1, <2>3 DEF Handed
    <3>2. Handed \in Nat
      BY <1>2, SeqFacts
    <3>. QED BY <1>4, <2>1, <3>1, <3>2 DEF Bounded
  <2>. QED BY <2>2, <2>3
<1>9. Rests'
  BY <1>1 DEF ResourceInv, Rests
<1>10. Follows'
  BY <1>1, <1>3, <1>4 DEF ResourceInv, Follows
<1>. QED BY <1>7, <1>8, <1>9, <1>10 DEF ResourceInv

LEMMA SeekIsLost ==
  ASSUME ResourceAssumption, ResourceInv, NEW ok \in BOOLEAN, R!SeekLost(ok)
  PROVE  ResourceInv'
<1>1. /\ R!Locked /\ ~seek.lost /\ slipped' = slipped
      /\ core' = (IF ok THEN <<seek.to>> ELSE core)
      /\ seek' = [seek EXCEPT !.lost = TRUE]
      /\ cursor' = cursor /\ history' = history /\ list' = list
      /\ mode' = mode /\ started' = started /\ finished' = finished
  BY DEF R!SeekLost
<1>2. ResourceTypes
  BY DEF ResourceInv
<1>3. seek \in Seeks /\ seek.to \in Resources
  BY <1>1, <1>2 DEF ResourceTypes, R!Locked, Seeks
<1>4. seek' \in Seeks /\ seek'.lost /\ seek'.index = seek.index
  BY <1>1, <1>3 DEF Seeks
<1>5. R!Locked' /\ ~Answered'
  BY <1>4 DEF R!Locked, ResourceAssumption, Answered
<1>6. <<seek.to>> \in Seq(Resources) /\ Len(<<seek.to>>) = 1
  BY <1>3, OneHanded
<1>7. core' \in Seq(Resources)
  BY <1>1, <1>2, <1>6 DEF ResourceTypes
<1>8. ResourceTypes'
  BY <1>1, <1>2, <1>4, <1>7 DEF ResourceTypes
<1>9. Bounded'
  <2>1. /\ MaxHanded \in Nat /\ Handed <= MaxHanded /\ Len(core) \in Nat
        /\ Len(finished) \in Nat /\ cursor <= Len(list) + MaxHanded + 1
    BY <1>1, <1>2, SeqFacts DEF ResourceInv, Bounded, ResourceAssumption
  <2>2. Len(core') = Len(core) \/ Len(core') = 1
    BY <1>1, <1>6
  <2>3. Handed' <= MaxHanded + 1
    BY <1>1, <2>1, <2>2 DEF Handed
  <2>. QED BY <1>1, <1>4, <1>5, <2>1, <2>3 DEF Bounded
<1>10. Rests'
  BY <1>1 DEF ResourceInv, Rests
<1>11. Follows'
  BY <1>5 DEF Follows
<1>. QED BY <1>8, <1>9, <1>10, <1>11 DEF ResourceInv

\* The core starts with what is current, which a list not yet begun has.
LEMMA ResourceStarts == ASSUME ResourceAssumption, ResourceInv, R!Started PROVE ResourceInv'
<1>1. /\ ~started /\ ~R!Locked /\ started' = TRUE /\ core' = <<R!Current>>
      /\ slipped' = slipped /\ seek' = seek
      /\ cursor' = cursor /\ history' = history /\ list' = list
      /\ mode' = mode /\ finished' = finished
  BY DEF R!Started
<1>2. ResourceTypes
  BY DEF ResourceInv
<1>3. /\ finished = <<>> /\ cursor \in DOMAIN list
  BY <1>1 DEF ResourceInv, Rests
<1>4. R!Current = list[cursor] /\ list[cursor] \in Resources
  BY <1>2, <1>3, SeqFacts DEF R!Current
<1>5. core' = <<list[cursor]>> /\ core' \in Seq(Resources) /\ Len(core') = 1
  BY <1>1, <1>4, OneHanded
<1>6. ~R!Locked' /\ Len(finished) = 0
  BY <1>1, <1>3, EmptySeq DEF R!Locked
<1>7. ResourceTypes'
  BY <1>1, <1>2, <1>5, <1>6 DEF ResourceTypes
<1>8. Bounded'
  <2>1. MaxHanded \in Nat /\ Len(list) \in Nat /\ cursor \in 1..Len(list)
    BY <1>2, <1>3, SeqFacts DEF ResourceAssumption
  <2>2. Handed' = 1
    BY <1>1, <1>5, <1>6 DEF Handed
  <2>. QED BY <1>1, <1>6, <2>1, <2>2 DEF Bounded
<1>9. Rests' /\ Follows'
  BY <1>1, <1>3, <1>5, <1>6 DEF Rests, Follows
<1>. QED BY <1>7, <1>8, <1>9 DEF ResourceInv

\* What the core plays ends.
LEMMA ResourceEnds == ASSUME ResourceAssumption, ResourceInv, R!Ends PROVE ResourceInv'
<1>1. /\ core # <<>> /\ core' = Tail(core) /\ finished' = Append(finished, Head(core))
      /\ slipped' = (slipped \/ R!Locked)
      /\ mode' = mode /\ started' = started /\ list' = list /\ cursor' = cursor
      /\ history' = history /\ seek' = seek
  BY DEF R!Ends
<1>2. ResourceTypes
  BY DEF ResourceInv
<1>3. /\ core' \in Seq(Resources) /\ finished' \in Seq(Resources)
      /\ Len(core') = Len(core) - 1 /\ Len(finished') = Len(finished) + 1
  <2>1. Head(core) \in Resources /\ Tail(core) \in Seq(Resources) /\ Len(Tail(core)) = Len(core) - 1
    BY <1>1, <1>2, HeadTailProperties DEF ResourceTypes
  <2>. QED BY <1>1, <1>2, <2>1, AppendProperties DEF ResourceTypes
<1>4. /\ (R!Locked' <=> R!Locked) /\ (Answered' <=> Answered)
  BY <1>1 DEF R!Locked, Answered
<1>5. slipped' \in BOOLEAN /\ (~slipped' => ~slipped /\ ~R!Locked)
  BY <1>1, <1>2, Zenon DEF ResourceTypes
<1>6. ResourceTypes'
  BY <1>1, <1>2, <1>3, <1>4, <1>5 DEF ResourceTypes
<1>7. Bounded'
  <2>1. Handed' = Handed
    BY <1>2, <1>3, SeqFacts DEF Handed
  <2>. QED BY <1>1, <1>4, <2>1 DEF ResourceInv, Bounded
<1>8. Rests'
  BY <1>1 DEF ResourceInv, Rests
<1>9. Follows'
  <2>1. SUFFICES ASSUME started', ~slipped', Answered' PROVE
          /\ cursor' \in DOMAIN list' /\ core' = <<>> /\ finished' = <<list'[cursor']>>
          /\ ~R!Locked'
    BY DEF Follows
  <2>2. cursor \in DOMAIN list /\ core = <<list[cursor]>> /\ finished = <<>>
    BY <1>1, <1>4, <1>5, <2>1 DEF ResourceInv, Follows
  <2>3. list[cursor] \in Resources
    BY <1>2, <2>2, SeqFacts
  <2>4. core' = <<>> /\ finished' = <<list[cursor]>>
    BY <1>1, <2>2, <2>3, OneHanded
  <2>. QED BY <1>1, <1>4, <1>5, <2>1, <2>2, <2>4
<1>. QED BY <1>6, <1>7, <1>8, <1>9 DEF ResourceInv

\* Where a finish takes the cursor: in the list, except past the end of a list
\* or a queue. A random one is drawn from no more than the list has.
LEMMA Nexts ==
  ASSUME ResourceTypes, NEW k \in R!NextCursors
  PROVE  /\ k \in Nat \ {0} /\ (k \in DOMAIN list \/ k = cursor + 1)
         /\ mode \in {"loop", "random"} => k \in DOMAIN list
<1>1. /\ DOMAIN list = 1..Len(list) /\ Len(list) \in Nat \ {0} /\ cursor \in Nat \ {0}
  BY SeqFacts DEF ResourceTypes
<1>2. CASE mode = "random"
  <2>1. IsFiniteSet(R!ToSet(list)) /\ Cardinality(R!ToSet(list)) = Len(list)
    BY DistinctElements DEF ResourceTypes
  <2>2. R!Unplayed \subseteq R!ToSet(list)
    BY DEF R!Unplayed
  <2>3. Cardinality(R!Unplayed) \in Nat /\ Cardinality(R!Unplayed) <= Len(list)
    BY <2>1, <2>2, FS_Subset, FS_CardinalityType
  <2>4. k \in 1..Cardinality(R!Unplayed)
    BY <1>2, Counts DEF R!NextCursors
  <2>. QED BY <1>1, <2>3, <2>4
<1>3. CASE mode # "random" /\ mode = "loop" /\ cursor >= Len(list)
  BY <1>1, <1>3 DEF R!NextCursors
<1>4. CASE mode # "random" /\ ~(mode = "loop" /\ cursor >= Len(list))
  BY <1>1, <1>4 DEF R!NextCursors
<1>. QED BY <1>2, <1>3, <1>4

\* RESOURCE_FINISH.
LEMMA ResourceFinishes == ASSUME ResourceAssumption, ResourceInv, R!Finish PROVE ResourceInv'
<1>1. /\ finished # <<>> /\ ~R!Locked /\ finished' = Tail(finished)
      /\ mode' = mode /\ started' = started /\ list' = list /\ seek' = seek /\ slipped' = slipped
  BY DEF R!Finish
<1>2. ResourceTypes /\ started
  BY <1>1 DEF ResourceInv, Rests
<1>3. /\ finished' \in Seq(Resources) /\ Len(finished') = Len(finished) - 1
  BY <1>1, <1>2, HeadTailProperties DEF ResourceTypes
<1>4. ~R!Locked' /\ Answered
  BY <1>1 DEF R!Locked, Answered
<1>5. /\ DOMAIN list = 1..Len(list) /\ Len(list) \in Nat \ {0} /\ cursor \in Nat \ {0}
      /\ Len(core) \in Nat /\ Len(finished) \in Nat /\ Len(finished) > 0
      /\ Handed = Len(core) + Len(finished) /\ MaxHanded \in Nat
      /\ Handed <= MaxHanded + 1 /\ cursor <= Len(list) + MaxHanded + 1
      /\ cursor <= Len(list) \/ cursor + Handed <= Len(list) + MaxHanded + 1
  BY <1>1, <1>2, <1>4, SeqFacts DEF ResourceInv, Bounded, ResourceTypes, ResourceAssumption, Handed
\* What was not slipped finished where the cursor is.
<1>6. ~slipped => /\ cursor \in DOMAIN list /\ core = <<>> /\ finished = <<list[cursor]>>
                  /\ finished' = <<>> /\ Head(finished) \in R!ToSet(list)
  <2>1. HAVE ~slipped
  <2>2. cursor \in DOMAIN list /\ core = <<>> /\ finished = <<list[cursor]>>
    BY <1>1, <1>2, <1>4, <2>1 DEF ResourceInv, Follows
  <2>3. list[cursor] \in R!ToSet(list) /\ list[cursor] \in Resources
    BY <1>2, <2>2, SeqFacts
  <2>4. Tail(finished) = <<>> /\ Head(finished) = list[cursor]
    BY <2>2, <2>3, OneHanded
  <2>. QED BY <1>1, <2>2, <2>3, <2>4
<1>7. Rests'
  BY <1>1, <1>2 DEF Rests
<1>8. CASE Head(finished) \notin R!ToSet(list)
  <2>1. cursor' = cursor /\ history' = history /\ core' = core /\ slipped
    BY <1>6, <1>8 DEF R!Finish
  <2>2. ResourceTypes'
    BY <1>1, <1>2, <1>3, <1>4, <2>1 DEF ResourceTypes
  <2>3. Handed' = Handed - 1
    BY <1>3, <1>5, <2>1 DEF Handed
  <2>4. Bounded'
    BY <1>1, <1>4, <1>5, <2>1, <2>3 DEF Bounded
  <2>. QED BY <1>1, <1>7, <2>1, <2>2, <2>4 DEF ResourceInv, Follows
<1>9. CASE Head(finished) \in R!ToSet(list)
  <2>1. PICK k \in R!NextCursors :
          /\ cursor' = k
          /\ core' = IF k \in DOMAIN list THEN Append(core, list[k]) ELSE core
          /\ history' = IF mode # "random" THEN history
                        ELSE (IF R!ToSet(list) \subseteq history THEN {} ELSE history) \cup {list[cursor]}
    BY <1>9 DEF R!Finish
  <2>2. /\ k \in Nat \ {0} /\ (k \in DOMAIN list \/ k = cursor + 1)
        /\ mode \in {"loop", "random"} => k \in DOMAIN list
    BY <1>2, Nexts
  <2>3. /\ core' \in Seq(Resources)
        /\ Len(core') = IF k \in DOMAIN list THEN Len(core) + 1 ELSE Len(core)
    <3>1. CASE k \in DOMAIN list
      <4>1. list[k] \in Resources
        BY <1>2, <3>1, SeqFacts
      <4>. QED BY <1>2, <2>1, <3>1, <4>1, AppendProperties DEF ResourceTypes
    <3>2. CASE k \notin DOMAIN list
      BY <1>2, <2>1, <3>2 DEF ResourceTypes
    <3>. QED BY <3>1, <3>2
  <2>4. history' \subseteq Resources
    <3>1. mode = "random" => list[cursor] \in Resources
      BY <1>2, SeqFacts DEF ResourceTypes
    <3>. QED BY <1>2, <2>1, <3>1 DEF ResourceTypes
  <2>5. ResourceTypes'
    BY <1>1, <1>2, <1>3, <1>4, <2>1, <2>2, <2>3, <2>4 DEF ResourceTypes
  <2>6. Bounded'
    <3>1. CASE k \in DOMAIN list
      <4>1. Handed' = Handed /\ cursor' <= Len(list') /\ cursor' <= Len(list') + MaxHanded + 1
        BY <1>1, <1>3, <1>5, <2>1, <2>3, <3>1 DEF Handed
      <4>. QED BY <1>4, <1>5, <4>1 DEF Bounded
    <3>2. CASE k \notin DOMAIN list
      <4>1. k = cursor + 1 /\ k > Len(list)
        BY <1>5, <2>2, <3>2
      <4>2. Handed' = Handed - 1
        BY <1>3, <1>5, <2>3, <3>2 DEF Handed
      <4>3. /\ Handed' <= MaxHanded + 1 /\ cursor' <= Len(list') + MaxHanded + 1
            /\ cursor' + Handed' <= Len(list') + MaxHanded + 1
        BY <1>1, <1>5, <2>1, <4>1, <4>2
      <4>. QED BY <1>4, <4>3 DEF Bounded
    <3>. QED BY <3>1, <3>2
  <2>7. Follows'
    <3>1. SUFFICES ASSUME ~slipped' PROVE
            \/ core' = <<>> /\ finished' = <<>> /\ mode' \notin {"loop", "random"}
            \/ cursor' \in DOMAIN list' /\ core' = <<list'[cursor']>> /\ finished' = <<>>
      BY <1>4 DEF Follows
    <3>2. core = <<>> /\ finished' = <<>>
      BY <1>1, <1>6, <3>1
    <3>3. CASE k \in DOMAIN list
      <4>1. list[k] \in Resources
        BY <1>2, <3>3, SeqFacts
      <4>2. Append(<<>>, list[k]) = <<list[k]>>
        BY <4>1, OneHanded
      <4>. QED BY <1>1, <2>1, <3>2, <3>3, <4>2
    <3>4. CASE k \notin DOMAIN list
      BY <1>1, <2>1, <2>2, <3>2, <3>4
    <3>. QED BY <3>3, <3>4
  <2>. QED BY <1>7, <2>5, <2>6, <2>7 DEF ResourceInv
<1>. QED BY <1>8, <1>9

LEMMA ResourceStutters == ASSUME ResourceInv, UNCHANGED R!resVars PROVE ResourceInv'
<1>1. /\ mode' = mode /\ list' = list /\ cursor' = cursor /\ history' = history
      /\ seek' = seek /\ started' = started /\ core' = core /\ finished' = finished
      /\ slipped' = slipped
  BY DEF R!resVars
<1>2. (R!Locked' <=> R!Locked) /\ (Answered' <=> Answered) /\ Handed' = Handed
  BY <1>1 DEF R!Locked, Answered, Handed
<1>. QED BY <1>1, <1>2 DEF ResourceInv, ResourceTypes, Bounded, Rests, Follows

LEMMA ResourcesInv == ASSUME ResourceAssumption PROVE R!Spec => []ResourceInv
<1>1. ResourceInv /\ [R!Next]_(R!resVars) => ResourceInv'
  <2>1. SUFFICES ASSUME ResourceInv, [R!Next]_(R!resVars) PROVE ResourceInv'
    OBVIOUS
  <2>2. CASE R!Calls
    BY <2>1, <2>2, ResourceAdds, ResourceRemoves, SeekSends, SeekRegisters, SeekIsAnswered,
       SeekIsLost DEF R!Calls
  <2>3. CASE R!ParseMessage
    BY <2>1, <2>3, ResourceStarts, ResourceFinishes DEF R!ParseMessage
  <2>4. CASE R!Ends
    BY <2>1, <2>4, ResourceEnds
  <2>5. CASE UNCHANGED R!resVars
    BY <2>1, <2>5, ResourceStutters
  <2>. QED BY <2>1, <2>2, <2>3, <2>4, <2>5 DEF R!Next
<1>. QED BY <1>1, ResourceInit, PTL DEF R!Spec

\* Whatever is added, removed, sought and finished, the list names its
\* resources once and is never empty, and the cursor goes past it by no more
\* than the core was handed.
THEOREM ResourceTypeCorrect == R!Spec => []R!TypeOK
<1>0. ResourceAssumption
  BY ServicesAssumption
<1>. USE <1>0
<1>1. ASSUME ResourceInv PROVE R!TypeOK
  <2>1. ResourceTypes
    BY <1>1 DEF ResourceInv
  <2>2. /\ R!ToSet(list) \subseteq Resources /\ R!Cardinality(R!ToSet(list)) = Len(list)
    BY <2>1, SeqFacts, DistinctElements, Counts DEF ResourceTypes
  <2>3. cursor \in 1..(Len(list) + MaxHanded + 2)
    BY <1>1, <2>1, SeqFacts DEF ResourceInv, ResourceTypes, Bounded, ResourceAssumption
  <2>4. R!ToSet(core) \cup R!ToSet(finished) \subseteq Resources
    <3>1. \A s \in Seq(Resources) : \A k \in DOMAIN s : s[k] \in Resources
      BY LenProperties, ElementOfSeq
    <3>. QED BY <2>1, <3>1 DEF R!ToSet, ResourceTypes
  <2>5. seek = None \/ seek.at \in {"sent", "waits"}
    BY <2>1 DEF ResourceTypes, Seeks
  <2>. QED BY <2>1, <2>2, <2>3, <2>4, <2>5 DEF R!TypeOK, ResourceTypes
<1>. QED BY <1>1, ResourcesInv, PTL

\* ResourceAdd, ResourceRemove, a seek by name and the messages of the core, in
\* any order: the cursor is at what the core plays, and a loop or a random
\* programme never stops, unless the cursor slipped or an answer was lost.
THEOREM CursorKept == R!Spec => []CursorFollows
<1>0. ResourceAssumption
  BY ServicesAssumption
<1>. USE <1>0
<1>1. ASSUME ResourceInv PROVE CursorFollows
  <2>1. SUFFICES ASSUME started, ~R!Locked, ~slipped
        PROVE  /\ core # <<>> => core = <<R!Current>> /\ finished = <<>>
               /\ mode \in {"loop", "random"} => core # <<>> \/ finished # <<>>
    BY DEF CursorFollows, R!CursorFollows
  <2>2. \/ core = <<>> /\ finished = <<>> /\ mode \notin {"loop", "random"}
        \/ cursor \in DOMAIN list /\ core = <<list[cursor]>> /\ finished = <<>>
        \/ cursor \in DOMAIN list /\ core = <<>> /\ finished = <<list[cursor]>>
    BY <1>1, <2>1 DEF ResourceInv, Follows, Answered
  <2>3. cursor \in DOMAIN list => list[cursor] \in Resources /\ <<list[cursor]>> # <<>>
    BY <1>1, SeqFacts, OneHanded DEF ResourceInv
  <2>. QED BY <2>2, <2>3 DEF R!Current
<1>. QED BY <1>1, ResourcesInv, PTL

-----------------------------------------------------------------------------
(* What is kept of a collection by time (rollSnapshots, evict) *)

Stamped(S) == /\ IsFiniteSet(S) /\ \A s \in S : s.at \in Nat
              /\ \A s, n \in S : s.at = n.at => s = n
Newer(S, s) == {n \in S : n.at > s.at}

\* A collection that is not empty has an oldest record.
LEMMA OldestOf ==
  ASSUME NEW S, S # {}, \A s \in S : s.at \in Nat
  PROVE  \E s \in S : \A n \in S : s.at <= n.at
<1>. DEFINE ats == {s.at : s \in S}
<1>1. ats \subseteq Nat /\ ats # {}
  OBVIOUS
<1>2. PICK x \in ats : \A y \in ats : ~(<<y, x>> \in OpToRel(<, Nat))
  BY <1>1, NatLessThanWellFounded, WFMin
<1>3. \A y \in ats : x <= y
  <2>1. ASSUME NEW y \in ats, y < x PROVE FALSE
    <3>1. <<y, x>> \in Nat \X Nat /\ <<y, x>>[1] = y /\ <<y, x>>[2] = x
      BY <1>1
    <3>2. <<y, x>>[1] < <<y, x>>[2]
      BY <2>1, <3>1, Zenon
    <3>3. <<y, x>> \in OpToRel(<, Nat)
      BY <3>1, <3>2, Zenon DEF OpToRel
    <3>. QED BY <1>2, <3>3, Zenon
  <2>2. x \in Nat /\ \A y \in ats : y \in Nat
    BY <1>1
  <2>3. \A y \in ats : ~(y < x)
    BY <2>1
  <2>. QED BY <2>2, <2>3
<1>. QED BY <1>3

LEMMA NewerFinite ==
  ASSUME NEW S, IsFiniteSet(S), NEW s
  PROVE  /\ IsFiniteSet(Newer(S, s)) /\ Newer(S, s) \subseteq S
         /\ Cardinality(Newer(S, s)) \in Nat /\ Cardinality(Newer(S, s)) <= Cardinality(S)
<1>1. Newer(S, s) \subseteq S
  BY DEF Newer
<1>. QED BY <1>1, FS_Subset, FS_CardinalityType

\* A part without one of the records is smaller.
LEMMA PartWithout ==
  ASSUME NEW S, IsFiniteSet(S), NEW s \in S, NEW K \in SUBSET (S \ {s})
  PROVE  /\ IsFiniteSet(K) /\ Cardinality(K) \in Nat /\ Cardinality(S) \in Nat
         /\ Cardinality(K) <= Cardinality(S) - 1
         /\ Cardinality(K) = Cardinality(S) - 1 => K = S \ {s}
<1>1. IsFiniteSet(S \ {s}) /\ Cardinality(S \ {s}) = Cardinality(S) - 1
  BY FS_RemoveElement
<1>2. /\ IsFiniteSet(K) /\ Cardinality(K) <= Cardinality(S \ {s})
      /\ Cardinality(K) = Cardinality(S \ {s}) => K = S \ {s}
  BY <1>1, FS_Subset
<1>3. Cardinality(K) \in Nat /\ Cardinality(S) \in Nat
  BY <1>2, FS_CardinalityType
<1>. QED BY <1>1, <1>2, <1>3

\* No more are kept than the cap allows.
LEMMA KeptFew ==
  ASSUME NEW S, Stamped(S), NEW cap \in Nat,
         NEW K, K = {s \in S : Cardinality(Newer(S, s)) < cap}
  PROVE  Stamped(K) /\ Cardinality(K) <= cap
<1>1. IsFiniteSet(K) /\ Cardinality(K) \in Nat /\ K \subseteq S
  BY FS_Subset, FS_CardinalityType DEF Stamped
<1>2. Stamped(K)
  BY <1>1 DEF Stamped
<1>3. Cardinality(K) <= cap
  <2>1. SUFFICES ASSUME K # {} PROVE Cardinality(K) <= cap
    BY FS_EmptySet
  <2>2. PICK s \in K : \A n \in K : s.at <= n.at
    BY <1>2, <2>1, OldestOf DEF Stamped
  <2>3. \A n \in K \ {s} : n.at > s.at
    BY <1>2, <2>2 DEF Stamped
  <2>4. K \ {s} \subseteq Newer(S, s)
    BY <1>1, <2>3 DEF Newer
  <2>5. Cardinality(K \ {s}) = Cardinality(K) - 1
    BY <1>1, FS_RemoveElement
  <2>6. Cardinality(K \ {s}) <= Cardinality(Newer(S, s))
    BY <2>4, NewerFinite, FS_Subset DEF Stamped
  <2>7. Cardinality(Newer(S, s)) < cap /\ Cardinality(Newer(S, s)) \in Nat
    BY <2>2, NewerFinite DEF Stamped
  <2>. QED BY <1>1, <2>5, <2>6, <2>7
<1>. QED BY <1>2, <1>3

\* What is dropped is older than all that is kept.
LEMMA DroppedOlder ==
  ASSUME NEW S, Stamped(S), NEW cap \in Nat, NEW s \in S, NEW n \in S,
         ~(Cardinality(Newer(S, s)) < cap), Cardinality(Newer(S, n)) < cap
  PROVE  n.at > s.at
<1>1. SUFFICES ASSUME n.at <= s.at PROVE FALSE
  BY DEF Stamped
<1>2. Newer(S, s) \subseteq Newer(S, n)
  BY <1>1 DEF Newer, Stamped
<1>3. Cardinality(Newer(S, s)) <= Cardinality(Newer(S, n))
  BY <1>2, NewerFinite, FS_Subset DEF Stamped
<1>. QED BY <1>3, NewerFinite DEF Stamped

-----------------------------------------------------------------------------
(* ConfigSnapshots *)

Versions ==
  {C!Idle} \cup {C!Captures(s) : s \in C!Snapshot} \cup {C!Clones(s) : s \in C!Snapshot}
  \cup [at : {"carried"}, snap : C!Snapshot, snaps : SUBSET C!Snapshot,
        tmpls : [ConfigTemplateIds -> C!Template \cup {C!NoOne}], alone : BOOLEAN]

\* The history as it is, and as a restore has read it and will write it.
Histories == {snapshots} \cup {version[c].snaps : c \in {d \in Admins : version[d].at = "carried"}}

\* A history is of different times, and within the cap. What Create has captured
\* is in none of them, and of a time of its own.
SnapshotsStamped ==
  /\ \A h \in Histories : /\ Stamped(h) /\ Cardinality(h) <= MaxSnapshots
                          /\ \A s \in h : s.at <= createdAt
  /\ \A c \in Admins : version[c].at = "captured" =>
       /\ version[c].snap.at <= createdAt
       /\ \A h \in Histories : \A s \in h : s.at # version[c].snap.at
       /\ \A d \in Admins : version[d].at = "captured" /\ version[d].snap.at = version[c].snap.at => c = d
\* A restore that no update came between writes what it finds.
CarryCurrent == \A c \in Admins : version[c].at = "carried" /\ version[c].alone =>
  version[c].snaps = snapshots /\ version[c].tmpls = configTemplates

SnapshotTypes ==
  /\ business \in Contents
  /\ configTemplates \in [ConfigTemplateIds -> C!Template \cup {C!NoOne}]
  /\ snapshots \subseteq C!Snapshot /\ createdAt \in 0..MaxCreates
  /\ version \in [Admins -> Versions]
SnapshotInv == SnapshotTypes /\ SnapshotsStamped /\ CarryCurrent

LEMMA VersionShape ==
  ASSUME NEW v \in Versions
  PROVE  /\ v = C!Idle \/ v.at \in {"captured", "cloned", "carried"}
         /\ v = C!Idle => v.at = "idle"
         /\ v.at \in {"captured", "cloned", "carried"} => v.snap \in C!Snapshot /\ v # C!Idle
         /\ v.at = "carried" =>
              /\ v \in [at : {"carried"}, snap : C!Snapshot, snaps : SUBSET C!Snapshot,
                        tmpls : [ConfigTemplateIds -> C!Template \cup {C!NoOne}], alone : BOOLEAN]
              /\ v.snaps \subseteq C!Snapshot /\ v.alone \in BOOLEAN
              /\ v.tmpls \in [ConfigTemplateIds -> C!Template \cup {C!NoOne}]
  BY DEF Versions, C!Idle, C!Captures, C!Clones

LEMMA VersionKinds ==
  /\ C!Idle \in Versions /\ C!Idle.at = "idle"
  /\ \A s \in C!Snapshot : /\ C!Captures(s) \in Versions /\ C!Captures(s).at = "captured"
                           /\ C!Captures(s).snap = s
                           /\ C!Clones(s) \in Versions /\ C!Clones(s).at = "cloned"
                           /\ C!Clones(s).snap = s
  BY DEF Versions, C!Idle, C!Captures, C!Clones

LEMMA Disturbs ==
  ASSUME NEW v \in [Admins -> Versions], NEW c \in Admins
  PROVE  /\ C!Disturbed(v)[c] \in Versions
         /\ v[c].at # "carried" => C!Disturbed(v)[c] = v[c]
         /\ v[c].at = "carried" => /\ C!Disturbed(v)[c].at = "carried" /\ ~C!Disturbed(v)[c].alone
                                   /\ C!Disturbed(v)[c].snaps = v[c].snaps
<1>1. C!Disturbed(v)[c] = IF v[c].at = "carried" THEN [v[c] EXCEPT !.alone = FALSE] ELSE v[c]
  BY DEF C!Disturbed
<1>2. CASE v[c].at = "carried"
  <2>1. v[c] \in [at : {"carried"}, snap : C!Snapshot, snaps : SUBSET C!Snapshot,
                  tmpls : [ConfigTemplateIds -> C!Template \cup {C!NoOne}], alone : BOOLEAN]
    BY <1>2, VersionShape
  <2>2. /\ [v[c] EXCEPT !.alone = FALSE] \in
             [at : {"carried"}, snap : C!Snapshot, snaps : SUBSET C!Snapshot,
              tmpls : [ConfigTemplateIds -> C!Template \cup {C!NoOne}], alone : BOOLEAN]
        /\ ~[v[c] EXCEPT !.alone = FALSE].alone
        /\ [v[c] EXCEPT !.alone = FALSE].snaps = v[c].snaps
    BY <2>1
  <2>. QED BY <1>1, <1>2, <2>1, <2>2 DEF Versions
<1>3. CASE v[c].at # "carried"
  BY <1>1, <1>3
<1>. QED BY <1>2, <1>3

LEMMA DisturbsAll ==
  ASSUME NEW v \in [Admins -> Versions]
  PROVE  C!Disturbed(v) \in [Admins -> Versions]
<1>1. \A c \in Admins : C!Disturbed(v)[c] \in Versions
  BY Disturbs
<1>. QED BY <1>1 DEF C!Disturbed

LEMMA SnapshotInit == ASSUME SnapshotAssumption, C!Init PROVE SnapshotInv
<1>1. \A c \in Admins : version[c] = C!Idle /\ version[c].at = "idle"
  BY VersionKinds DEF C!Init
<1>2. snapshots = {} /\ Histories = {{}}
  BY <1>1 DEF C!Init, Histories
<1>3. SnapshotTypes
  BY VersionKinds DEF C!Init, SnapshotTypes, SnapshotAssumption
<1>4. Stamped({}) /\ Cardinality({}) = 0
  BY FS_EmptySet DEF Stamped
<1>5. SnapshotsStamped
  BY <1>1, <1>2, <1>4 DEF SnapshotsStamped, SnapshotAssumption
<1>6. CarryCurrent
  BY <1>1 DEF CarryCurrent
<1>. QED BY <1>3, <1>5, <1>6 DEF SnapshotInv

\* What the steps do to the requests.
LEMMA OneRequest ==
  ASSUME SnapshotTypes, NEW c \in Admins, NEW v \in Versions,
         version' = [version EXCEPT ![c] = v]
  PROVE  /\ version' \in [Admins -> Versions] /\ version'[c] = v
         /\ \A d \in Admins \ {c} : version'[d] = version[d]
  BY DEF SnapshotTypes

LEMMA OneDisturbs ==
  ASSUME SnapshotTypes, NEW c \in Admins, version' = C!Disturbed([version EXCEPT ![c] = C!Idle])
  PROVE  /\ version' \in [Admins -> Versions] /\ version'[c] = C!Idle /\ version'[c].at = "idle"
         /\ \A d \in Admins \ {c} :
              /\ version[d].at # "carried" => version'[d] = version[d]
              /\ version[d].at = "carried" => /\ version'[d].at = "carried" /\ ~version'[d].alone
                                              /\ version'[d].snaps = version[d].snaps
<1>. DEFINE w == [version EXCEPT ![c] = C!Idle]
<1>1. /\ w \in [Admins -> Versions] /\ w[c] = C!Idle
      /\ \A d \in Admins \ {c} : w[d] = version[d]
  BY VersionKinds DEF SnapshotTypes
<1>. HIDE DEF w
<1>2. version' = C!Disturbed(w)
  BY DEF w
<1>3. version' \in [Admins -> Versions]
  BY <1>1, <1>2, DisturbsAll
<1>4. version'[c] = C!Idle /\ version'[c].at = "idle"
  BY <1>1, <1>2, Disturbs, VersionKinds
<1>5. ASSUME NEW d \in Admins \ {c}
      PROVE  /\ version[d].at # "carried" => version'[d] = version[d]
             /\ version[d].at = "carried" => /\ version'[d].at = "carried" /\ ~version'[d].alone
                                             /\ version'[d].snaps = version[d].snaps
  BY <1>1, <1>2, Disturbs
<1>. QED BY <1>3, <1>4, <1>5

LEMMA AllDisturbed ==
  ASSUME SnapshotTypes, version' = C!Disturbed(version)
  PROVE  /\ version' \in [Admins -> Versions]
         /\ \A d \in Admins :
              /\ version[d].at # "carried" => version'[d] = version[d]
              /\ version[d].at = "carried" => /\ version'[d].at = "carried" /\ ~version'[d].alone
                                              /\ version'[d].snaps = version[d].snaps
  BY DisturbsAll, Disturbs DEF SnapshotTypes

\* Every step but a capture and its record leaves no history that was not there,
\* and nothing newly captured.
LEMMA FewerHistories ==
  ASSUME SnapshotAssumption, SnapshotsStamped, createdAt' = createdAt,
         snapshots' \in Histories \/ snapshots' \subseteq snapshots,
         \A c \in Admins : version'[c].at = "carried" => version'[c].snaps \in Histories,
         \A c \in Admins : version'[c].at = "captured" =>
           version[c].at = "captured" /\ version'[c].snap = version[c].snap
  PROVE  SnapshotsStamped'
<1>1. \A h \in Histories' : \E g \in Histories : h \subseteq g
  BY DEF Histories
<1>2. ASSUME NEW g, NEW h, h \subseteq g, Stamped(g), Cardinality(g) <= MaxSnapshots
      PROVE  Stamped(h) /\ Cardinality(h) <= MaxSnapshots
  <2>1. IsFiniteSet(h) /\ Cardinality(h) <= Cardinality(g)
    BY <1>2, FS_Subset DEF Stamped
  <2>2. Cardinality(h) \in Nat /\ Cardinality(g) \in Nat
    BY <1>2, <2>1, FS_CardinalityType DEF Stamped
  <2>. QED BY <1>2, <2>1, <2>2 DEF Stamped, SnapshotAssumption
<1>3. \A h \in Histories' : /\ Stamped(h) /\ Cardinality(h) <= MaxSnapshots
                           /\ \A s \in h : s.at <= createdAt'
  BY <1>1, <1>2 DEF SnapshotsStamped
<1>4. ASSUME NEW c \in Admins, version'[c].at = "captured"
      PROVE  /\ version'[c].snap.at <= createdAt'
             /\ \A h \in Histories' : \A s \in h : s.at # version'[c].snap.at
             /\ \A d \in Admins : version'[d].at = "captured"
                  /\ version'[d].snap.at = version'[c].snap.at => c = d
  BY <1>1, <1>4 DEF SnapshotsStamped
<1>. QED BY <1>3, <1>4 DEF SnapshotsStamped

\* Steps that only move a request on.
LEMMA RequestMoves ==
  ASSUME SnapshotAssumption, SnapshotInv, NEW c \in Admins, NEW v \in Versions,
         version' = [version EXCEPT ![c] = v],
         UNCHANGED <<business, configTemplates, snapshots, createdAt>>,
         v.at # "captured",
         v.at = "carried" => v.snaps = snapshots /\ v.tmpls = configTemplates
  PROVE  SnapshotInv'
<1>1. /\ version' \in [Admins -> Versions] /\ version'[c] = v
      /\ \A d \in Admins \ {c} : version'[d] = version[d]
  BY OneRequest DEF SnapshotInv
<1>2. SnapshotTypes'
  BY <1>1 DEF SnapshotInv, SnapshotTypes
<1>3. \A d \in Admins : version'[d].at = "carried" => version'[d].snaps \in Histories
  BY <1>1 DEF Histories
<1>4. SnapshotsStamped'
  BY <1>1, <1>3, FewerHistories DEF SnapshotInv, Histories
<1>5. CarryCurrent'
  BY <1>1 DEF SnapshotInv, CarryCurrent
<1>. QED BY <1>2, <1>4, <1>5 DEF SnapshotInv

LEMMA SnapshotRequests ==
  ASSUME SnapshotAssumption, SnapshotInv, NEW c \in Admins,
         C!RecordFails(c) \/ C!Find(c) \/ C!Carry(c) \/ C!ReplaceFails(c)
  PROVE  SnapshotInv'
<1>1. version[c] \in Versions /\ snapshots \subseteq C!Snapshot
      /\ configTemplates \in [ConfigTemplateIds -> C!Template \cup {C!NoOne}]
  BY DEF SnapshotInv, SnapshotTypes
<1>2. CASE C!RecordFails(c) \/ C!ReplaceFails(c)
  BY <1>2, VersionKinds, RequestMoves DEF C!RecordFails, C!ReplaceFails
<1>3. CASE C!Find(c)
  <2>1. PICK s \in snapshots : version' = [version EXCEPT ![c] = C!Clones(s)]
    BY <1>3 DEF C!Find
  <2>. QED BY <1>1, <1>3, <2>1, VersionKinds, RequestMoves DEF C!Find
<1>4. CASE C!Carry(c)
  <2>1. version[c].snap \in C!Snapshot
    BY <1>1, <1>4, VersionShape DEF C!Carry
  <2>2. PICK v \in Versions :
          /\ v = C!Carries(version[c].snap, snapshots, configTemplates, TRUE)
          /\ v.at = "carried" /\ v.snaps = snapshots /\ v.tmpls = configTemplates
    <3>1. /\ C!Carries(version[c].snap, snapshots, configTemplates, TRUE) \in Versions
          /\ C!Carries(version[c].snap, snapshots, configTemplates, TRUE).at = "carried"
          /\ C!Carries(version[c].snap, snapshots, configTemplates, TRUE).snaps = snapshots
          /\ C!Carries(version[c].snap, snapshots, configTemplates, TRUE).tmpls = configTemplates
      BY <1>1, <2>1 DEF C!Carries, Versions
    <3>. QED BY <3>1, Zenon
  <2>3. version' = [version EXCEPT ![c] = v]
    BY <1>4, <2>2 DEF C!Carry
  <2>. QED BY <1>4, <2>2, <2>3, RequestMoves DEF C!Carry
<1>. QED BY <1>2, <1>3, <1>4

LEMMA SnapshotCaptures ==
  ASSUME SnapshotAssumption, SnapshotInv, NEW c \in Admins, C!Capture(c)
  PROVE  SnapshotInv'
<1>1. /\ createdAt < MaxCreates /\ createdAt' = createdAt + 1 /\ createdAt \in Nat
      /\ business' = business /\ configTemplates' = configTemplates /\ snapshots' = snapshots
      /\ version[c] = C!Idle /\ MaxCreates \in Nat /\ business \in Contents
      /\ createdAt \in 0..MaxCreates
  BY DEF C!Capture, SnapshotInv, SnapshotTypes, SnapshotAssumption
<1>2. PICK s \in C!Snapshot : s = [at |-> createdAt + 1, data |-> business] /\ s.at = createdAt + 1
  <2>1. /\ [at |-> createdAt + 1, data |-> business] \in C!Snapshot
        /\ [at |-> createdAt + 1, data |-> business].at = createdAt + 1
    BY <1>1 DEF C!Snapshot
  <2>. QED BY <2>1, Zenon
<1>3. /\ C!Captures(s) \in Versions /\ C!Captures(s).at = "captured" /\ C!Captures(s).snap = s
  BY VersionKinds
<1>4. version' = [version EXCEPT ![c] = C!Captures(s)]
  BY <1>2 DEF C!Capture
<1>5. /\ version' \in [Admins -> Versions] /\ version'[c].at = "captured" /\ version'[c].snap = s
      /\ \A d \in Admins \ {c} : version'[d] = version[d]
  BY <1>3, <1>4, OneRequest DEF SnapshotInv
<1>6. SnapshotTypes'
  <2>1. createdAt' \in 0..MaxCreates
    BY <1>1
  <2>. QED BY <1>1, <1>5, <2>1 DEF SnapshotInv, SnapshotTypes
<1>7. Histories' = Histories
  <2>1. version[c].at = "idle"
    BY <1>1, VersionKinds
  <2>2. \A d \in Admins : /\ version'[d].at = "carried" <=> version[d].at = "carried"
                          /\ version[d].at = "carried" => version'[d].snaps = version[d].snaps
    BY <1>5, <2>1
  <2>. QED BY <1>1, <2>2 DEF Histories
<1>8. \A h \in Histories : /\ Stamped(h) /\ Cardinality(h) <= MaxSnapshots
                           /\ \A n \in h : n.at \in Nat /\ n.at <= createdAt
  BY DEF SnapshotInv, SnapshotsStamped, Stamped
<1>9. \A d \in Admins : version[d].at = "captured" =>
        version[d].snap.at <= createdAt /\ version[d].snap.at \in Nat
  <2>1. \A d \in Admins : version[d].at = "captured" => version[d].snap \in C!Snapshot
    BY VersionShape DEF SnapshotInv, SnapshotTypes
  <2>. QED BY <2>1 DEF SnapshotInv, SnapshotsStamped, C!Snapshot
<1>10. SnapshotsStamped'
  <2>1. \A h \in Histories' : /\ Stamped(h) /\ Cardinality(h) <= MaxSnapshots
                             /\ \A n \in h : n.at <= createdAt'
    BY <1>1, <1>7, <1>8
  <2>2. ASSUME NEW d \in Admins, version'[d].at = "captured"
        PROVE  /\ version'[d].snap.at <= createdAt'
               /\ \A h \in Histories' : \A n \in h : n.at # version'[d].snap.at
               /\ \A e \in Admins : version'[e].at = "captured"
                    /\ version'[e].snap.at = version'[d].snap.at => d = e
    <3>1. CASE d = c
      <4>1. version'[d].snap.at = createdAt + 1
        BY <1>2, <1>5, <3>1
      <4>. QED BY <1>1, <1>5, <1>7, <1>8, <1>9, <3>1, <4>1
    <3>2. CASE d # c
      <4>1. version'[d] = version[d] /\ version[d].at = "captured"
        BY <1>5, <2>2, <3>2
      <4>2. version'[c].snap.at = createdAt + 1
        BY <1>2, <1>5
      <4>3. \A e \in Admins : version'[e].at = "captured"
              /\ version'[e].snap.at = version'[d].snap.at => d = e
        BY <1>1, <1>5, <1>9, <4>1, <4>2 DEF SnapshotInv, SnapshotsStamped
      <4>4. version'[d].snap.at <= createdAt'
        BY <1>1, <1>9, <4>1
      <4>. QED BY <1>7, <4>1, <4>3, <4>4 DEF SnapshotInv, SnapshotsStamped
    <3>. QED BY <3>1, <3>2
  <2>. QED BY <2>1, <2>2 DEF SnapshotsStamped
<1>11. CarryCurrent'
  BY <1>1, <1>5 DEF SnapshotInv, CarryCurrent
<1>. QED BY <1>6, <1>10, <1>11 DEF SnapshotInv

LEMMA SnapshotRecords ==
  ASSUME SnapshotAssumption, SnapshotInv, NEW c \in Admins, C!Record(c)
  PROVE  /\ SnapshotInv'
         /\ \/ version[c].snap \in snapshots'
            \/ \A s \in snapshots' : s.at > version[c].snap.at
<1>1. /\ version[c].at = "captured" /\ createdAt' = createdAt
      /\ business' = business /\ configTemplates' = configTemplates
      /\ version' = C!Disturbed([version EXCEPT ![c] = C!Idle])
      /\ snapshots' = C!Roll(snapshots \cup {version[c].snap})
  BY DEF C!Record
<1>2. /\ version' \in [Admins -> Versions] /\ version'[c].at = "idle"
      /\ \A d \in Admins \ {c} :
           /\ version[d].at # "carried" => version'[d] = version[d]
           /\ version[d].at = "carried" => /\ version'[d].at = "carried" /\ ~version'[d].alone
                                           /\ version'[d].snaps = version[d].snaps
  BY <1>1, OneDisturbs DEF SnapshotInv
<1>3. PICK x \in C!Snapshot : x = version[c].snap
  BY <1>1, VersionShape DEF SnapshotInv, SnapshotTypes
<1>4. /\ snapshots \in Histories /\ Stamped(snapshots) /\ Cardinality(snapshots) <= MaxSnapshots
      /\ \A n \in snapshots : n.at <= createdAt /\ n.at # x.at
      /\ x.at <= createdAt /\ x.at \in Nat /\ MaxSnapshots \in Nat
      /\ snapshots \subseteq C!Snapshot
  <2>1. snapshots \in Histories /\ MaxSnapshots \in Nat /\ snapshots \subseteq C!Snapshot
    BY DEF Histories, SnapshotAssumption, SnapshotInv, SnapshotTypes
  <2>2. x.at \in Nat
    BY DEF C!Snapshot
  <2>3. /\ Stamped(snapshots) /\ Cardinality(snapshots) <= MaxSnapshots
        /\ \A n \in snapshots : n.at <= createdAt
    BY <2>1 DEF SnapshotInv, SnapshotsStamped
  <2>4. x.at <= createdAt /\ \A n \in snapshots : n.at # x.at
    BY <1>1, <1>3, <2>1 DEF SnapshotInv, SnapshotsStamped
  <2>. QED BY <2>1, <2>2, <2>3, <2>4
<1>5. Stamped(snapshots \cup {x})
  <2>1. IsFiniteSet(snapshots \cup {x})
    BY <1>4, FS_AddElement DEF Stamped
  <2>. QED BY <1>4, <2>1 DEF Stamped
<1>6. snapshots' = {s \in snapshots \cup {x} : Cardinality(Newer(snapshots \cup {x}, s)) < MaxSnapshots}
  BY <1>1, <1>3, Counts DEF C!Roll, Newer
<1>7. /\ Stamped(snapshots') /\ Cardinality(snapshots') <= MaxSnapshots
      /\ snapshots' \subseteq snapshots \cup {x}
  BY <1>4, <1>5, <1>6, KeptFew
<1>8. SnapshotTypes'
  BY <1>1, <1>2, <1>3, <1>4, <1>7 DEF SnapshotInv, SnapshotTypes
<1>9. \A h \in Histories' : h \in Histories \/ h = snapshots'
  BY <1>2 DEF Histories
<1>10. SnapshotsStamped'
  <2>1. ASSUME NEW h \in Histories'
        PROVE  /\ Stamped(h) /\ Cardinality(h) <= MaxSnapshots
               /\ \A n \in h : n.at <= createdAt'
    BY <1>1, <1>4, <1>7, <1>9 DEF SnapshotInv, SnapshotsStamped
  <2>2. ASSUME NEW d \in Admins, version'[d].at = "captured"
        PROVE  /\ version'[d].snap.at <= createdAt'
               /\ \A h \in Histories' : \A n \in h : n.at # version'[d].snap.at
               /\ \A e \in Admins : version'[e].at = "captured"
                    /\ version'[e].snap.at = version'[d].snap.at => d = e
    <3>1. \A e \in Admins : version'[e].at = "captured" =>
            e # c /\ version'[e] = version[e] /\ version[e].at = "captured"
      BY <1>2
    <3>2. d # c /\ version'[d] = version[d] /\ version[d].at = "captured"
      BY <2>2, <3>1
    <3>3. version[d].snap.at # x.at
      BY <1>1, <1>3, <3>2 DEF SnapshotInv, SnapshotsStamped
    <3>4. \A h \in Histories' : \A n \in h : n.at # version'[d].snap.at
      BY <1>4, <1>7, <1>9, <3>2, <3>3 DEF SnapshotInv, SnapshotsStamped
    <3>. QED BY <1>1, <3>1, <3>2, <3>4 DEF SnapshotInv, SnapshotsStamped
  <2>. QED BY <2>1, <2>2 DEF SnapshotsStamped
<1>11. CarryCurrent'
  BY <1>2 DEF SnapshotInv, CarryCurrent
<1>12. \/ x \in snapshots'
       \/ \A s \in snapshots' : s.at > x.at
  <2>1. SUFFICES ASSUME x \notin snapshots', NEW s \in snapshots' PROVE s.at > x.at
    OBVIOUS
  <2>. QED BY <1>4, <1>5, <1>6, <2>1, DroppedOlder
<1>. QED BY <1>3, <1>8, <1>10, <1>11, <1>12 DEF SnapshotInv

\* Replace writes the histories that a restore has read.
LEMMA SnapshotReplaces ==
  ASSUME SnapshotAssumption, SnapshotInv, NEW c \in Admins, C!Replace(c)
  PROVE  /\ SnapshotInv'
         /\ version[c].alone => snapshots' = snapshots /\ configTemplates' = configTemplates
         /\ business' = version[c].snap.data
<1>1. /\ version[c].at = "carried" /\ createdAt' = createdAt
      /\ business' = version[c].snap.data /\ snapshots' = version[c].snaps
      /\ configTemplates' = version[c].tmpls
      /\ version' = C!Disturbed([version EXCEPT ![c] = C!Idle])
  BY DEF C!Replace
<1>2. /\ version' \in [Admins -> Versions] /\ version'[c].at = "idle"
      /\ \A d \in Admins \ {c} :
           /\ version[d].at # "carried" => version'[d] = version[d]
           /\ version[d].at = "carried" => /\ version'[d].at = "carried" /\ ~version'[d].alone
                                           /\ version'[d].snaps = version[d].snaps
  BY <1>1, OneDisturbs DEF SnapshotInv
<1>3. /\ version[c].snap \in C!Snapshot /\ version[c].snaps \subseteq C!Snapshot
      /\ version[c].tmpls \in [ConfigTemplateIds -> C!Template \cup {C!NoOne}]
  BY <1>1, VersionShape DEF SnapshotInv, SnapshotTypes
<1>4. version[c].snap.data \in Contents
  BY <1>3 DEF C!Snapshot
<1>5. SnapshotTypes'
  BY <1>1, <1>2, <1>3, <1>4 DEF SnapshotInv, SnapshotTypes
<1>6. /\ snapshots' \in Histories
      /\ \A d \in Admins : version'[d].at = "carried" => version'[d].snaps \in Histories
      /\ \A d \in Admins : version'[d].at = "captured" =>
           version[d].at = "captured" /\ version'[d].snap = version[d].snap
  BY <1>1, <1>2 DEF Histories
<1>7. SnapshotsStamped'
  BY <1>1, <1>6, FewerHistories DEF SnapshotInv
<1>8. CarryCurrent'
  BY <1>2 DEF SnapshotInv, CarryCurrent
<1>9. version[c].alone => snapshots' = snapshots /\ configTemplates' = configTemplates
  BY <1>1 DEF SnapshotInv, CarryCurrent
<1>. QED BY <1>1, <1>5, <1>7, <1>8, <1>9 DEF SnapshotInv

\* Every other update of the document makes what a restore has read out of date.
LEMMA OtherUpdates ==
  ASSUME SnapshotAssumption, SnapshotInv, version' = C!Disturbed(version),
         createdAt' = createdAt, snapshots' \subseteq snapshots, business' \in Contents,
         configTemplates' \in [ConfigTemplateIds -> C!Template \cup {C!NoOne}]
  PROVE  /\ SnapshotInv'
         /\ \A c \in Admins : version[c].at = "carried" => version'[c].at = "carried"
<1>1. /\ version' \in [Admins -> Versions]
      /\ \A d \in Admins :
           /\ version[d].at # "carried" => version'[d] = version[d]
           /\ version[d].at = "carried" => /\ version'[d].at = "carried" /\ ~version'[d].alone
                                           /\ version'[d].snaps = version[d].snaps
  BY AllDisturbed DEF SnapshotInv
<1>2. SnapshotTypes'
  BY <1>1 DEF SnapshotInv, SnapshotTypes
<1>3. /\ \A d \in Admins : version'[d].at = "carried" => version'[d].snaps \in Histories
      /\ \A d \in Admins : version'[d].at = "captured" =>
           version[d].at = "captured" /\ version'[d].snap = version[d].snap
  BY <1>1 DEF Histories
<1>4. SnapshotsStamped'
  BY <1>3, FewerHistories DEF SnapshotInv
<1>5. CarryCurrent'
  BY <1>1 DEF SnapshotInv, CarryCurrent
<1>. QED BY <1>1, <1>2, <1>4, <1>5 DEF SnapshotInv

LEMMA SnapshotOthers ==
  ASSUME SnapshotAssumption, SnapshotInv,
         C!DeleteSnapshot \/ C!handleConfigTemplate \/ C!Write
  PROVE  /\ SnapshotInv'
         /\ \A c \in Admins : version[c].at = "carried" => version'[c].at = "carried"
<1>1. /\ business \in Contents
      /\ configTemplates \in [ConfigTemplateIds -> C!Template \cup {C!NoOne}]
  BY DEF SnapshotInv, SnapshotTypes
<1>2. CASE C!DeleteSnapshot
  BY <1>1, <1>2, OtherUpdates DEF C!DeleteSnapshot
<1>3. CASE C!Write
  BY <1>1, <1>3, OtherUpdates DEF C!Write
<1>4. ASSUME NEW t \in ConfigTemplateIds, NEW r \in C!Template \cup {C!NoOne}, C!Store(t, r)
      PROVE  /\ SnapshotInv'
             /\ \A c \in Admins : version[c].at = "carried" => version'[c].at = "carried"
  <2>1. configTemplates' \in [ConfigTemplateIds -> C!Template \cup {C!NoOne}]
    BY <1>1, <1>4 DEF C!Store
  <2>. QED BY <1>1, <1>4, <2>1, OtherUpdates DEF C!Store
<1>5. CASE C!handleConfigTemplate
  <2>1. PICK t \in ConfigTemplateIds :
          C!CreateTemplate(t) \/ C!UpdateTemplate(t) \/ C!SetEnabled(t) \/ C!DeleteTemplate(t)
    BY <1>5 DEF C!handleConfigTemplate
  <2>2. CASE C!CreateTemplate(t) \/ C!UpdateTemplate(t)
    BY <1>4, <2>2 DEF C!CreateTemplate, C!UpdateTemplate
  <2>3. CASE C!DeleteTemplate(t)
    BY <1>4, <2>3 DEF C!DeleteTemplate
  <2>4. CASE C!SetEnabled(t)
    <3>1. PICK e \in BOOLEAN : C!Store(t, [configTemplates[t] EXCEPT !.enabled = e])
      BY <2>4 DEF C!SetEnabled
    <3>2. configTemplates[t] \in C!Template
      BY <1>1, <2>4 DEF C!SetEnabled
    <3>3. [configTemplates[t] EXCEPT !.enabled = e] \in C!Template
      BY <3>2 DEF C!Template
    <3>. QED BY <1>4, <3>1, <3>3
  <2>. QED BY <2>1, <2>2, <2>3, <2>4
<1>. QED BY <1>2, <1>3, <1>5

LEMMA SnapshotStutters == ASSUME SnapshotInv, UNCHANGED C!snapVars PROVE SnapshotInv'
<1>1. /\ business' = business /\ configTemplates' = configTemplates /\ snapshots' = snapshots
      /\ createdAt' = createdAt /\ version' = version
  BY DEF C!snapVars
<1>2. Histories' = Histories
  BY <1>1 DEF Histories
<1>3. SnapshotTypes'
  BY <1>1 DEF SnapshotInv, SnapshotTypes
<1>4. SnapshotsStamped'
  BY <1>1, <1>2 DEF SnapshotInv, SnapshotsStamped
<1>5. CarryCurrent'
  BY <1>1 DEF SnapshotInv, CarryCurrent
<1>. QED BY <1>3, <1>4, <1>5 DEF SnapshotInv

LEMMA SnapshotsInv == ASSUME SnapshotAssumption PROVE C!Spec => []SnapshotInv
<1>1. SnapshotInv /\ [C!Next]_(C!snapVars) => SnapshotInv'
  <2>1. SUFFICES ASSUME SnapshotInv, [C!Next]_(C!snapVars) PROVE SnapshotInv'
    OBVIOUS
  <2>2. CASE C!handleConfigSnapshot
    BY <2>1, <2>2, SnapshotCaptures, SnapshotRecords, SnapshotReplaces, SnapshotRequests,
       SnapshotOthers DEF C!handleConfigSnapshot
  <2>3. CASE C!handleConfigTemplate \/ C!Write
    BY <2>1, <2>3, SnapshotOthers
  <2>4. CASE UNCHANGED C!snapVars
    BY <2>1, <2>4, SnapshotStutters
  <2>. QED BY <2>1, <2>2, <2>3, <2>4 DEF C!Next
<1>. QED BY <1>1, SnapshotInit, PTL DEF C!Spec

\* A request that restores ends by its own last step only.
LEMMA RestoreEnds ==
  ASSUME SnapshotAssumption, SnapshotInv, C!Next, NEW c \in Admins, C!Restores(c)
  PROVE  C!Replace(c) \/ C!ReplaceFails(c)
<1>1. version[c].at = "carried" /\ version'[c] = C!Idle /\ version'[c].at = "idle"
  BY VersionKinds DEF C!Restores
<1>2. ~(C!DeleteSnapshot \/ C!handleConfigTemplate \/ C!Write)
  BY <1>1, SnapshotOthers
<1>3. PICK d \in Admins : \/ C!Capture(d) \/ C!Record(d) \/ C!RecordFails(d)
                          \/ C!Find(d) \/ C!Carry(d) \/ C!Replace(d) \/ C!ReplaceFails(d)
  BY <1>2 DEF C!Next, C!handleConfigSnapshot
<1>4. ASSUME d # c PROVE FALSE
  <2>1. CASE C!Capture(d) \/ C!RecordFails(d) \/ C!Find(d) \/ C!Carry(d) \/ C!ReplaceFails(d)
    <3>1. version'[c] = version[c]
      BY <1>4, <2>1 DEF SnapshotInv, SnapshotTypes, C!Capture, C!RecordFails, C!Find, C!Carry, C!ReplaceFails
    <3>. QED BY <1>1, <3>1
  <2>2. CASE C!Record(d) \/ C!Replace(d)
    <3>1. version' = C!Disturbed([version EXCEPT ![d] = C!Idle])
      BY <2>2 DEF C!Record, C!Replace
    <3>2. version'[c].at = "carried"
      BY <1>1, <1>4, <3>1, OneDisturbs DEF SnapshotInv
    <3>. QED BY <1>1, <3>2
  <2>. QED BY <1>3, <2>1, <2>2
<1>5. ~(C!Capture(c) \/ C!Record(c) \/ C!RecordFails(c) \/ C!Find(c) \/ C!Carry(c))
  BY <1>1, VersionKinds DEF C!Capture, C!Record, C!RecordFails, C!Find, C!Carry
<1>. QED BY <1>3, <1>4, <1>5

LEMMA RestoresKeep == ASSUME SnapshotAssumption PROVE C!Spec => C!RestoreKeepsHistory
<1>1. SnapshotInv /\ [C!Next]_(C!snapVars) =>
        [\A c \in Admins : C!Restores(c) /\ version[c].alone =>
           /\ snapshots' = snapshots /\ configTemplates' = configTemplates
           /\ business' \in {business, version[c].snap.data}]_(C!snapVars)
  <2>1. SUFFICES ASSUME SnapshotInv, C!Next, NEW c \in Admins, C!Restores(c), version[c].alone
                 PROVE  /\ snapshots' = snapshots /\ configTemplates' = configTemplates
                        /\ business' \in {business, version[c].snap.data}
    OBVIOUS
  <2>2. CASE C!Replace(c)
    BY <2>1, <2>2, SnapshotReplaces
  <2>3. CASE C!ReplaceFails(c)
    BY <2>3 DEF C!ReplaceFails
  <2>. QED BY <2>1, <2>2, <2>3, RestoreEnds
<1>. QED BY <1>1, SnapshotsInv, PTL DEF C!Spec, C!RestoreKeepsHistory

LEMMA CreatedStays == ASSUME SnapshotAssumption PROVE C!Spec => C!CreatedOrOutrun
<1>1. SnapshotInv /\ [C!Next]_(C!snapVars) =>
        [\A c \in Admins : C!Record(c) =>
           \/ version[c].snap \in snapshots'
           \/ \A s \in snapshots' : s.at > version[c].snap.at]_(C!snapVars)
  <2>1. SUFFICES ASSUME SnapshotInv, NEW c \in Admins, C!Record(c)
                 PROVE  \/ version[c].snap \in snapshots'
                        \/ \A s \in snapshots' : s.at > version[c].snap.at
    OBVIOUS
  <2>. QED BY <2>1, SnapshotRecords
<1>. QED BY <1>1, SnapshotsInv, PTL DEF C!Spec, C!CreatedOrOutrun

\* Every variable keeps its type, and the history its cap, whatever creates,
\* restores and deletes overlap.
THEOREM SnapshotTypeCorrect == C!Spec => []C!TypeOK
<1>0. SnapshotAssumption
  BY ServicesAssumption
<1>. USE <1>0
<1>1. ASSUME SnapshotInv PROVE C!TypeOK
  <2>1. snapshots \in Histories
    BY DEF Histories
  <2>2. C!Cardinality(snapshots) <= MaxSnapshots
    BY <1>1, <2>1, Counts DEF SnapshotInv, SnapshotsStamped
  <2>. QED BY <1>1, <2>2 DEF C!TypeOK, SnapshotInv, SnapshotTypes, Versions
<1>. QED BY <1>1, SnapshotsInv, PTL

-----------------------------------------------------------------------------
(* Accounts *)

Requests == {U!Idle} \cup [at : {"verified"}, user : UserIds]
            \cup [at : {"opened", "expired"}, session : U!Session]

AccountTypes ==
  /\ users \in [UserIds -> U!User \cup {None}]
  /\ sessions \subseteq U!Session
  /\ loginClock \in 0..MaxLogins /\ horizon \in 0..loginClock
  /\ client \in [Clients -> Requests]
\* Sessions are of different times, and within the cap; one opened and not yet
\* stored is of a time of its own.
SessionsStamped ==
  /\ Stamped(sessions) /\ Cardinality(sessions) <= MaxSessions
  /\ \A s \in sessions : s.at <= loginClock
  /\ \A c \in Clients : client[c].at = "opened" =>
       /\ client[c].session.at <= loginClock
       /\ \A s \in sessions : s.at # client[c].session.at
       /\ \A d \in Clients : client[d].at = "opened"
            /\ client[d].session.at = client[c].session.at => c = d
\* A session that Validate found expired is.
ExpiredIs == \A c \in Clients : client[c].at = "expired" => client[c].session.at <= horizon
UsersNamed == \A u \in U!Has(users) : ~U!Named(users[u].name, u)

AccountInv == AccountTypes /\ SessionsStamped /\ ExpiredIs /\ UsersNamed

LEMMA RequestShape ==
  /\ U!Idle \in Requests /\ U!Idle.at = "idle"
  /\ \A r \in Requests : /\ r.at = "verified" => r.user \in UserIds
                         /\ r.at \in {"opened", "expired"} => r.session \in U!Session
                         /\ r = U!Idle \/ r.at \in {"verified", "opened", "expired"}
  BY DEF Requests, U!Idle

LEMMA AccountInit == ASSUME AccountAssumption, U!Init PROVE AccountInv
<1>1. \A c \in Clients : client[c] = U!Idle /\ client[c].at = "idle"
  BY RequestShape DEF U!Init
<1>2. AccountTypes
  BY RequestShape DEF U!Init, AccountTypes, AccountAssumption
<1>3. Stamped({}) /\ Cardinality({}) = 0
  BY FS_EmptySet DEF Stamped
<1>4. SessionsStamped /\ ExpiredIs
  BY <1>1, <1>3 DEF U!Init, SessionsStamped, ExpiredIs, AccountAssumption
<1>5. UsersNamed
  BY DEF U!Init, UsersNamed, U!Has
<1>. QED BY <1>2, <1>4, <1>5 DEF AccountInv

\* What a request leaves to the others.
LEMMA OneClient ==
  ASSUME AccountTypes, NEW c \in Clients, NEW r \in Requests, U!Step(c, r)
  PROVE  /\ client' \in [Clients -> Requests] /\ client'[c] = r
         /\ \A d \in Clients \ {c} : client'[d] = client[d]
  BY DEF AccountTypes, U!Step

LEMMA SameUsers == ASSUME UsersNamed, users' = users PROVE UsersNamed'
  BY DEF UsersNamed, U!Has, U!Named

\* Fewer sessions, and nothing newly opened or found expired.
LEMMA FewerSessions ==
  ASSUME AccountAssumption, AccountTypes, SessionsStamped, ExpiredIs,
         sessions' \subseteq sessions, loginClock' = loginClock,
         horizon' \in Nat, horizon <= horizon',
         \A d \in Clients : client'[d].at \in {"opened", "expired"} => client'[d] = client[d]
  PROVE  SessionsStamped' /\ ExpiredIs'
<1>1. /\ IsFiniteSet(sessions') /\ Cardinality(sessions') <= Cardinality(sessions)
      /\ Cardinality(sessions') \in Nat /\ Cardinality(sessions) \in Nat
  BY FS_Subset, FS_CardinalityType DEF SessionsStamped, Stamped
<1>2. /\ Stamped(sessions') /\ Cardinality(sessions') <= MaxSessions
      /\ \A s \in sessions' : s.at <= loginClock'
  BY <1>1 DEF SessionsStamped, Stamped, AccountAssumption
<1>3. SessionsStamped'
  BY <1>2 DEF SessionsStamped
<1>4. ASSUME NEW d \in Clients, client'[d].at = "expired" PROVE client'[d].session.at <= horizon'
  <2>1. client[d].session \in U!Session /\ client[d].session.at <= horizon /\ client'[d] = client[d]
    BY <1>4, RequestShape DEF AccountTypes, ExpiredIs
  <2>2. client[d].session.at \in Nat /\ horizon \in Nat
    BY <2>1 DEF U!Session, AccountTypes
  <2>. QED BY <2>1, <2>2
<1>. QED BY <1>3, <1>4 DEF ExpiredIs

LEMMA AccountUsers == ASSUME AccountAssumption, AccountInv, U!handleUser PROVE AccountInv' /\ sessions' = sessions
<1>1. PICK u \in UserIds, r \in U!User \cup {None} :
        /\ U!SetUser(u, r)
        /\ r # None => ~U!Named(r.name, u)
  <2>0. /\ users \in [UserIds -> U!User \cup {None}] /\ U!Has(users) \subseteq UserIds
        /\ \A u \in U!Has(users) : users[u] \in U!User /\ ~U!Named(users[u].name, u)
    BY DEF AccountInv, AccountTypes, UsersNamed, U!Has
  <2>1. CASE U!CreateUser
    BY <2>1 DEF U!CreateUser
  <2>2. CASE U!UpdateUser
    <3>1. PICK u \in U!Has(users), n \in Usernames, e \in BOOLEAN :
            ~U!Named(n, u) /\ U!SetUser(u, [users[u] EXCEPT !.name = n, !.enabled = e])
      BY <2>2 DEF U!UpdateUser
    <3>2. /\ [users[u] EXCEPT !.name = n, !.enabled = e] \in U!User
          /\ [users[u] EXCEPT !.name = n, !.enabled = e].name = n
      BY <2>0, <3>1 DEF U!User
    <3>. QED BY <2>0, <3>1, <3>2
  <2>3. CASE U!SetPassword
    <3>1. PICK u \in U!Has(users), p \in Passwords : U!SetUser(u, [users[u] EXCEPT !.password = p])
      BY <2>3 DEF U!SetPassword
    <3>2. /\ [users[u] EXCEPT !.password = p] \in U!User
          /\ [users[u] EXCEPT !.password = p].name = users[u].name
      BY <2>0, <3>1 DEF U!User
    <3>. QED BY <2>0, <3>1, <3>2
  <2>4. CASE U!SetEnabled
    <3>1. PICK u \in U!Has(users), e \in BOOLEAN : U!SetUser(u, [users[u] EXCEPT !.enabled = e])
      BY <2>4 DEF U!SetEnabled
    <3>2. /\ [users[u] EXCEPT !.enabled = e] \in U!User
          /\ [users[u] EXCEPT !.enabled = e].name = users[u].name
      BY <2>0, <3>1 DEF U!User
    <3>. QED BY <2>0, <3>1, <3>2
  <2>5. CASE U!DeleteUser
    BY <2>0, <2>5 DEF U!DeleteUser
  <2>. QED BY <2>1, <2>2, <2>3, <2>4, <2>5 DEF U!handleUser
<1>2. /\ users' = [users EXCEPT ![u] = r] /\ sessions' = sessions /\ loginClock' = loginClock
      /\ horizon' = horizon /\ client' = client
  BY <1>1 DEF U!SetUser
<1>3. AccountTypes'
  BY <1>2 DEF AccountInv, AccountTypes
<1>4. SessionsStamped' /\ ExpiredIs'
  BY <1>2 DEF AccountInv, SessionsStamped, ExpiredIs
<1>5. UsersNamed'
  <2>1. \A v \in UserIds : users'[v] = IF v = u THEN r ELSE users[v]
    BY <1>2 DEF AccountInv, AccountTypes
  <2>2. DOMAIN users = UserIds /\ DOMAIN users' = UserIds
    BY <1>2 DEF AccountInv, AccountTypes
  <2>. QED BY <1>1, <2>1, <2>2 DEF AccountInv, UsersNamed, U!Has, U!Named
<1>. QED BY <1>2, <1>3, <1>4, <1>5 DEF AccountInv

\* Steps of a request that change no session.
LEMMA ClientMoves ==
  ASSUME AccountAssumption, AccountInv, NEW c \in Clients,
         U!Verify(c) \/ U!StoreFails(c) \/ U!Validate(c)
  PROVE  AccountInv' /\ sessions' = sessions
<1>1. /\ users' = users /\ sessions' = sessions /\ loginClock' = loginClock /\ horizon' = horizon
  BY DEF U!Verify, U!StoreFails, U!Validate
<1>2. PICK r \in Requests :
        /\ U!Step(c, r) /\ r.at # "opened"
        /\ r.at = "expired" => r.session.at <= horizon
  <2>1. CASE U!Verify(c)
    <3>1. PICK u \in U!Has(users) : U!Step(c, [at |-> "verified", user |-> u])
      BY <2>1 DEF U!Verify
    <3>2. u \in UserIds
      BY DEF AccountInv, AccountTypes, U!Has
    <3>3. /\ [at |-> "verified", user |-> u] \in Requests
          /\ [at |-> "verified", user |-> u].at = "verified"
      BY <3>2 DEF Requests
    <3>. QED BY <3>1, <3>3
  <2>2. CASE U!StoreFails(c)
    BY <2>2, RequestShape DEF U!StoreFails
  <2>3. CASE U!Validate(c)
    <3>1. PICK s \in sessions : U!Step(c, [at |-> "expired", session |-> s]) /\ s.at <= horizon
      BY <2>3 DEF U!Validate, U!Expired
    <3>2. s \in U!Session
      BY DEF AccountInv, AccountTypes
    <3>3. /\ [at |-> "expired", session |-> s] \in Requests
          /\ [at |-> "expired", session |-> s].at = "expired"
          /\ [at |-> "expired", session |-> s].session = s
      BY <3>2 DEF Requests
    <3>. QED BY <3>1, <3>3
  <2>. QED BY <2>1, <2>2, <2>3
<1>3. /\ client' \in [Clients -> Requests] /\ client'[c] = r
      /\ \A d \in Clients \ {c} : client'[d] = client[d]
  BY <1>2, OneClient DEF AccountInv
<1>4. AccountTypes'
  BY <1>1, <1>3 DEF AccountInv, AccountTypes
<1>5. SessionsStamped'
  BY <1>1, <1>2, <1>3 DEF AccountInv, SessionsStamped
<1>6. ExpiredIs'
  BY <1>1, <1>2, <1>3 DEF AccountInv, ExpiredIs
<1>7. UsersNamed'
  BY <1>1, SameUsers DEF AccountInv
<1>. QED BY <1>1, <1>4, <1>5, <1>6, <1>7 DEF AccountInv

LEMMA ClientOpens ==
  ASSUME AccountAssumption, AccountInv, NEW c \in Clients, U!Open(c)
  PROVE  AccountInv' /\ sessions' = sessions
<1>1. /\ users' = users /\ sessions' = sessions /\ loginClock' = loginClock + 1 /\ horizon' = horizon
      /\ client[c].at = "verified" /\ loginClock < MaxLogins
      /\ loginClock \in Nat /\ MaxLogins \in Nat /\ horizon \in 0..loginClock
  BY DEF U!Open, AccountInv, AccountTypes, AccountAssumption
<1>2. client[c].user \in UserIds
  BY <1>1, RequestShape DEF AccountInv, AccountTypes
<1>3. PICK s \in U!Session : s = [at |-> loginClock + 1, user |-> client[c].user] /\ s.at = loginClock + 1
  <2>1. /\ [at |-> loginClock + 1, user |-> client[c].user] \in U!Session
        /\ [at |-> loginClock + 1, user |-> client[c].user].at = loginClock + 1
    BY <1>1, <1>2 DEF U!Session
  <2>. QED BY <2>1, Zenon
<1>4. PICK r \in Requests : r = [at |-> "opened", session |-> s] /\ r.at = "opened" /\ r.session = s
  <2>1. /\ [at |-> "opened", session |-> s] \in Requests
        /\ [at |-> "opened", session |-> s].at = "opened"
        /\ [at |-> "opened", session |-> s].session = s
    BY DEF Requests
  <2>. QED BY <2>1, Zenon
<1>5. U!Step(c, r)
  BY <1>3, <1>4 DEF U!Open
<1>6. /\ client' \in [Clients -> Requests] /\ client'[c] = r
      /\ \A d \in Clients \ {c} : client'[d] = client[d]
  BY <1>5, OneClient DEF AccountInv
<1>7. AccountTypes'
  <2>1. loginClock' \in 0..MaxLogins /\ horizon' \in 0..loginClock'
    BY <1>1
  <2>. QED BY <1>1, <1>6, <2>1 DEF AccountInv, AccountTypes
<1>8. \A n \in sessions : n.at \in Nat /\ n.at <= loginClock
  BY DEF AccountInv, SessionsStamped, Stamped
<1>9. \A d \in Clients : client[d].at = "opened" =>
        client[d].session.at \in Nat /\ client[d].session.at <= loginClock
  <2>1. \A d \in Clients : client[d].at = "opened" => client[d].session \in U!Session
    BY RequestShape DEF AccountInv, AccountTypes
  <2>. QED BY <2>1 DEF AccountInv, SessionsStamped, U!Session
<1>10. SessionsStamped'
  <2>1. Stamped(sessions') /\ Cardinality(sessions') <= MaxSessions
        /\ \A n \in sessions' : n.at <= loginClock'
    BY <1>1, <1>8 DEF AccountInv, SessionsStamped
  <2>2. ASSUME NEW d \in Clients, client'[d].at = "opened"
        PROVE  /\ client'[d].session.at <= loginClock'
               /\ \A n \in sessions' : n.at # client'[d].session.at
               /\ \A e \in Clients : client'[e].at = "opened"
                    /\ client'[e].session.at = client'[d].session.at => d = e
    <3>1. CASE d = c
      BY <1>1, <1>3, <1>4, <1>6, <1>8, <1>9, <3>1
    <3>2. CASE d # c
      <4>1. client'[d] = client[d] /\ client[d].at = "opened"
        BY <1>6, <2>2, <3>2
      <4>2. client'[d].session.at <= loginClock' /\ client'[c].session.at = loginClock + 1
        BY <1>1, <1>3, <1>4, <1>6, <1>9, <4>1
      <4>3. \A n \in sessions' : n.at # client'[d].session.at
        BY <1>1, <4>1 DEF AccountInv, SessionsStamped
      <4>4. \A e \in Clients : client'[e].at = "opened"
              /\ client'[e].session.at = client'[d].session.at => d = e
        BY <1>1, <1>6, <1>9, <4>1, <4>2 DEF AccountInv, SessionsStamped
      <4>. QED BY <4>2, <4>3, <4>4
    <3>. QED BY <3>1, <3>2
  <2>. QED BY <2>1, <2>2 DEF SessionsStamped
<1>11. ExpiredIs'
  BY <1>1, <1>4, <1>6 DEF AccountInv, ExpiredIs
<1>12. UsersNamed'
  BY <1>1, SameUsers DEF AccountInv
<1>. QED BY <1>1, <1>7, <1>10, <1>11, <1>12 DEF AccountInv

\* What evict drops is the oldest, when there are too many.
LEMMA ClientStores ==
  ASSUME AccountAssumption, AccountInv, NEW c \in Clients, U!StoreSession(c)
  PROVE  /\ AccountInv'
         /\ \A s \in sessions \ sessions' :
              /\ Cardinality(sessions) = MaxSessions
              /\ \E n \in sessions' \ sessions : \A o \in sessions' : o.at > s.at
         /\ \/ client[c].session \in sessions'
            \/ Cardinality({n \in sessions : n.at > client[c].session.at}) >= MaxSessions
<1>1. /\ client[c].at = "opened" /\ users' = users /\ loginClock' = loginClock /\ horizon' = horizon
      /\ U!Step(c, U!Idle) /\ sessions' = U!Evict(sessions \cup {client[c].session})
  BY DEF U!StoreSession
<1>2. PICK x \in U!Session : x = client[c].session
  BY <1>1, RequestShape DEF AccountInv, AccountTypes
<1>3. /\ client' \in [Clients -> Requests] /\ client'[c].at = "idle"
      /\ \A d \in Clients \ {c} : client'[d] = client[d]
  BY <1>1, OneClient, RequestShape DEF AccountInv
<1>4. /\ Stamped(sessions) /\ Cardinality(sessions) <= MaxSessions
      /\ \A n \in sessions : n.at <= loginClock /\ n.at # x.at
      /\ x.at <= loginClock /\ x.at \in Nat /\ MaxSessions \in Nat
      /\ sessions \subseteq U!Session
  <2>1. x.at \in Nat /\ MaxSessions \in Nat /\ sessions \subseteq U!Session
    BY DEF U!Session, AccountAssumption, AccountInv, AccountTypes
  <2>2. /\ Stamped(sessions) /\ Cardinality(sessions) <= MaxSessions
        /\ \A n \in sessions : n.at <= loginClock
    BY DEF AccountInv, SessionsStamped
  <2>3. x.at <= loginClock /\ \A n \in sessions : n.at # x.at
    BY <1>1, <1>2 DEF AccountInv, SessionsStamped
  <2>. QED BY <2>1, <2>2, <2>3
<1>5. /\ Stamped(sessions \cup {x}) /\ x \notin sessions /\ IsFiniteSet(sessions)
      /\ Cardinality(sessions \cup {x}) = Cardinality(sessions) + 1
  <2>1. x \notin sessions
    BY <1>4
  <2>2. /\ IsFiniteSet(sessions \cup {x})
        /\ Cardinality(sessions \cup {x}) = Cardinality(sessions) + 1
    BY <1>4, <2>1, FS_AddElement DEF Stamped
  <2>. QED BY <1>4, <2>1, <2>2 DEF Stamped
<1>6. sessions' = {s \in sessions \cup {x} : Cardinality(Newer(sessions \cup {x}, s)) < MaxSessions}
  BY <1>1, <1>2, Counts DEF U!Evict, Newer
<1>7. /\ Stamped(sessions') /\ Cardinality(sessions') <= MaxSessions
      /\ sessions' \subseteq sessions \cup {x}
  BY <1>4, <1>5, <1>6, KeptFew
<1>8. AccountTypes'
  BY <1>1, <1>3, <1>4, <1>7 DEF AccountInv, AccountTypes
<1>9. SessionsStamped'
  <2>1. \A d \in Clients : client'[d].at = "opened" =>
          d # c /\ client'[d] = client[d] /\ client[d].at = "opened"
    BY <1>3
  <2>2. ASSUME NEW d \in Clients, client'[d].at = "opened"
        PROVE  /\ client'[d].session.at <= loginClock'
               /\ \A n \in sessions' : n.at # client'[d].session.at
               /\ \A e \in Clients : client'[e].at = "opened"
                    /\ client'[e].session.at = client'[d].session.at => d = e
    <3>1. d # c /\ client'[d] = client[d] /\ client[d].at = "opened"
      BY <2>1, <2>2
    <3>2. client[d].session.at # x.at
      BY <1>1, <1>2, <3>1 DEF AccountInv, SessionsStamped
    <3>3. \A n \in sessions' : n.at # client[d].session.at
      BY <1>7, <3>1, <3>2 DEF AccountInv, SessionsStamped
    <3>. QED BY <1>1, <2>1, <3>1, <3>3 DEF AccountInv, SessionsStamped
  <2>3. \A n \in sessions' : n.at <= loginClock'
    BY <1>1, <1>4, <1>7
  <2>. QED BY <1>7, <2>2, <2>3 DEF SessionsStamped
<1>10. ExpiredIs'
  BY <1>1, <1>3 DEF AccountInv, ExpiredIs
<1>11. UsersNamed'
  BY <1>1, SameUsers DEF AccountInv
<1>12. ASSUME NEW s \in sessions \ sessions'
       PROVE  /\ Cardinality(sessions) = MaxSessions
              /\ \E n \in sessions' \ sessions : \A o \in sessions' : o.at > s.at
  <2>. DEFINE S == sessions \cup {x}
  <2>1. s \in S /\ ~(Cardinality(Newer(S, s)) < MaxSessions)
    BY <1>6, <1>12
  <2>2. Newer(S, s) \subseteq S \ {s}
    BY <1>5 DEF Newer, Stamped
  <2>3. /\ Cardinality(Newer(S, s)) \in Nat /\ Cardinality(S) \in Nat
        /\ Cardinality(Newer(S, s)) <= Cardinality(S) - 1
        /\ Cardinality(Newer(S, s)) = Cardinality(S) - 1 => Newer(S, s) = S \ {s}
    BY <1>5, <2>1, <2>2, PartWithout DEF Stamped
  <2>4. Cardinality(S) = Cardinality(sessions) + 1 /\ Cardinality(sessions) \in Nat
    BY <1>5, FS_CardinalityType
  <2>. HIDE DEF S
  <2>5. Cardinality(sessions) = MaxSessions /\ Newer(S, s) = S \ {s}
    BY <1>4, <2>1, <2>3, <2>4
  <2>. USE DEF S
  <2>6. \A o \in sessions' : o.at > s.at
    BY <1>7, <1>12, <2>5 DEF Newer
  <2>7. x \in sessions' \ sessions
    <3>1. x # s /\ x \in S \ {s} /\ x.at > s.at
      BY <1>5, <1>12, <2>5 DEF Newer
    <3>2. Newer(S, x) \subseteq (S \ {s}) \ {x}
      BY <1>4, <1>5, <3>1 DEF Newer, Stamped
    <3>3. S \ {s} \in SUBSET S /\ IsFiniteSet(S \ {s}) /\ Cardinality(S \ {s}) = Cardinality(S) - 1
      BY <1>5, <2>1, FS_RemoveElement DEF Stamped
    <3>. HIDE DEF S
    <3>4. Cardinality(Newer(S, x)) \in Nat /\ Cardinality(Newer(S, x)) <= Cardinality(S \ {s}) - 1
      <4>. DEFINE Rest == S \ {s}
                  Over == Newer(S, x)
      <4>1. IsFiniteSet(Rest) /\ x \in Rest /\ Over \in SUBSET (Rest \ {x})
        BY <3>1, <3>2, <3>3
      <4>. HIDE DEF Rest, Over
      <4>2. Cardinality(Over) \in Nat /\ Cardinality(Over) <= Cardinality(Rest) - 1
        BY <4>1, PartWithout
      <4>. QED BY <4>2 DEF Rest, Over
    <3>5. Cardinality(Newer(S, x)) < MaxSessions
      BY <1>4, <2>4, <2>5, <3>3, <3>4
    <3>. USE DEF S
    <3>. QED BY <1>5, <1>6, <3>5
  <2>. QED BY <2>5, <2>6, <2>7
<1>13. x \in sessions' \/ Cardinality({n \in sessions : n.at > x.at}) >= MaxSessions
  <2>1. SUFFICES ASSUME x \notin sessions' PROVE Cardinality({n \in sessions : n.at > x.at}) >= MaxSessions
    OBVIOUS
  <2>2. ~(Cardinality(Newer(sessions \cup {x}, x)) < MaxSessions)
    BY <1>6, <2>1
  <2>3. Newer(sessions \cup {x}, x) = {n \in sessions : n.at > x.at}
    BY <1>4 DEF Newer
  <2>4. Cardinality(Newer(sessions \cup {x}, x)) \in Nat
    BY <1>5, NewerFinite DEF Stamped
  <2>5. MaxSessions <= Cardinality(Newer(sessions \cup {x}, x))
    BY <1>4, <2>2, <2>4
  <2>. QED BY <2>3, <2>5
<1>. QED BY <1>2, <1>8, <1>9, <1>10, <1>11, <1>12, <1>13 DEF AccountInv

\* A session that Validate drops, or a purge, has expired.
LEMMA ClientDrops ==
  ASSUME AccountAssumption, AccountInv, NEW c \in Clients, U!Drop(c)
  PROVE  AccountInv' /\ \A s \in sessions \ sessions' : s.at <= horizon
<1>1. /\ client[c].at = "expired" /\ users' = users /\ loginClock' = loginClock /\ horizon' = horizon
      /\ U!Step(c, U!Idle) /\ sessions' = {s \in sessions : s.at # client[c].session.at}
  BY DEF U!Drop
<1>2. /\ client' \in [Clients -> Requests] /\ client'[c].at = "idle"
      /\ \A d \in Clients \ {c} : client'[d] = client[d]
  BY <1>1, OneClient, RequestShape DEF AccountInv
<1>3. AccountTypes'
  BY <1>1, <1>2 DEF AccountInv, AccountTypes
<1>4. SessionsStamped' /\ ExpiredIs'
  <2>1. horizon' \in Nat /\ horizon <= horizon'
    BY <1>1 DEF AccountInv, AccountTypes
  <2>. QED BY <1>1, <1>2, <2>1, FewerSessions DEF AccountInv
<1>5. UsersNamed'
  BY <1>1, SameUsers DEF AccountInv
<1>6. \A s \in sessions \ sessions' : s.at <= horizon
  BY <1>1 DEF AccountInv, ExpiredIs
<1>. QED BY <1>3, <1>4, <1>5, <1>6 DEF AccountInv

LEMMA SessionsGo ==
  ASSUME AccountAssumption, AccountInv,
         U!handleAuthLogout \/ U!PurgeExpired
  PROVE  AccountInv' /\ \A s \in sessions \ sessions' : s.at <= horizon \/ U!Logout(s)
<1>1. /\ users' = users /\ loginClock' = loginClock /\ horizon' = horizon /\ client' = client
      /\ sessions' \subseteq sessions
  BY DEF U!handleAuthLogout, U!PurgeExpired, U!Logout
<1>2. AccountTypes'
  BY <1>1 DEF AccountInv, AccountTypes
<1>3. SessionsStamped' /\ ExpiredIs'
  <2>1. horizon' \in Nat /\ horizon <= horizon'
    BY <1>1 DEF AccountInv, AccountTypes
  <2>. QED BY <1>1, <2>1, FewerSessions DEF AccountInv
<1>4. UsersNamed'
  BY <1>1, SameUsers DEF AccountInv
<1>5. ASSUME NEW s \in sessions \ sessions' PROVE s.at <= horizon \/ U!Logout(s)
  <2>1. CASE U!PurgeExpired
    BY <1>5, <2>1 DEF U!PurgeExpired, U!Expired
  <2>2. CASE U!handleAuthLogout
    <3>1. PICK t \in sessions : U!Logout(t)
      BY <2>2 DEF U!handleAuthLogout
    <3>2. s = t
      BY <1>5, <3>1 DEF U!Logout
    <3>. QED BY <3>1, <3>2
  <2>. QED BY <2>1, <2>2
<1>. QED BY <1>2, <1>3, <1>4, <1>5 DEF AccountInv

LEMMA TimePasses == ASSUME AccountAssumption, AccountInv, U!Time PROVE AccountInv' /\ sessions' = sessions
<1>1. /\ users' = users /\ loginClock' = loginClock /\ horizon' = horizon + 1 /\ client' = client
      /\ sessions' = sessions /\ horizon < loginClock
      /\ horizon \in 0..loginClock /\ loginClock \in 0..MaxLogins
  BY DEF U!Time, AccountInv, AccountTypes
<1>2. horizon' \in 0..loginClock' /\ horizon' \in Nat /\ horizon <= horizon'
  BY <1>1
<1>3. AccountTypes'
  BY <1>1, <1>2 DEF AccountInv, AccountTypes
<1>4. SessionsStamped' /\ ExpiredIs'
  BY <1>1, <1>2, FewerSessions DEF AccountInv
<1>5. UsersNamed'
  BY <1>1, SameUsers DEF AccountInv
<1>. QED BY <1>1, <1>3, <1>4, <1>5 DEF AccountInv

LEMMA AccountStutters == ASSUME AccountInv, UNCHANGED U!accountVars PROVE AccountInv'
<1>1. /\ users' = users /\ loginClock' = loginClock /\ horizon' = horizon /\ client' = client
      /\ sessions' = sessions
  BY DEF U!accountVars
<1>2. AccountTypes'
  BY <1>1 DEF AccountInv, AccountTypes
<1>3. SessionsStamped' /\ ExpiredIs'
  BY <1>1 DEF AccountInv, SessionsStamped, ExpiredIs
<1>4. UsersNamed'
  BY <1>1, SameUsers DEF AccountInv
<1>. QED BY <1>2, <1>3, <1>4 DEF AccountInv

\* What a step does to the sessions.
Ended(s) == \/ s.at <= horizon
            \/ U!Logout(s)
            \/ /\ Cardinality(sessions) = MaxSessions
               /\ \E n \in sessions' \ sessions : \A o \in sessions' : o.at > s.at
LEMMA AccountStep ==
  ASSUME AccountAssumption, AccountInv, U!Next
  PROVE  AccountInv' /\ \A s \in sessions \ sessions' : Ended(s)
<1>1. CASE U!handleUser
  BY <1>1, AccountUsers
<1>2. CASE \E c \in Clients : U!handleAuthLogin(c) \/ U!handleAuthMe(c)
  <2>1. PICK c \in Clients : U!handleAuthLogin(c) \/ U!handleAuthMe(c)
    BY <1>2
  <2>2. CASE U!Verify(c) \/ U!StoreFails(c) \/ U!Validate(c)
    BY <2>2, ClientMoves
  <2>3. CASE U!Open(c)
    BY <2>3, ClientOpens
  <2>4. CASE U!StoreSession(c)
    BY <2>4, ClientStores DEF Ended
  <2>5. CASE U!Drop(c)
    BY <2>5, ClientDrops DEF Ended
  <2>. QED BY <2>1, <2>2, <2>3, <2>4, <2>5 DEF U!handleAuthLogin, U!handleAuthMe
<1>3. CASE U!handleAuthLogout \/ U!PurgeExpired
  BY <1>3, SessionsGo DEF Ended
<1>4. CASE U!Time
  BY <1>4, TimePasses
<1>. QED BY <1>1, <1>2, <1>3, <1>4 DEF U!Next, U!Sessions

\* A session that is opened takes a time that no session has yet.
LEMMA ClientsLast ==
  ASSUME AccountAssumption, AccountInv, [U!Next]_(U!accountVars)
  PROVE  /\ loginClock <= loginClock' /\ loginClock' \in Nat
         /\ \A c \in Clients : client'[c].at = "opened" =>
              client'[c] = client[c] \/ client'[c].session.at = loginClock + 1
<1>0. loginClock \in Nat /\ client \in [Clients -> Requests]
  BY DEF AccountInv, AccountTypes
<1>1. CASE client' = client /\ loginClock' = loginClock
  BY <1>0, <1>1
<1>2. ASSUME NEW c \in Clients, NEW r, U!Step(c, r), r.at # "opened", loginClock' = loginClock
      PROVE  \A d \in Clients : client'[d].at = "opened" => client'[d] = client[d]
  BY <1>0, <1>2 DEF U!Step
<1>3. CASE U!handleUser \/ U!handleAuthLogout \/ U!PurgeExpired \/ U!Time \/ UNCHANGED U!accountVars
  <2>1. U!handleUser => \E u, r : U!SetUser(u, r)
    BY Zenon DEF U!handleUser, U!CreateUser, U!UpdateUser, U!SetPassword, U!SetEnabled, U!DeleteUser
  <2>. QED BY <1>1, <1>3, <2>1 DEF U!SetUser, U!handleAuthLogout, U!Logout, U!PurgeExpired, U!Time,
                                  U!accountVars
<1>4. ASSUME NEW c \in Clients,
             U!Verify(c) \/ U!StoreFails(c) \/ U!Validate(c) \/ U!StoreSession(c) \/ U!Drop(c)
      PROVE  /\ loginClock' = loginClock
             /\ \A d \in Clients : client'[d].at = "opened" => client'[d] = client[d]
  <2>1. loginClock' = loginClock
    BY <1>4 DEF U!Verify, U!StoreFails, U!Validate, U!StoreSession, U!Drop
  <2>2. CASE U!Verify(c)
    <3>1. PICK u : U!Step(c, [at |-> "verified", user |-> u])
      BY <2>2, Zenon DEF U!Verify
    <3>. QED BY <1>2, <2>1, <3>1
  <2>3. CASE U!Validate(c)
    <3>1. PICK s : U!Step(c, [at |-> "expired", session |-> s])
      BY <2>3, Zenon DEF U!Validate
    <3>. QED BY <1>2, <2>1, <3>1
  <2>4. CASE U!StoreFails(c) \/ U!StoreSession(c) \/ U!Drop(c)
    <3>1. U!Step(c, U!Idle) /\ U!Idle.at # "opened"
      BY <2>4, RequestShape DEF U!StoreFails, U!StoreSession, U!Drop
    <3>. QED BY <1>2, <2>1, <3>1
  <2>. QED BY <1>4, <2>1, <2>2, <2>3, <2>4
<1>5. ASSUME NEW c \in Clients, U!Open(c)
      PROVE  /\ loginClock' = loginClock + 1
             /\ \A d \in Clients : client'[d] = client[d] \/ client'[d].session.at = loginClock + 1
  <2>1. PICK r : U!Step(c, r) /\ r.session.at = loginClock + 1 /\ loginClock' = loginClock + 1
    BY <1>5 DEF U!Open
  <2>. QED BY <1>0, <2>1 DEF U!Step
<1>. QED BY <1>0, <1>3, <1>4, <1>5 DEF U!Next, U!Sessions, U!handleAuthLogin, U!handleAuthMe

\* AccountInv of the collections of a document, with the sessions that are to be
\* stored now.
AccountOf(d) ==
  /\ d.users \in [UserIds -> U!User \cup {None}]
  /\ \A u, o \in U!Has(d.users) : u # o => d.users[o].name # d.users[u].name
  /\ d.sessions \subseteq U!Session /\ Stamped(d.sessions) /\ Cardinality(d.sessions) <= MaxSessions
  /\ \A s \in d.sessions : s.at <= loginClock
  /\ \A c \in Clients : client[c].at = "opened" => \A s \in d.sessions : s.at # client[c].session.at

LEMMA AccountLasts ==
  ASSUME AccountAssumption, AccountInv, [U!Next]_(U!accountVars), NEW d, AccountOf(d)
  PROVE  AccountOf(d)'
<1>1. loginClock \in Nat /\ loginClock <= loginClock' /\ loginClock' \in Nat
  BY ClientsLast DEF AccountInv, AccountTypes
<1>2. \A s \in d.sessions : s.at \in Nat /\ s.at <= loginClock
  BY DEF AccountOf, Stamped
<1>3. \A s \in d.sessions : s.at <= loginClock' /\ s.at # loginClock + 1
  BY <1>1, <1>2
<1>4. ASSUME NEW c \in Clients, client'[c].at = "opened", NEW s \in d.sessions
      PROVE  s.at # client'[c].session.at
  <2>1. client'[c] = client[c] \/ client'[c].session.at = loginClock + 1
    BY <1>4, ClientsLast
  <2>2. client[c].at = "opened" => s.at # client[c].session.at
    BY DEF AccountOf
  <2>. QED BY <1>3, <1>4, <2>1, <2>2
<1>5. Stamped(d.sessions)'
  BY DEF AccountOf, Stamped
<1>. QED BY <1>3, <1>4, <1>5 DEF AccountOf, U!Has, Stamped

AccountsInv == AccountInv /\ \A d \in saved : AccountOf(d)

LEMMA AccountCaptured == ASSUME AccountInv PROVE AccountOf(Document)
<1>. DEFINE d == Document
<1>1. d.users = users /\ d.sessions = sessions
  BY Documents
<1>. HIDE DEF d
<1>2. AccountOf(d)
  BY <1>1 DEF AccountInv, AccountTypes, SessionsStamped, UsersNamed, U!Named, AccountOf
<1>. QED BY <1>2 DEF d

LEMMA AccountRestored ==
  ASSUME AccountInv, NEW d, AccountOf(d), Replaced(d), UNCHANGED underWay
  PROVE  AccountInv'
<1>1. /\ users' = d.users /\ sessions' = d.sessions
      /\ loginClock' = loginClock /\ horizon' = horizon /\ client' = client
  BY DEF Replaced, underWay
<1>2. AccountTypes'
  BY <1>1 DEF AccountInv, AccountTypes, AccountOf
<1>3. SessionsStamped'
  BY <1>1 DEF AccountInv, SessionsStamped, Stamped, AccountOf
<1>4. ExpiredIs'
  BY <1>1 DEF AccountInv, ExpiredIs
<1>5. UsersNamed'
  BY <1>1 DEF UsersNamed, U!Named, U!Has, AccountOf
<1>. QED BY <1>2, <1>3, <1>4, <1>5 DEF AccountInv

LEMMA AccountHolds == ASSUME AccountAssumption PROVE Spec => []AccountsInv
<1>1. Init => AccountsInv
  BY AccountInit DEF Init, AccountsInv
<1>2. AccountsInv /\ [Next]_vars => AccountsInv'
  <2> SUFFICES ASSUME AccountsInv, [Next]_vars PROVE AccountsInv'
    OBVIOUS
  <2>0. [U!Next]_(U!accountVars) => AccountInv' /\ \A d \in saved : AccountOf(d)'
    BY AccountStep, AccountStutters, AccountLasts DEF AccountsInv
  <2>1. CASE Moves
    <3>1. [U!Next]_(U!accountVars) /\ saved' = saved
      BY <2>1 DEF Moves, accountVars, U!accountVars
    <3>. QED BY <2>0, <3>1 DEF AccountsInv
  <2>2. CASE ServicesRest /\ saved' = saved \cup {Document}
    <3>1. UNCHANGED U!accountVars
      BY <2>2 DEF ServicesRest, accountVars, U!accountVars
    <3>2. \A d \in saved' : AccountOf(d)
      BY <2>2, AccountCaptured DEF AccountsInv
    <3>3. \A d \in saved' : AccountOf(d)'
      BY <3>1, <3>2, AccountLasts DEF AccountsInv
    <3>. QED BY <2>0, <3>1, <3>3 DEF AccountsInv
  <2>3. ASSUME saved' = saved, NEW d \in saved, Replaced(d), UNCHANGED underWay PROVE AccountsInv'
    <3>1. AccountInv'
      BY <2>3, AccountRestored DEF AccountsInv
    <3>2. loginClock' = loginClock /\ client' = client
      BY <2>3 DEF underWay
    <3>3. \A x \in saved : AccountOf(x) => AccountOf(x)'
      BY <3>2 DEF AccountOf, U!Has, Stamped
    <3>. QED BY <2>3, <3>1, <3>3 DEF AccountsInv
  <2>. QED BY <2>1, <2>2, <2>3, StepIs
<1>. QED BY <1>1, <1>2, PTL DEF Spec

\* Every variable keeps its type, usernames stay apart and sessions within their
\* cap, whatever logins, renames, purges and expiries overlap.
THEOREM AccountTypeCorrect == Spec => [](U!TypeOK /\ U!AccountsConsistent)
<1>0. AccountAssumption
  BY ServicesAssumption
<1>. USE <1>0
<1>1. ASSUME AccountInv PROVE U!TypeOK /\ U!AccountsConsistent
  <2>1. U!AccountsConsistent
    BY <1>1, Counts DEF AccountInv, SessionsStamped, UsersNamed, U!AccountsConsistent
  <2>2. \A c \in Clients :
          \/ client[c] = U!Idle
          \/ client[c].at = "verified" /\ client[c].user \in UserIds
          \/ client[c].at \in {"opened", "expired"} /\ client[c].session \in U!Session
    BY <1>1, RequestShape DEF AccountInv, AccountTypes
  <2>. QED BY <1>1, <2>1, <2>2 DEF AccountInv, AccountTypes, U!TypeOK
<1>2. AccountsInv => AccountInv
  BY DEF AccountsInv
<1>. QED BY <1>1, <1>2, AccountHolds, PTL

\* A login that succeeds is open or outrun; no session ends before its time
\* but by a restore, whatever logins, logouts, purges, expiries and restores
\* overlap: the sessions that a restore brings back are held as the others are.
THEOREM SessionsAreHeld == Spec => SessionsHold
<1>0. AccountAssumption
  BY ServicesAssumption
<1>. USE <1>0
<1>1. AccountsInv /\ [Next]_vars => [Restore \/ U!SessionsKept]_vars
  <2> SUFFICES ASSUME AccountsInv, Moves \/ Capture PROVE U!SessionsKept
    BY DEF Next
  <2>1. [U!Next]_(U!accountVars)
    BY DEF Moves, Capture, accountVars, U!accountVars
  <2>2. \A s \in sessions \ sessions' : Ended(s)
    BY <2>1, AccountStep DEF AccountsInv, U!accountVars
  <2>. QED BY <2>2, Counts DEF Ended, U!SessionsKept
<1>2. AccountsInv =>
        [\A c \in Clients : U!StoreSession(c) =>
           \/ client[c].session \in sessions'
           \/ U!Cardinality({n \in sessions : n.at > client[c].session.at}) >= MaxSessions]_(U!accountVars)
  <2>1. SUFFICES ASSUME AccountInv, NEW c \in Clients, U!StoreSession(c)
                 PROVE  \/ client[c].session \in sessions'
                        \/ U!Cardinality({n \in sessions : n.at > client[c].session.at}) >= MaxSessions
    BY DEF AccountsInv
  <2>. QED BY <2>1, ClientStores, Counts
<1>3. Spec => [][Restore \/ U!SessionsKept]_vars
  BY <1>1, AccountHolds, PTL DEF Spec
<1>4. Spec => U!LoginOpens
  BY <1>2, AccountHolds, PTL DEF U!LoginOpens
<1>. QED BY <1>3, <1>4 DEF SessionsHold

-----------------------------------------------------------------------------
(* The services together *)

\* Whatever requests and restores interleave, in several steps or one, every
\* reference of a playlist, a task, a deployed programme and an instance resolves.
THEOREM ReferencesKept == Spec => []ReferencesResolve
<1>0. LibraryAssumption /\ ProgramAssumption /\ FleetAssumption
  BY ServicesAssumption
<1>. USE <1>0
<1>1. LibrarysInv /\ ProgramsInv /\ FleetsInv => ReferencesResolve
  BY DEF LibrarysInv, ProgramsInv, FleetsInv, LibraryInv, ProgramInv, FleetInv, ReferencesResolve
<1>. QED BY <1>1, LibraryHolds, ProgramHolds, FleetHolds, PTL

\* A restore that nothing came between loses no history, and a snapshot reported
\* as stored is there or outrun; whatever requests, agents and restores
\* interleave, nothing but a restore undoes the outcome of a command or the
\* decision of a review, and pruning the commands drops the oldest.
THEOREM RecordsFinal == Spec => RecordsKept
<1>0. SnapshotAssumption /\ FleetAssumption /\ ProgramAssumption
  BY ServicesAssumption
<1>. USE <1>0
<1>1. FleetsInv /\ ProgramsInv /\ [Next]_vars =>
        [Restore \/ (N!CommandsFinal /\ N!NewestKept /\ Q!DecisionsFinal)]_vars
  <2> SUFFICES ASSUME FleetsInv, ProgramsInv, Moves \/ Capture
               PROVE  N!CommandsFinal /\ N!NewestKept /\ Q!DecisionsFinal
    BY DEF Next
  <2>1. [N!Next]_N!fleetVars /\ [Q!Next]_Q!programVars
    BY DEF Moves, Capture, fleetVars, programVars, N!fleetVars, Q!programVars
  <2>. QED BY <2>1, OutcomesFinal, NewestStays, ReviewsFinal DEF FleetsInv, ProgramsInv
<1>2. Spec => [][Restore \/ (N!CommandsFinal /\ N!NewestKept /\ Q!DecisionsFinal)]_vars
  BY <1>1, FleetHolds, ProgramHolds, PTL DEF Spec
<1>. QED BY <1>2, OthersApart, RestoresKeep, CreatedStays, PTL DEF RecordsKept
===============================================================================
