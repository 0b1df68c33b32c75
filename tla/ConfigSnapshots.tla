--------------------------- MODULE ConfigSnapshots ---------------------------
(***************************************************************************)
(* Configuration snapshots and templates                                   *)
(* (src/management/config_snapshot.go, config_template.go).                *)
(*                                                                         *)
(* The document is cut in three: the business collections, whose content   *)
(* is one value here, the snapshots and the templates.  A call of the      *)
(* store is one step, as AtomicStore promises; Create and Restore of a     *)
(* snapshot make two and three of them.  What a restore does to the other  *)
(* services is in Services.                                                *)
(***************************************************************************)
EXTENDS Naturals, FiniteSets

CONSTANTS Contents,       \* contents of the business collections
          TemplateIds, Names,
          Callers,        \* requests under way
          MaxSnapshots,   \* the cap of the rolling history
          MaxCreates      \* bounds the CreatedAt time stamps
NoOne == [state |-> "none"]

VARIABLES business, templates, snapshots,
          createdAt,      \* the time stamp of the last snapshot made
          version         \* per caller: the request under way

snapVars == <<business, templates, snapshots, createdAt, version>>

Template == [name : Names, enabled : BOOLEAN]
Snapshot == [at : 1..MaxCreates, data : Contents]
Idle == [at |-> "idle"]
Captures(s) == [at |-> "captured", snap |-> s]
Clones(s) == [at |-> "cloned", snap |-> s]
\* What Restore carries over; alone: no update has come since it looked.
Carries(s, ss, ts, alone) ==
  [at |-> "carried", snap |-> s, snaps |-> ss, tmpls |-> ts, alone |-> alone]

TypeOK ==
  /\ business \in Contents
  /\ templates \in [TemplateIds -> Template \cup {NoOne}]
  /\ snapshots \subseteq Snapshot /\ Cardinality(snapshots) <= MaxSnapshots
  /\ createdAt \in 0..MaxCreates
  /\ version \in [Callers -> {Idle} \cup {Captures(s) : s \in Snapshot}
       \cup {Clones(s) : s \in Snapshot}
       \cup [at : {"carried"}, snap : Snapshot, snaps : SUBSET Snapshot,
             tmpls : [TemplateIds -> Template \cup {NoOne}], alone : BOOLEAN]]

Init == /\ business \in Contents
        /\ templates = [t \in TemplateIds |-> NoOne]
        /\ snapshots = {} /\ createdAt = 0
        /\ version = [c \in Callers |-> Idle]

\* Every write of the store makes the carry of a restore out of date.
Disturbed(v) == [c \in Callers |->
  IF v[c].at = "carried" THEN [v[c] EXCEPT !.alone = FALSE] ELSE v[c]]

\* Mutant of Roll.
Roll_Newest(ss) == {s \in ss : Cardinality({n \in ss : n.at < s.at}) < MaxSnapshots}
\* Mutant of Roll.
Roll_None(ss) == ss
\* rollSnapshots: past the cap the oldest go.
Roll(ss) == {s \in ss : Cardinality({n \in ss : n.at > s.at}) < MaxSnapshots}

-----------------------------------------------------------------------------
(* Snapshots *)

\* Create: the payload is a copy of the document without the snapshots and
\* templates, stamped on the way.
Capture(c) == /\ version[c] = Idle /\ createdAt < MaxCreates
              /\ createdAt' = createdAt + 1
              /\ version' = [version EXCEPT ![c] =
                               Captures([at |-> createdAt + 1, data |-> business])]
              /\ UNCHANGED <<business, templates, snapshots>>

Record(c) == /\ version[c].at = "captured"
             /\ snapshots' = Roll(snapshots \cup {version[c].snap})
             /\ version' = Disturbed([version EXCEPT ![c] = Idle])
             /\ UNCHANGED <<business, templates, createdAt>>

\* The write of Create fails: nothing is stored.
RecordFails(c) == /\ version[c].at = "captured"
                  /\ version' = [version EXCEPT ![c] = Idle]
                  /\ UNCHANGED <<business, templates, snapshots, createdAt>>

DeleteSnapshot == \E s \in snapshots :
  /\ snapshots' = snapshots \ {s}
  /\ version' = Disturbed(version)
  /\ UNCHANGED <<business, templates, createdAt>>

\* Restore finds the snapshot and clones its payload (ErrNotFound otherwise),
Find(c) == \E s \in snapshots :
  /\ version[c] = Idle
  /\ version' = [version EXCEPT ![c] = Clones(s)]
  /\ UNCHANGED <<business, templates, snapshots, createdAt>>

\* looks at the live document for what it carries over,
Carry(c) == /\ version[c].at = "cloned"
            /\ version' = [version EXCEPT ![c] =
                             Carries(@.snap, snapshots, templates, TRUE)]
            /\ UNCHANGED <<business, templates, snapshots, createdAt>>

\* Mutant of Replace.
Replace_DropsTemplates(c) ==
  /\ version[c].at = "carried"
  /\ business' = version[c].snap.data
  /\ snapshots' = version[c].snaps
  /\ templates' = [t \in TemplateIds |-> NoOne]
  /\ version' = Disturbed([version EXCEPT ![c] = Idle])
  /\ UNCHANGED createdAt
\* and replaces the whole document.
Replace(c) == /\ version[c].at = "carried"
              /\ business' = version[c].snap.data
              /\ snapshots' = version[c].snaps
              /\ templates' = version[c].tmpls
              /\ version' = Disturbed([version EXCEPT ![c] = Idle])
              /\ UNCHANGED createdAt

ReplaceFails(c) == /\ version[c].at = "carried"
                   /\ version' = [version EXCEPT ![c] = Idle]
                   /\ UNCHANGED <<business, templates, snapshots, createdAt>>

-----------------------------------------------------------------------------
(* Templates, and the other services *)

NameTaken(n, t) == \E o \in TemplateIds \ {t} : templates[o] # NoOne /\ templates[o].name = n
Store(t, r) == /\ templates' = [templates EXCEPT ![t] = r]
               /\ version' = Disturbed(version)
               /\ UNCHANGED <<business, snapshots, createdAt>>

CreateTemplate(t) == \E r \in Template :
  templates[t] = NoOne /\ ~NameTaken(r.name, t) /\ Store(t, r)
UpdateTemplate(t) == \E r \in Template :
  templates[t] # NoOne /\ ~NameTaken(r.name, t) /\ Store(t, r)
SetEnabled(t) == \E e \in BOOLEAN :
  templates[t] # NoOne /\ Store(t, [templates[t] EXCEPT !.enabled = e])
DeleteTemplate(t) == templates[t] # NoOne /\ Store(t, NoOne)

\* Any other service updates its part of the document.
Write == \E v \in Contents :
  /\ business' = v
  /\ version' = Disturbed(version)
  /\ UNCHANGED <<templates, snapshots, createdAt>>

\* The requests of the management API.
handleConfigSnapshot ==
  \/ \E c \in Callers : \/ Capture(c) \/ Record(c) \/ RecordFails(c)
                        \/ Find(c) \/ Carry(c) \/ Replace(c) \/ ReplaceFails(c)
  \/ DeleteSnapshot
handleConfigTemplate == \E t \in TemplateIds :
  CreateTemplate(t) \/ UpdateTemplate(t) \/ SetEnabled(t) \/ DeleteTemplate(t)

Next == handleConfigSnapshot \/ handleConfigTemplate \/ Write

Spec == Init /\ [][Next]_snapVars

-----------------------------------------------------------------------------
(* Properties *)

\* "never erases snapshot history or templates" (config_snapshot.go:171): the
\* last step of a restore leaves both as they are. No run has this: what is
\* saved between the two steps of a restore is lost.
Restores(c) == version[c].at = "carried" /\ version'[c] = Idle
HistoryKept == [][\A c \in Callers :
  Restores(c) => snapshots' = snapshots /\ templates' = templates]_snapVars

\* A restore that no update came between does keep them, and brings back the
\* business collections of its snapshot, whatever happened since it was made.
RestoreKeepsHistory == [][\A c \in Callers :
  Restores(c) /\ version[c].alone =>
     /\ snapshots' = snapshots /\ templates' = templates
     /\ business' \in {business, version[c].snap.data}]_snapVars

\* A snapshot that Create reports as stored is there, or was overtaken by a
\* full history of newer ones between its time stamp and its write.
CreatedOrOutrun == [][\A c \in Callers : Record(c) =>
     \/ version[c].snap \in snapshots'
     \/ \A s \in snapshots' : s.at > version[c].snap.at]_snapVars
=============================================================================
