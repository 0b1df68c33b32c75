------------------------------ MODULE Registries ------------------------------
(***************************************************************************)
(* Output groups and health policies (src/management/output_group.go,      *)
(* health_policy.go) and the requests of the management API on them.       *)
(*                                                                         *)
(* An update of the store is one step (AtomicStore).  A reference to an    *)
(* output is an output's name as it was typed: blank, or with or without   *)
(* spaces around it.  Policies are kept in the order of the document,      *)
(* which decides the one the scheduler consults.                           *)
(***************************************************************************)
EXTENDS Naturals, Integers, Sequences, FiniteSets, Lists

CONSTANTS GroupIds, PolicyIds, RegNames, Outputs,
          MaxRefs,        \* bounds the references of one request
          None

VARIABLES groups, policies

regVars == <<groups, policies>>

Blank == "blank"
Refs == (Outputs \X {"plain", "padded"}) \cup {<<Blank, "padded">>}
UpTo(S, n) == UNION {[1..k -> S] : k \in 0..n}
RangeOf(s) == {s[k] : k \in DOMAIN s}
Present == {g \in GroupIds : groups[g] # None}
PolicyNames == {policies[k].name : k \in DOMAIN policies}

RequestedLimits == -1..1           \* what a request says: invalid, the default, valid
DefaultLimit == 3
Policy == [id : PolicyIds, name : RegNames, retries : 1..DefaultLimit,
           enabled : BOOLEAN, skip : BOOLEAN]

Init == groups = [g \in GroupIds |-> None] /\ policies = <<>>

-----------------------------------------------------------------------------
(* Output groups *)

\* normalizeOutputRefs: what is left of a list of references, trimmed, when
\* what is blank and what came before is dropped; the order stays.
Trim(r) == r[1]
Trimmed(refs) == [k \in DOMAIN refs |-> Trim(refs[k])]
\* Mutant of Normalize.
Normalize_KeepsTyped(refs) ==
  Among(Trimmed(refs), {k \in DOMAIN refs : /\ Trim(refs[k]) # Blank
                                            /\ \A j \in 1..(k - 1) : refs[j] # refs[k]})
Normalize(refs) ==
  Among(Trimmed(refs), {k \in DOMAIN refs : /\ Trim(refs[k]) # Blank
                                            /\ \A j \in 1..(k - 1) : Trim(refs[j]) # Trim(refs[k])})

GroupNamed(name, g) == \E o \in Present \ {g} : groups[o].name = name
SetGroup(g, r) == groups' = [groups EXCEPT ![g] = r] /\ UNCHANGED policies
Group(name, refs) == [name |-> name, outputs |-> Normalize(refs)]

CreateGroup == \E g \in GroupIds \ Present, n \in RegNames, refs \in UpTo(Refs, MaxRefs) :
  ~GroupNamed(n, g) /\ SetGroup(g, Group(n, refs))
UpdateGroup == \E g \in Present, n \in RegNames, refs \in UpTo(Refs, MaxRefs) :
  ~GroupNamed(n, g) /\ SetGroup(g, Group(n, refs))

\* Mutant of AddOutput.
AddOutput_Untrimmed == \E g \in Present, r \in Refs :
  /\ r[1] # Blank /\ r \notin RangeOf(groups[g].outputs)
  /\ r[2] = "plain" => r[1] \notin RangeOf(groups[g].outputs)
  /\ Len(groups[g].outputs) <= Cardinality(Outputs)
  /\ SetGroup(g, [groups[g] EXCEPT !.outputs = Append(@, r[1])])
\* An output that is there is not added again; a blank one is refused.
AddOutput == \E g \in Present, r \in Refs :
  /\ Trim(r) \notin {Blank} \cup RangeOf(groups[g].outputs)
  /\ SetGroup(g, [groups[g] EXCEPT !.outputs = Append(@, Trim(r))])

RemoveOutput == \E g \in Present, r \in Refs :
  /\ Trim(r) \in RangeOf(groups[g].outputs)
  /\ SetGroup(g, [groups[g] EXCEPT !.outputs = Among(@, {k \in DOMAIN @ : @[k] # Trim(r)})])

\* outputGroupInUse is never true.
DeleteGroup == \E g \in Present : SetGroup(g, None)

handleOutputGroup == CreateGroup \/ UpdateGroup \/ AddOutput \/ RemoveOutput \/ DeleteGroup

-----------------------------------------------------------------------------
(* Health policies *)

\* normalizeHealthPolicySpec: zero is the default, less is refused.
Default(limit) == IF limit = 0 THEN DefaultLimit ELSE limit
ValidLimit(limit) == limit >= 0
PolicyOf(id, name, limit, enabled, skip) ==
  [id |-> id, name |-> name, retries |-> Default(limit), enabled |-> enabled, skip |-> skip]
PolicyAt(p) == {k \in DOMAIN policies : policies[k].id = p}

CreatePolicy == \E p \in PolicyIds, n \in RegNames \ PolicyNames, l \in RequestedLimits, e, s \in BOOLEAN :
  /\ PolicyAt(p) = {} /\ ValidLimit(l)
  /\ policies' = Append(policies, PolicyOf(p, n, l, e, s))
  /\ UNCHANGED groups

UpdatePolicy == \E k \in DOMAIN policies, n \in RegNames, l \in RequestedLimits, e, s \in BOOLEAN :
  /\ ValidLimit(l) /\ \A j \in DOMAIN policies \ {k} : policies[j].name # n
  /\ policies' = [policies EXCEPT ![k] = PolicyOf(@.id, n, l, e, s)]
  /\ UNCHANGED groups

SetPolicyEnabled == \E k \in DOMAIN policies, e \in BOOLEAN :
  policies' = [policies EXCEPT ![k].enabled = e] /\ UNCHANGED groups

DeletePolicy == \E k \in DOMAIN policies :
  /\ policies' = SubSeq(policies, 1, k - 1) \o SubSeq(policies, k + 1, Len(policies))
  /\ UNCHANGED groups

handleHealthPolicy == CreatePolicy \/ UpdatePolicy \/ SetPolicyEnabled \/ DeletePolicy

\* firstEnabledPolicy, and RetriesExceeded (which nothing calls).
FirstEnabled == LET on == {k \in DOMAIN policies : policies[k].enabled}
                IN IF on = {} THEN None
                   ELSE policies[CHOOSE k \in on : \A j \in on : k <= j]
RetriesExceeded(p, attempts) == p # None /\ p.enabled /\ attempts >= p.retries

Next == handleOutputGroup \/ handleHealthPolicy

Spec == Init /\ [][Next]_regVars

-----------------------------------------------------------------------------
(* Properties *)

\* Whatever is typed and in whatever order it is added and removed, a group
\* lists an output once (AddOutput, normalizeOutputRefs), two groups or two
\* policies never share a name, and the policy in force allows an attempt.
RegistriesConsistent ==
  /\ \A g \in Present :
       /\ \A i, j \in DOMAIN groups[g].outputs :
            groups[g].outputs[i] = groups[g].outputs[j] => i = j
       /\ RangeOf(groups[g].outputs) \subseteq Outputs
       /\ ~GroupNamed(groups[g].name, g)
  /\ policies \in UpTo(Policy, Cardinality(PolicyIds))
  /\ \A i, j \in DOMAIN policies : policies[i].name = policies[j].name => i = j
  /\ ~RetriesExceeded(FirstEnabled, 0)

\* Normalising keeps exactly the outputs that were named, each at the place of
\* its first mention: a group sent back with more outputs keeps its own first.
NormalizeKeepsOrder == \A g \in Present, more \in UpTo(Refs, MaxRefs) :
  LET refs == [k \in DOMAIN groups[g].outputs |-> <<groups[g].outputs[k], "plain">>] \o more
      named == {k \in DOMAIN refs : Trim(refs[k]) # Blank}
      first(o) == CHOOSE k \in named : /\ Trim(refs[k]) = o
                                       /\ \A j \in named : Trim(refs[j]) = o => k <= j
      out == Normalize(refs)
  IN /\ RangeOf(out) = {Trim(refs[k]) : k \in named}
     /\ \A i, j \in DOMAIN out : i < j => first(out[i]) < first(out[j])
=============================================================================
