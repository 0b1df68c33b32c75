---------------------------- MODULE RecordsProofs -----------------------------
(***************************************************************************)
(* Proofs about the records the services keep beside the fleet, the        *)
(* library and the programmes: the registries of rules, outputs and        *)
(* defaults, the ledgers of events and audits, the incidents with their    *)
(* deliveries, and the timetable of the tasks, each for any number of      *)
(* records, requests under way and values.                                 *)
(***************************************************************************)
EXTENDS ServicesProofs, MCServices

-----------------------------------------------------------------------------
(* Registries *)

Named(refs) == {k \in DOMAIN refs : refs[k][1] # G!Blank}
FirstNamed(refs) == {k \in DOMAIN refs : /\ refs[k][1] # G!Blank
                                         /\ \A j \in 1..(k - 1) : refs[j][1] # refs[k][1]}

LEMMA RefShape ==
  ASSUME NEW refs \in Seq(G!Refs)
  PROVE  /\ DOMAIN refs = 1..Len(refs) /\ Len(refs) \in Nat
         /\ \A k \in DOMAIN refs : refs[k][1] \in Outputs \cup {G!Blank}
<1>1. DOMAIN refs = 1..Len(refs) /\ Len(refs) \in Nat /\ \A k \in 1..Len(refs) : refs[k] \in G!Refs
  BY LenProperties, ElementOfSeq
<1>2. \A r \in G!Refs : r[1] \in Outputs \cup {G!Blank}
  BY DEF G!Refs
<1>. QED BY <1>1, <1>2

\* What is named is named for the first time somewhere.
LEMMA FirstThere ==
  ASSUME NEW refs \in Seq(G!Refs), NEW k \in Named(refs)
  PROVE  \E i \in FirstNamed(refs) : refs[i][1] = refs[k][1] /\ i <= k
<1>. DEFINE S == {j \in DOMAIN refs : refs[j][1] = refs[k][1]}
<1>1. k \in S /\ S \subseteq Nat
  BY RefShape DEF Named
<1>2. PICK i \in S : \A j \in S : i <= j
  BY <1>1, LeastIs
<1>3. i \in DOMAIN refs /\ refs[i][1] = refs[k][1] /\ i <= k
  BY <1>1, <1>2
<1>4. ASSUME NEW j \in 1..(i - 1) PROVE refs[j][1] # refs[i][1]
  <2>1. j \in DOMAIN refs /\ ~(i <= j)
    BY <1>3, RefShape
  <2>. QED BY <1>2, <1>3, <2>1
<1>. QED BY <1>3, <1>4 DEF FirstNamed, Named

\* Normalising a list of references: outputs, each once, what was named, in the
\* order of the first mention.
LEMMA Normalized ==
  ASSUME RegistryAssumption, NEW refs \in Seq(G!Refs), NEW out, out = G!Normalize(refs)
  PROVE  /\ out \in Seq(Outputs)
         /\ \A m, n \in DOMAIN out : out[m] = out[n] => m = n
         /\ {out[n] : n \in DOMAIN out} = {refs[k][1] : k \in Named(refs)}
         /\ \A m, n \in DOMAIN out : m < n =>
              \E i, j \in FirstNamed(refs) : i < j /\ out[m] = refs[i][1] /\ out[n] = refs[j][1]
<1>. DEFINE names == [k \in DOMAIN refs |-> refs[k][1]]
            K == FirstNamed(refs)
<1>1. out = SomeOf(names, K)
  <2>1. out = G!Among(G!Trimmed(refs), {k \in DOMAIN refs :
                 G!Trim(refs[k]) # G!Blank /\ \A j \in 1..(k - 1) : G!Trim(refs[j]) # G!Trim(refs[k])})
    BY DEF G!Normalize
  <2>2. G!Trimmed(refs) = names
    BY DEF G!Trimmed, G!Trim
  <2>3. {k \in DOMAIN refs :
           G!Trim(refs[k]) # G!Blank /\ \A j \in 1..(k - 1) : G!Trim(refs[j]) # G!Trim(refs[k])} = K
    BY DEF G!Trim, FirstNamed
  <2>4. \A s, J : G!Among(s, J) = SomeOf(s, J)
    BY DEF G!Among, G!Rank, G!Cardinality, SomeOf, RankOf, Cardinality
  <2>. HIDE DEF names, K
  <2>. QED BY <2>1, <2>2, <2>3, <2>4
<1>2. names \in Seq(Outputs \cup {G!Blank}) /\ DOMAIN names = DOMAIN refs
  <2>1. names \in [1..Len(refs) -> Outputs \cup {G!Blank}] /\ Len(refs) \in Nat
    BY RefShape
  <2>. QED BY <2>1, IsASeq, RefShape
<1>3. K \subseteq DOMAIN names /\ K \subseteq Nat /\ \A k \in K : names[k] = refs[k][1] /\ names[k] \in Outputs
  BY <1>2, RefShape DEF FirstNamed
<1>4. \A i, j \in K : names[i] = names[j] => i = j
  <2>1. SUFFICES ASSUME NEW i \in K, NEW j \in K, names[i] = names[j] PROVE i = j
    OBVIOUS
  <2>2. ~(i < j) /\ ~(j < i)
    BY <1>3, <2>1, RefShape DEF FirstNamed
  <2>. QED BY <1>3, <2>2
<1>. HIDE DEF names, K
<1>5. /\ IsFiniteSet(K) /\ out \in Seq(Outputs \cup {G!Blank}) /\ Len(out) = Cardinality(K)
      /\ \A n \in DOMAIN out : \E i \in K : out[n] = names[i] /\ RankOf(K, i) = n
      /\ \A i \in K : RankOf(K, i) \in DOMAIN out /\ out[RankOf(K, i)] = names[i]
  <2>1. /\ IsFiniteSet(K) /\ SomeOf(names, K) \in Seq(Outputs \cup {G!Blank})
        /\ Len(SomeOf(names, K)) = Cardinality(K)
        /\ \A n \in DOMAIN SomeOf(names, K) : \E i \in K : SomeOf(names, K)[n] = names[i] /\ RankOf(K, i) = n
        /\ \A i \in K : RankOf(K, i) \in DOMAIN SomeOf(names, K) /\ SomeOf(names, K)[RankOf(K, i)] = names[i]
    BY <1>2, <1>3, Collected
  <2>. QED BY <1>1, <2>1
<1>6. out \in Seq(Outputs) /\ DOMAIN out = 1..Len(out) /\ Len(out) \in Nat
  <2>1. DOMAIN out = 1..Len(out) /\ Len(out) \in Nat
    BY <1>5, LenProperties
  <2>2. out \in [1..Len(out) -> Outputs]
    <3>1. \A n \in 1..Len(out) : out[n] \in Outputs
      BY <1>3, <1>5, <2>1
    <3>2. out = [n \in 1..Len(out) |-> out[n]]
      BY <1>5, LenProperties
    <3>. QED BY <3>1, <3>2
  <2>. QED BY <2>1, <2>2, IsASeq
<1>7. \A m, n \in DOMAIN out : out[m] = out[n] => m = n
  BY <1>4, <1>5
<1>8. {out[n] : n \in DOMAIN out} = {refs[k][1] : k \in Named(refs)}
  <2>1. ASSUME NEW n \in DOMAIN out PROVE out[n] \in {refs[k][1] : k \in Named(refs)}
    <3>1. PICK i \in K : out[n] = names[i]
      BY <1>5
    <3>. QED BY <1>3, <3>1 DEF K, FirstNamed, Named
  <2>2. ASSUME NEW k \in Named(refs) PROVE \E n \in DOMAIN out : out[n] = refs[k][1]
    <3>1. PICK i \in K : refs[i][1] = refs[k][1]
      BY FirstThere DEF K
    <3>. QED BY <1>3, <1>5, <3>1
  <2>. QED BY <2>1, <2>2
<1>9. ASSUME NEW m \in DOMAIN out, NEW n \in DOMAIN out, m < n
      PROVE  \E i, j \in FirstNamed(refs) : i < j /\ out[m] = refs[i][1] /\ out[n] = refs[j][1]
  <2>1. PICK i \in K : out[m] = names[i] /\ RankOf(K, i) = m
    BY <1>5
  <2>2. PICK j \in K : out[n] = names[j] /\ RankOf(K, j) = n
    BY <1>5
  <2>3. i \in Nat /\ j \in Nat
    BY <1>3
  <2>4. i < j
    <3>1. SUFFICES ASSUME j <= i PROVE FALSE
      BY <2>3
    <3>2. RankOf(K, j) <= RankOf(K, i)
      BY <1>3, <1>5, <2>3, <3>1, RankGrows
    <3>. QED BY <1>6, <1>9, <2>1, <2>2, <3>2
  <2>. QED BY <1>3, <2>1, <2>2, <2>4 DEF K
<1>. QED BY <1>6, <1>7, <1>8, <1>9

GroupTypes == groups \in [GroupIds -> GroupRec \cup {None}]
OncePerGroup(r) == \A i, j \in DOMAIN r.outputs : r.outputs[i] = r.outputs[j] => i = j
GroupsApart == \A g \in GroupIds : groups[g] # None =>
  /\ OncePerGroup(groups[g])
  /\ \A h \in GroupIds : groups[h] # None /\ groups[h].name = groups[g].name => h = g
PolicyTypes == policies \in Seq(G!Policy)
PoliciesApart == \A i, k \in DOMAIN policies :
  policies[i].name = policies[k].name \/ policies[i].id = policies[k].id => i = k
GroupsKept == GroupTypes /\ GroupsApart
PoliciesKept == PolicyTypes /\ PoliciesApart

LEMMA GroupThere ==
  ASSUME RegistryAssumption, GroupTypes, NEW g
  PROVE  /\ g \in G!Present <=> g \in GroupIds /\ groups[g] # None
         /\ g \in G!Present => /\ groups[g] \in GroupRec /\ groups[g].outputs \in Seq(Outputs)
                               /\ groups[g].name \in RegNames
<1>1. g \in GroupIds => groups[g] \in GroupRec \cup {None}
  BY DEF GroupTypes
<1>2. \A r \in GroupRec : r.outputs \in Seq(Outputs) /\ r.name \in RegNames
  BY DEF GroupRec
<1>. QED BY <1>1, <1>2 DEF G!Present

LEMMA GroupSet ==
  ASSUME RegistryAssumption, GroupsKept, NEW g \in GroupIds, NEW r \in GroupRec \cup {None},
         G!SetGroup(g, r),
         r # None => OncePerGroup(r) /\ \A h \in G!Present \ {g} : groups[h].name # r.name
  PROVE  GroupsKept'
<1>. USE DEF GroupsKept
<1>1. groups' = [groups EXCEPT ![g] = r]
  BY DEF G!SetGroup
<1>2. GroupTypes' /\ groups'[g] = r /\ \A h \in GroupIds \ {g} : groups'[h] = groups[h]
  BY <1>1 DEF GroupTypes
<1>3. \A h \in GroupIds \ {g} : groups[h] # None /\ r # None => groups[h].name # r.name
  BY GroupThere
<1>4. GroupsApart'
  <2>1. ASSUME NEW a \in GroupIds, groups'[a] # None PROVE OncePerGroup(groups'[a])
    BY <1>2, <2>1 DEF GroupsApart
  <2>2. ASSUME NEW a \in GroupIds, NEW b \in GroupIds, groups'[a] # None, groups'[b] # None,
               groups'[b].name = groups'[a].name
        PROVE  b = a
    <3>1. CASE a = g \/ b = g
      BY <1>2, <1>3, <2>2, <3>1
    <3>2. CASE a # g /\ b # g
      BY <1>2, <2>2, <3>2 DEF GroupsApart
    <3>. QED BY <3>1, <3>2
  <2>. QED BY <2>1, <2>2 DEF GroupsApart, OncePerGroup
<1>. QED BY <1>2, <1>4

LEMMA RefsTyped ==
  ASSUME RegistryAssumption, NEW refs \in G!UpTo(G!Refs, MaxRefs) PROVE refs \in Seq(G!Refs)
<1>1. PICK k \in 0..MaxRefs : refs \in [1..k -> G!Refs]
  BY DEF G!UpTo
<1>. QED BY <1>1, IsASeq DEF RegistryAssumption

LEMMA GroupMade ==
  ASSUME RegistryAssumption, NEW n \in RegNames, NEW refs \in G!UpTo(G!Refs, MaxRefs),
         NEW r, r = G!Group(n, refs)
  PROVE  r \in GroupRec /\ r # None /\ r.name = n /\ OncePerGroup(r)
<1>1. refs \in Seq(G!Refs)
  BY RefsTyped
<1>. DEFINE out == G!Normalize(refs)
<1>2. out \in Seq(Outputs) /\ \A i, j \in DOMAIN out : out[i] = out[j] => i = j
  BY <1>1, Normalized
<1>3. r = [name |-> n, outputs |-> out]
  BY DEF G!Group
<1>. HIDE DEF out
<1>4. r \in GroupRec /\ r.name = n /\ r.outputs = out
  BY <1>2, <1>3 DEF GroupRec
<1>. QED BY <1>2, <1>4 DEF OncePerGroup, RegistryAssumption

LEMMA GroupEdited ==
  ASSUME RegistryAssumption, GroupsKept, G!handleOutputGroup PROVE GroupsKept'
<1>1. GroupTypes /\ GroupsApart
  BY DEF GroupsKept
<1>2. CASE G!CreateGroup \/ G!UpdateGroup
  <2>1. PICK g \in GroupIds, n \in RegNames, refs \in G!UpTo(G!Refs, MaxRefs) :
          ~G!GroupNamed(n, g) /\ G!SetGroup(g, G!Group(n, refs))
    BY <1>1, <1>2, GroupThere DEF G!CreateGroup, G!UpdateGroup
  <2>. DEFINE r == G!Group(n, refs)
  <2>. HIDE DEF r
  <2>2. r \in GroupRec /\ r # None /\ r.name = n /\ OncePerGroup(r)
    BY GroupMade DEF r
  <2>3. \A h \in G!Present \ {g} : groups[h].name # n
    BY <2>1 DEF G!GroupNamed
  <2>4. G!SetGroup(g, r)
    BY <2>1 DEF r
  <2>. QED BY <2>2, <2>3, <2>4, GroupSet
\* The outputs of a group are replaced, the name stays.
<1>3. ASSUME NEW g \in G!Present, NEW out \in Seq(Outputs),
             \A i, j \in DOMAIN out : out[i] = out[j] => i = j,
             G!SetGroup(g, [groups[g] EXCEPT !.outputs = out])
      PROVE  GroupsKept'
  <2>. DEFINE r == [groups[g] EXCEPT !.outputs = out]
  <2>1. g \in GroupIds /\ groups[g] # None /\ groups[g] \in GroupRec
    BY <1>1, GroupThere
  <2>2. r \in GroupRec /\ r.name = groups[g].name /\ r.outputs = out
    BY <2>1 DEF GroupRec
  <2>. HIDE DEF r
  <2>3. \A h \in G!Present \ {g} : groups[h].name # r.name
    BY <1>1, <2>1, <2>2, GroupThere DEF GroupsApart
  <2>4. G!SetGroup(g, r) /\ OncePerGroup(r)
    BY <1>3, <2>2 DEF r, OncePerGroup
  <2>. QED BY <2>1, <2>2, <2>3, <2>4, GroupSet
<1>4. CASE G!AddOutput
  <2>1. PICK g \in G!Present, r \in G!Refs :
          /\ G!Trim(r) \notin {G!Blank} \cup G!RangeOf(groups[g].outputs)
          /\ G!SetGroup(g, [groups[g] EXCEPT !.outputs = Append(groups[g].outputs, G!Trim(r))])
    BY <1>4 DEF G!AddOutput
  <2>. DEFINE s == groups[g].outputs
              o == G!Trim(r)
              out == Append(s, o)
  <2>2. s \in Seq(Outputs) /\ \A i, j \in DOMAIN s : s[i] = s[j] => i = j
    BY <1>1, GroupThere DEF GroupsApart, OncePerGroup
  <2>3. o \in Outputs /\ \A i \in DOMAIN s : s[i] # o
    <3>1. o \in Outputs \cup {G!Blank}
      BY DEF G!Refs, G!Trim
    <3>. QED BY <2>1, <3>1 DEF G!RangeOf
  <2>. HIDE DEF s, o
  <2>4. /\ out \in Seq(Outputs) /\ DOMAIN s = 1..Len(s) /\ Len(s) \in Nat
        /\ DOMAIN out = 1..(Len(s) + 1)
        /\ \A i \in 1..Len(s) : out[i] = s[i]
        /\ out[Len(s) + 1] = o
    BY <2>2, <2>3, AppendProperties, LenProperties
  <2>. HIDE DEF out
  <2>5. \A i \in DOMAIN out : \/ i \in DOMAIN s /\ out[i] = s[i]
                              \/ i = Len(s) + 1 /\ i \notin DOMAIN s /\ out[i] = o
    BY <2>4
  <2>6. \A i, j \in DOMAIN out : out[i] = out[j] => i = j
    BY <2>2, <2>3, <2>5
  <2>7. G!SetGroup(g, [groups[g] EXCEPT !.outputs = out])
    BY <2>1 DEF out, s, o
  <2>. QED BY <1>3, <2>4, <2>6, <2>7
<1>5. CASE G!RemoveOutput
  <2>1. PICK g \in G!Present, r \in G!Refs :
          G!SetGroup(g, [groups[g] EXCEPT !.outputs =
            G!Among(groups[g].outputs, {k \in DOMAIN groups[g].outputs : groups[g].outputs[k] # G!Trim(r)})])
    BY <1>5 DEF G!RemoveOutput
  <2>. DEFINE s == groups[g].outputs
              K == {k \in DOMAIN s : s[k] # G!Trim(r)}
              out == G!Among(s, K)
  <2>2. s \in Seq(Outputs) /\ \A i, j \in DOMAIN s : s[i] = s[j] => i = j
    BY <1>1, GroupThere DEF GroupsApart, OncePerGroup
  <2>3. K \subseteq DOMAIN s
    OBVIOUS
  <2>4. out = SomeOf(s, K)
    BY DEF G!Among, G!Rank, G!Cardinality, SomeOf, RankOf, Cardinality
  <2>5. G!SetGroup(g, [groups[g] EXCEPT !.outputs = out])
    BY <2>1
  <2>. HIDE DEF s, K, out
  <2>6. /\ SomeOf(s, K) \in Seq(Outputs)
        /\ \A n \in DOMAIN SomeOf(s, K) : \E i \in K : SomeOf(s, K)[n] = s[i] /\ RankOf(K, i) = n
    BY <2>2, <2>3, Collected
  <2>7. out \in Seq(Outputs) /\ \A n \in DOMAIN out : \E i \in K : out[n] = s[i] /\ RankOf(K, i) = n
    BY <2>4, <2>6
  <2>8. \A i, j \in DOMAIN out : out[i] = out[j] => i = j
    BY <2>2, <2>3, <2>7
  <2>. QED BY <1>3, <2>5, <2>7, <2>8
<1>6. CASE G!DeleteGroup
  <2>1. PICK g \in G!Present : G!SetGroup(g, None)
    BY <1>6 DEF G!DeleteGroup
  <2>. QED BY <1>1, <2>1, GroupSet, GroupThere
<1>. QED BY <1>2, <1>4, <1>5, <1>6 DEF G!handleOutputGroup

LEMMA PolicyShape ==
  ASSUME PolicyTypes
  PROVE  /\ Len(policies) \in Nat /\ DOMAIN policies = 1..Len(policies)
         /\ \A i \in DOMAIN policies : /\ policies[i] \in G!Policy /\ policies[i].id \in PolicyIds
                                       /\ policies[i].name \in RegNames /\ policies[i].retries \in 1..3
<1>1. Len(policies) \in Nat /\ DOMAIN policies = 1..Len(policies) /\ policies \in [1..Len(policies) -> G!Policy]
  BY LenProperties DEF PolicyTypes
<1>2. \A i \in DOMAIN policies : policies[i] \in G!Policy
  BY <1>1
<1>3. \A p \in G!Policy : p.id \in PolicyIds /\ p.name \in RegNames /\ p.retries \in 1..3
  BY DEF G!Policy, G!DefaultLimit
<1>. QED BY <1>1, <1>2, <1>3

\* A policy replaced by one of its id and of a name that no other has.
LEMMA PolicyReplaced ==
  ASSUME PoliciesKept, NEW k \in DOMAIN policies, NEW p \in G!Policy, p.id = policies[k].id,
         \A j \in DOMAIN policies \ {k} : policies[j].name # p.name,
         policies' = [policies EXCEPT ![k] = p]
  PROVE  PoliciesKept'
<1>. USE DEF PoliciesKept
<1>. DEFINE n == Len(policies)
<1>1. n \in Nat /\ DOMAIN policies = 1..n
  BY PolicyShape
<1>2. /\ policies' \in Seq(G!Policy) /\ DOMAIN policies' = 1..n
      /\ \A i \in 1..n : policies'[i] = IF i = k THEN p ELSE policies[i]
  <2>1. /\ policies' \in Seq(G!Policy) /\ Len(policies') = n
        /\ \A i \in 1..n : policies'[i] = IF i = k THEN p ELSE policies[i]
    BY <1>1, ExceptSeq DEF PolicyTypes
  <2>. QED BY <2>1, LenProperties
<1>3. \A i \in (1..n) \ {k} : policies[i].name # p.name /\ policies[i].id # p.id
  BY <1>1 DEF PoliciesApart
<1>. QED BY <1>1, <1>2, <1>3 DEF PolicyTypes, PoliciesApart

LEMMA PolicyEdited ==
  ASSUME PoliciesKept, G!handleHealthPolicy PROVE PoliciesKept'
<1>. USE DEF PoliciesKept
<1>. DEFINE n == Len(policies)
<1>1. n \in Nat /\ DOMAIN policies = 1..n /\ \A i \in 1..n : policies[i] \in G!Policy
  BY PolicyShape
<1>2. \A l \in G!RequestedLimits : G!ValidLimit(l) => G!Default(l) \in 1..3
  BY DEF G!RequestedLimits, G!ValidLimit, G!Default, G!DefaultLimit
<1>3. CASE G!CreatePolicy
  <2>1. PICK q \in PolicyIds, m \in RegNames \ G!PolicyNames, l \in G!RequestedLimits,
             e \in BOOLEAN, s \in BOOLEAN :
          /\ G!PolicyAt(q) = {} /\ G!ValidLimit(l)
          /\ policies' = Append(policies, G!PolicyOf(q, m, l, e, s))
    BY <1>3 DEF G!CreatePolicy
  <2>. DEFINE p == G!PolicyOf(q, m, l, e, s)
  <2>2. p \in G!Policy /\ p.id = q /\ p.name = m
    BY <1>2, <2>1 DEF G!Policy, G!PolicyOf, G!DefaultLimit
  <2>. HIDE DEF p
  <2>3. /\ policies' \in Seq(G!Policy) /\ DOMAIN policies' = 1..(n + 1)
        /\ \A i \in 1..n : policies'[i] = policies[i]
        /\ policies'[n + 1] = p
    <3>1. policies' = Append(policies, p)
      BY <2>1 DEF p
    <3>2. /\ policies' \in Seq(G!Policy) /\ Len(policies') = n + 1
          /\ \A i \in 1..n : policies'[i] = policies[i]
          /\ policies'[n + 1] = p
      BY <2>2, <3>1, AppendProperties DEF PolicyTypes
    <3>. QED BY <3>2, LenProperties
  <2>4. \A k \in 1..n : policies[k].name # m /\ policies[k].id # q
    BY <1>1, <2>1 DEF G!PolicyNames, G!PolicyAt
  <2>5. \A i \in 1..(n + 1) : i \in 1..n \/ i = n + 1
    BY <1>1
  <2>. QED BY <1>1, <2>2, <2>3, <2>4, <2>5 DEF PolicyTypes, PoliciesApart
<1>4. CASE G!UpdatePolicy
  <2>1. PICK k \in DOMAIN policies, m \in RegNames, l \in G!RequestedLimits,
             e \in BOOLEAN, s \in BOOLEAN :
          /\ G!ValidLimit(l) /\ \A j \in DOMAIN policies \ {k} : policies[j].name # m
          /\ policies' = [policies EXCEPT ![k] = G!PolicyOf(policies[k].id, m, l, e, s)]
    BY <1>4 DEF G!UpdatePolicy
  <2>. DEFINE p == G!PolicyOf(policies[k].id, m, l, e, s)
  <2>2. p \in G!Policy /\ p.id = policies[k].id /\ p.name = m
    <3>1. policies[k].id \in PolicyIds /\ G!Default(l) \in 1..3
      BY <1>1, <1>2, <2>1, PolicyShape
    <3>. QED BY <3>1 DEF G!Policy, G!PolicyOf, G!DefaultLimit
  <2>. HIDE DEF p
  <2>3. policies' = [policies EXCEPT ![k] = p]
    BY <2>1 DEF p
  <2>. QED BY <2>1, <2>2, <2>3, PolicyReplaced
<1>5. CASE G!SetPolicyEnabled
  <2>1. PICK k \in DOMAIN policies, e \in BOOLEAN : policies' = [policies EXCEPT ![k].enabled = e]
    BY <1>5 DEF G!SetPolicyEnabled
  <2>. DEFINE p == [policies[k] EXCEPT !.enabled = e]
  <2>2. p \in G!Policy /\ p.id = policies[k].id /\ p.name = policies[k].name
    BY <1>1 DEF G!Policy
  <2>3. policies' = [policies EXCEPT ![k] = p]
    BY <2>1
  <2>. HIDE DEF p
  <2>4. \A j \in DOMAIN policies \ {k} : policies[j].name # p.name
    BY <2>2 DEF PoliciesApart
  <2>. QED BY <2>2, <2>3, <2>4, PolicyReplaced
<1>6. CASE G!DeletePolicy
  <2>1. PICK k \in DOMAIN policies : policies' = R!RemoveAt(policies, k)
    BY <1>6 DEF G!DeletePolicy, R!RemoveAt
  <2>2. /\ policies' \in Seq(G!Policy) /\ DOMAIN policies' = 1..(n - 1)
        /\ \A i \in 1..(n - 1) : policies'[i] = IF i < k THEN policies[i] ELSE policies[i + 1]
    <3>1. /\ policies' \in Seq(G!Policy) /\ Len(policies') = n - 1
          /\ \A i \in 1..(n - 1) : policies'[i] = IF i < k THEN policies[i] ELSE policies[i + 1]
      BY <2>1, Removed DEF PolicyTypes
    <3>. QED BY <3>1, LenProperties
  <2>3. \A i \in 1..(n - 1) : i \in 1..n /\ i + 1 \in 1..n
    BY <1>1
  <2>4. ASSUME NEW i \in 1..(n - 1), NEW j \in 1..(n - 1),
               policies'[i].name = policies'[j].name \/ policies'[i].id = policies'[j].id
        PROVE  i = j
    <3>. DEFINE at(m) == IF m < k THEN m ELSE m + 1
    <3>1. /\ policies'[i] = policies[at(i)] /\ policies'[j] = policies[at(j)]
          /\ at(i) \in DOMAIN policies /\ at(j) \in DOMAIN policies
      BY <1>1, <2>2, <2>3
    <3>2. at(i) = at(j)
      BY <2>4, <3>1 DEF PoliciesApart
    <3>. QED BY <1>1, <2>1, <3>2
  <2>. QED BY <2>2, <2>4 DEF PolicyTypes, PoliciesApart
<1>. QED BY <1>3, <1>4, <1>5, <1>6 DEF G!handleHealthPolicy

RegistryInv == GroupsKept /\ PoliciesKept

LEMMA RegistryStep ==
  ASSUME RegistryAssumption, RegistryInv, [G!Next]_(G!regVars) PROVE RegistryInv'
<1>1. CASE G!handleOutputGroup
  <2>1. policies' = policies
    BY <1>1 DEF G!handleOutputGroup, G!CreateGroup, G!UpdateGroup, G!AddOutput, G!RemoveOutput,
                G!DeleteGroup, G!SetGroup
  <2>. QED BY <1>1, <2>1, GroupEdited DEF RegistryInv, PoliciesKept, PolicyTypes, PoliciesApart
<1>2. CASE G!handleHealthPolicy
  <2>1. groups' = groups
    BY <1>2 DEF G!handleHealthPolicy, G!CreatePolicy, G!UpdatePolicy, G!SetPolicyEnabled, G!DeletePolicy
  <2>. QED BY <1>2, <2>1, PolicyEdited DEF RegistryInv, GroupsKept, GroupTypes, GroupsApart
<1>3. CASE UNCHANGED G!regVars
  <2>1. groups' = groups /\ policies' = policies
    BY <1>3 DEF G!regVars
  <2>. QED BY <2>1 DEF RegistryInv, GroupsKept, GroupTypes, GroupsApart, PoliciesKept, PolicyTypes, PoliciesApart
<1>. QED BY <1>1, <1>2, <1>3 DEF G!Next

\* RegistryInv of the collections of a document.
RegistryOf(d) ==
  /\ d.groups \in [GroupIds -> GroupRec \cup {None}]
  /\ \A g \in GroupIds : d.groups[g] # None =>
       /\ OncePerGroup(d.groups[g])
       /\ \A h \in GroupIds : d.groups[h] # None /\ d.groups[h].name = d.groups[g].name => h = g
  /\ d.policies \in Seq(G!Policy)
  /\ \A i, k \in DOMAIN d.policies :
       d.policies[i].name = d.policies[k].name \/ d.policies[i].id = d.policies[k].id => i = k

RegistriesInv == RegistryInv /\ \A d \in saved : RegistryOf(d)

LEMMA RegistryCaptured == ASSUME RegistryInv PROVE RegistryOf(Document)
<1>. DEFINE d == Document
<1>1. d.groups = groups /\ d.policies = policies
  BY Documents
<1>. HIDE DEF d
<1>2. RegistryOf(d)
  BY <1>1 DEF RegistryInv, GroupsKept, GroupTypes, GroupsApart, PoliciesKept, PolicyTypes,
              PoliciesApart, RegistryOf
<1>. QED BY <1>2 DEF d

LEMMA RegistryRestored == ASSUME NEW d, RegistryOf(d), Replaced(d) PROVE RegistryInv'
<1>1. groups' = d.groups /\ policies' = d.policies
  BY DEF Replaced
<1>2. GroupsKept'
  BY <1>1 DEF GroupsKept, GroupTypes, GroupsApart, OncePerGroup, RegistryOf
<1>3. PoliciesKept'
  BY <1>1 DEF PoliciesKept, PolicyTypes, PoliciesApart, RegistryOf
<1>. QED BY <1>2, <1>3 DEF RegistryInv

LEMMA RegistryAlways == ASSUME RegistryAssumption PROVE Spec => []RegistriesInv
<1>1. Init => RegistriesInv
  <2>1. SUFFICES ASSUME G!Init PROVE RegistryInv
    BY DEF Init, RegistriesInv
  <2>2. GroupsKept
    BY <2>1 DEF G!Init, GroupsKept, GroupTypes, GroupsApart
  <2>3. policies = <<>> /\ policies \in Seq(G!Policy) /\ DOMAIN policies = {}
    BY <2>1 DEF G!Init
  <2>. QED BY <2>2, <2>3 DEF RegistryInv, PoliciesKept, PolicyTypes, PoliciesApart
<1>2. RegistriesInv /\ [Next]_vars => RegistriesInv'
  <2> SUFFICES ASSUME RegistriesInv, [Next]_vars PROVE RegistriesInv'
    OBVIOUS
  <2>0. \A d : RegistryOf(d) => RegistryOf(d)'
    BY DEF RegistryOf, OncePerGroup
  <2>1. CASE Moves
    <3>1. [G!Next]_(G!regVars) /\ saved' = saved
      BY <2>1 DEF Moves, regVars, G!regVars
    <3>. QED BY <2>0, <3>1, RegistryStep DEF RegistriesInv
  <2>2. CASE ServicesRest /\ saved' = saved \cup {Document}
    <3>1. UNCHANGED G!regVars
      BY <2>2 DEF ServicesRest, regVars, G!regVars
    <3>2. \A d \in saved' : RegistryOf(d)
      BY <2>2, RegistryCaptured DEF RegistriesInv
    <3>. QED BY <2>0, <3>1, <3>2, RegistryStep DEF RegistriesInv
  <2>3. ASSUME saved' = saved, NEW d \in saved, Replaced(d) PROVE RegistriesInv'
    BY <2>0, <2>3, RegistryRestored DEF RegistriesInv
  <2>. QED BY <2>1, <2>2, <2>3, StepIs
<1>. QED BY <1>1, <1>2, PTL DEF Spec

\* There are no more policies than identifiers.
LEMMA PoliciesFew ==
  ASSUME RegistryAssumption, PoliciesKept
  PROVE  policies \in G!UpTo(G!Policy, G!Cardinality(PolicyIds))
<1>1. Len(policies) \in Nat /\ DOMAIN policies = 1..Len(policies) /\ policies \in [1..Len(policies) -> G!Policy]
  BY LenProperties DEF PoliciesKept, PolicyTypes
<1>. DEFINE id == [i \in DOMAIN policies |-> policies[i].id]
<1>2. id \in Injection(DOMAIN policies, PolicyIds)
  <2>1. \A i \in DOMAIN policies : policies[i].id \in PolicyIds
    BY PolicyShape DEF PoliciesKept
  <2>2. \A i, k \in DOMAIN policies : policies[i].id = policies[k].id => i = k
    BY DEF PoliciesKept, PoliciesApart
  <2>. QED BY <2>1, <2>2 DEF Injection, IsInjective
<1>. HIDE DEF id
<1>3. Cardinality(DOMAIN policies) <= Cardinality(PolicyIds)
  BY <1>2, FS_Injection DEF RegistryAssumption
<1>4. Cardinality(1..Len(policies)) = Len(policies)
  <2>1. Cardinality(1..Len(policies)) = IF 1 > Len(policies) THEN 0 ELSE Len(policies) - 1 + 1
    BY <1>1, FS_Interval
  <2>. QED BY <1>1, <2>1
<1>5. Cardinality(PolicyIds) \in Nat /\ G!Cardinality(PolicyIds) = Cardinality(PolicyIds)
  BY FS_CardinalityType DEF RegistryAssumption, G!Cardinality, Cardinality
<1>6. Len(policies) \in 0..G!Cardinality(PolicyIds)
  BY <1>1, <1>3, <1>4, <1>5
<1>. QED BY <1>1, <1>6 DEF G!UpTo

\* The policy in force, if there is one, allows an attempt.
LEMMA PolicyAllows == ASSUME PoliciesKept PROVE ~G!RetriesExceeded(G!FirstEnabled, 0)
<1>. DEFINE on == {k \in DOMAIN policies : policies[k].enabled}
<1>1. CASE on = {}
  BY <1>1 DEF G!FirstEnabled, G!RetriesExceeded
<1>2. CASE on # {}
  <2>1. on \subseteq Nat /\ on \subseteq DOMAIN policies
    BY PolicyShape DEF PoliciesKept
  <2>. DEFINE k == CHOOSE i \in on : \A j \in on : i <= j
  <2>. HIDE DEF on
  <2>2. k = LeastOf(on)
    BY DEF LeastOf
  <2>3. k \in on
    BY <1>2, <2>1, <2>2, LeastIs
  <2>4. policies[k].retries \in 1..3
    BY <2>1, <2>3, PolicyShape DEF PoliciesKept
  <2>5. G!FirstEnabled = policies[k]
    BY <1>2 DEF G!FirstEnabled, on
  <2>. QED BY <2>4, <2>5 DEF G!RetriesExceeded
<1>. QED BY <1>1, <1>2

\* A group lists an output once, two groups or policies never share a name, and
\* the policy in force allows an attempt, for any references typed in any order
\* (output_group.go, health_policy.go).
THEOREM RegistriesHold == Spec => []G!RegistriesConsistent
<1>0. RegistryAssumption
  BY ServicesAssumption
<1>. USE <1>0
<1>1. RegistryInv => G!RegistriesConsistent
  <2>1. SUFFICES ASSUME RegistryInv PROVE G!RegistriesConsistent
    OBVIOUS
  <2>2. GroupTypes /\ GroupsApart /\ PoliciesKept
    BY <2>1 DEF RegistryInv, GroupsKept
  <2>3. ASSUME NEW g \in G!Present
        PROVE  /\ \A i, j \in DOMAIN groups[g].outputs :
                    groups[g].outputs[i] = groups[g].outputs[j] => i = j
               /\ G!RangeOf(groups[g].outputs) \subseteq Outputs
               /\ ~G!GroupNamed(groups[g].name, g)
    <3>1. g \in GroupIds /\ groups[g] # None /\ groups[g].outputs \in Seq(Outputs)
      BY <2>2, GroupThere
    <3>2. \A i \in DOMAIN groups[g].outputs : groups[g].outputs[i] \in Outputs
      BY <3>1, ElementOfSeq, LenProperties
    <3>3. \A h \in G!Present : h \in GroupIds /\ groups[h] # None
      BY <2>2, GroupThere
    <3>. QED BY <2>2, <3>1, <3>2, <3>3 DEF GroupsApart, OncePerGroup, G!RangeOf, G!GroupNamed
  <2>4. \A i, j \in DOMAIN policies : policies[i].name = policies[j].name => i = j
    BY <2>2 DEF PoliciesKept, PoliciesApart
  <2>. QED BY <2>2, <2>3, <2>4, PoliciesFew, PolicyAllows DEF G!RegistriesConsistent
<1>2. RegistriesInv => RegistryInv
  BY DEF RegistriesInv
<1>. QED BY <1>1, <1>2, RegistryAlways, PTL

\* Normalising keeps exactly the outputs that were named, each at the place of
\* its first mention, for any references (normalizeOutputRefs).
THEOREM NormalizesInOrder == Spec => []G!NormalizeKeepsOrder
<1>0. RegistryAssumption
  BY ServicesAssumption
<1>. USE <1>0
<1>1. RegistryInv => G!NormalizeKeepsOrder
  <2>. SUFFICES ASSUME RegistryInv, NEW g \in G!Present, NEW more \in G!UpTo(G!Refs, MaxRefs)
                PROVE  LET refs == [k \in DOMAIN groups[g].outputs |-> <<groups[g].outputs[k], "plain">>] \o more
                           named == {k \in DOMAIN refs : G!Trim(refs[k]) # G!Blank}
                           first(o) == CHOOSE k \in named :
                             G!Trim(refs[k]) = o /\ \A j \in named : G!Trim(refs[j]) = o => k <= j
                           out == G!Normalize(refs)
                       IN /\ G!RangeOf(out) = {G!Trim(refs[k]) : k \in named}
                          /\ \A i, j \in DOMAIN out : i < j => first(out[i]) < first(out[j])
    BY DEF G!NormalizeKeepsOrder
  <2>. DEFINE own == [k \in DOMAIN groups[g].outputs |-> <<groups[g].outputs[k], "plain">>]
              refs == own \o more
              named == {k \in DOMAIN refs : G!Trim(refs[k]) # G!Blank}
              first(o) == CHOOSE k \in named :
                G!Trim(refs[k]) = o /\ \A j \in named : G!Trim(refs[j]) = o => k <= j
              out == G!Normalize(refs)
  <2>1. own \in Seq(G!Refs)
    <3>1. groups[g].outputs \in Seq(Outputs)
      BY GroupThere DEF RegistryInv, GroupsKept
    <3>. DEFINE outputs == groups[g].outputs
    <3>. HIDE DEF outputs
    <3>2. /\ DOMAIN outputs = 1..Len(outputs) /\ Len(outputs) \in Nat
          /\ \A k \in DOMAIN outputs : outputs[k] \in Outputs
      BY <3>1, ElementOfSeq, LenProperties DEF outputs
    <3>3. \A o \in Outputs : <<o, "plain">> \in G!Refs
      BY DEF G!Refs
    <3>4. [k \in DOMAIN outputs |-> <<outputs[k], "plain">>] \in [1..Len(outputs) -> G!Refs]
      BY <3>2, <3>3
    <3>. QED BY <3>2, <3>4, IsASeq DEF outputs
  <2>. HIDE DEF own
  <2>2. refs \in Seq(G!Refs)
    BY <2>1, RefsTyped, ConcatProperties
  <2>. HIDE DEF refs
  <2>3. named = Named(refs)
    BY DEF G!Trim, Named
  <2>. HIDE DEF out
  <2>4. /\ out \in Seq(Outputs)
        /\ {out[n] : n \in DOMAIN out} = {refs[k][1] : k \in Named(refs)}
        /\ \A m, n \in DOMAIN out : m < n =>
             \E i, j \in FirstNamed(refs) : i < j /\ out[m] = refs[i][1] /\ out[n] = refs[j][1]
    BY <2>2, Normalized DEF out
  <2>5. G!RangeOf(out) = {G!Trim(refs[k]) : k \in named}
    BY <2>3, <2>4 DEF G!RangeOf, G!Trim
  <2>6. ASSUME NEW i \in FirstNamed(refs) PROVE first(refs[i][1]) = i
    <3>1. /\ i \in named /\ \A j \in named : j \in Nat /\ j \in DOMAIN refs
          /\ \A j \in 1..(i - 1) : refs[j][1] # refs[i][1]
      BY <2>2, RefShape DEF FirstNamed, G!Trim
    <3>2. \A j \in named : G!Trim(refs[j]) = refs[i][1] => i <= j
      <4>1. ASSUME NEW j \in named, refs[j][1] = refs[i][1], j < i PROVE FALSE
        <5>1. j \in 1..(i - 1)
          BY <2>2, <3>1, <4>1, RefShape
        <5>. QED BY <3>1, <4>1, <5>1
      <4>2. \A j \in named : i <= j \/ j < i
        BY <3>1
      <4>. QED BY <4>1, <4>2 DEF G!Trim
    <3>. HIDE DEF named
    <3>3. \A k \in named : (G!Trim(refs[k]) = refs[i][1]
                             /\ \A j \in named : G!Trim(refs[j]) = refs[i][1] => k <= j) <=> k = i
      <4>1. ASSUME NEW k \in named, G!Trim(refs[k]) = refs[i][1],
                   \A j \in named : G!Trim(refs[j]) = refs[i][1] => k <= j
            PROVE  k = i
        <5>1. G!Trim(refs[i]) = refs[i][1]
          BY DEF G!Trim
        <5>2. k <= i /\ i <= k
          BY <3>1, <3>2, <4>1, <5>1
        <5>. QED BY <3>1, <5>2
      <4>2. G!Trim(refs[i]) = refs[i][1]
        BY DEF G!Trim
      <4>. QED BY <3>1, <3>2, <4>1, <4>2
    <3>. QED BY <3>1, <3>3
  <2>. HIDE DEF first, named
  <2>7. ASSUME NEW m \in DOMAIN out, NEW n \in DOMAIN out, m < n PROVE first(out[m]) < first(out[n])
    <3>1. PICK i \in FirstNamed(refs), j \in FirstNamed(refs) :
            i < j /\ out[m] = refs[i][1] /\ out[n] = refs[j][1]
      BY <2>4, <2>7
    <3>. QED BY <2>6, <3>1
  <2>. QED BY <2>5, <2>7 DEF refs, own, named, first, out
<1>2. RegistriesInv => RegistryInv
  BY DEF RegistriesInv
<1>. QED BY <1>1, <1>2, RegistryAlways, PTL

-----------------------------------------------------------------------------
(* Ledger *)

\* A log, what is stamped and not yet appended, and the last time that was given:
\* no two entries or drafts are of one time, and none is of a later.
LogRight(log, stamped, c) ==
  /\ \A i \in DOMAIN log : log[i].time <= c
  /\ \A i, k \in DOMAIN log : log[i].time = log[k].time => i = k
  /\ \A d \in stamped : d.time <= c /\ \A i \in DOMAIN log : log[i].time # d.time
  /\ \A d, e \in stamped : d.time = e.time => d = e

LaterThan(log, i) == {k \in DOMAIN log : log[k].time > log[i].time}
Kept(log, max) == {i \in DOMAIN log : Cardinality(LaterThan(log, i)) < max}

LEMMA UpTo ==
  ASSUME NEW n \in Nat
  PROVE  /\ IsFiniteSet(1..n) /\ Cardinality(1..n) = n
         /\ IsFiniteSet(0..(n - 1)) /\ Cardinality(0..(n - 1)) = n
<1>1. IsFiniteSet(1..n) /\ Cardinality(1..n) = IF 1 > n THEN 0 ELSE n - 1 + 1
  BY FS_Interval
<1>2. IsFiniteSet(0..(n - 1)) /\ Cardinality(0..(n - 1)) = IF 0 > n - 1 THEN 0 ELSE (n - 1) - 0 + 1
  <2>1. 0 \in Int /\ n - 1 \in Int
    OBVIOUS
  <2>. QED BY <2>1, FS_Interval, Zenon
<1>. QED BY <1>1, <1>2

LEMMA LaterFinite ==
  ASSUME NEW S, NEW log \in Seq(S), NEW i \in DOMAIN log
  PROVE  /\ IsFiniteSet(DOMAIN log) /\ Cardinality(DOMAIN log) = Len(log)
         /\ IsFiniteSet(LaterThan(log, i)) /\ Cardinality(LaterThan(log, i)) \in Nat
<1>1. DOMAIN log = 1..Len(log) /\ Len(log) \in Nat
  BY LenProperties
<1>2. IsFiniteSet(1..Len(log)) /\ Cardinality(1..Len(log)) = Len(log)
  BY <1>1, UpTo
<1>3. LaterThan(log, i) \in SUBSET (DOMAIN log)
  BY DEF LaterThan
<1>. QED BY <1>1, <1>2, <1>3, FS_Subset, FS_CardinalityType

\* What is older has at least as many newer.
LEMMA OlderHasMore ==
  ASSUME NEW S, \A e \in S : e.time \in Nat, NEW log \in Seq(S),
         NEW i \in DOMAIN log, NEW k \in DOMAIN log, log[k].time < log[i].time
  PROVE  Cardinality(LaterThan(log, i)) < Cardinality(LaterThan(log, k))
<1>1. DOMAIN log = 1..Len(log) /\ \A j \in DOMAIN log : log[j].time \in Nat
  BY LenProperties, ElementOfSeq
<1>2. LaterThan(log, i) \in SUBSET LaterThan(log, k) /\ i \in LaterThan(log, k) /\ i \notin LaterThan(log, i)
  BY <1>1 DEF LaterThan
<1>3. IsFiniteSet(LaterThan(log, k)) /\ Cardinality(LaterThan(log, k)) \in Nat
      /\ Cardinality(LaterThan(log, i)) \in Nat
  BY LaterFinite
<1>4. /\ Cardinality(LaterThan(log, i)) <= Cardinality(LaterThan(log, k))
      /\ Cardinality(LaterThan(log, i)) = Cardinality(LaterThan(log, k)) => LaterThan(log, i) = LaterThan(log, k)
  BY <1>2, <1>3, FS_Subset
<1>. QED BY <1>2, <1>3, <1>4

\* Where no two are of one time, as many are kept as asked.
LEMMA AsManyKept ==
  ASSUME NEW S, \A e \in S : e.time \in Nat, NEW log \in Seq(S),
         \A i, k \in DOMAIN log : log[i].time = log[k].time => i = k,
         NEW max \in Nat, max < Len(log)
  PROVE  Cardinality(Kept(log, max)) = max
<1>. DEFINE n == Len(log)
            rank == [i \in DOMAIN log |-> Cardinality(LaterThan(log, i))]
<1>1. DOMAIN log = 1..n /\ n \in Nat /\ \A i \in DOMAIN log : log[i].time \in Nat
  BY LenProperties, ElementOfSeq
<1>2. ASSUME NEW i \in DOMAIN log PROVE Cardinality(LaterThan(log, i)) \in 0..(n - 1)
  <2>1. LaterThan(log, i) \in SUBSET (DOMAIN log) /\ i \notin LaterThan(log, i)
    BY <1>1 DEF LaterThan
  <2>2. IsFiniteSet(DOMAIN log) /\ Cardinality(DOMAIN log) = n /\ Cardinality(LaterThan(log, i)) \in Nat
    BY LaterFinite
  <2>3. /\ Cardinality(LaterThan(log, i)) <= n
        /\ Cardinality(LaterThan(log, i)) = n => LaterThan(log, i) = DOMAIN log
    BY <2>1, <2>2, FS_Subset
  <2>. QED BY <1>1, <2>1, <2>2, <2>3
<1>3. ASSUME NEW i \in DOMAIN log, NEW k \in DOMAIN log,
             Cardinality(LaterThan(log, i)) = Cardinality(LaterThan(log, k))
      PROVE  i = k
  <2>1. ~(log[i].time < log[k].time) /\ ~(log[k].time < log[i].time)
    BY <1>2, <1>3, OlderHasMore
  <2>. QED BY <1>1, <2>1
<1>4. rank \in Injection(DOMAIN log, 0..(n - 1))
  BY <1>2, <1>3 DEF Injection, IsInjective
<1>5. /\ IsFiniteSet(0..(n - 1)) /\ Cardinality(0..(n - 1)) = n
      /\ IsFiniteSet(DOMAIN log) /\ Cardinality(DOMAIN log) = n
  BY <1>1, UpTo
<1>6. rank \in Surjection(DOMAIN log, 0..(n - 1))
  <2>. HIDE DEF rank, n
  <2>. QED BY <1>4, <1>5, FS_Injection
<1>7. \A m \in 0..(n - 1) : \E i \in DOMAIN log : Cardinality(LaterThan(log, i)) = m
  BY <1>6 DEF Surjection
<1>. DEFINE first == [i \in Kept(log, max) |-> Cardinality(LaterThan(log, i))]
<1>8. first \in Bijection(Kept(log, max), 0..(max - 1))
  <2>1. \A i \in Kept(log, max) : Cardinality(LaterThan(log, i)) \in 0..(max - 1)
    <3>1. \A i \in Kept(log, max) : /\ Cardinality(LaterThan(log, i)) \in 0..(n - 1)
                                     /\ Cardinality(LaterThan(log, i)) < max
      BY <1>2 DEF Kept
    <3>. QED BY <1>1, <3>1
  <2>2. \A m \in 0..(max - 1) : \E i \in Kept(log, max) : Cardinality(LaterThan(log, i)) = m
    <3>1. ASSUME NEW m \in 0..(max - 1) PROVE \E i \in Kept(log, max) : Cardinality(LaterThan(log, i)) = m
      <4>1. m \in 0..(n - 1) /\ m < max
        BY <1>1
      <4>. QED BY <1>7, <4>1 DEF Kept
    <3>. QED BY <3>1
  <2>3. \A i, k \in Kept(log, max) : Cardinality(LaterThan(log, i)) = Cardinality(LaterThan(log, k)) => i = k
    BY <1>3 DEF Kept
  <2>. QED BY <2>1, <2>2, <2>3 DEF Bijection, Injection, Surjection, IsInjective
<1>9. IsFiniteSet(Kept(log, max))
  <2>1. Kept(log, max) \in SUBSET (DOMAIN log)
    BY DEF Kept
  <2>. QED BY <1>5, <2>1, FS_Subset
<1>10. Cardinality(0..(max - 1)) = max /\ IsFiniteSet(0..(max - 1))
  BY UpTo
<1>11. ExistsBijection(Kept(log, max), 0..(max - 1))
  <2>. HIDE DEF first
  <2>. QED BY <1>8, Zenon DEF ExistsBijection
<1>. QED BY <1>9, <1>10, <1>11, FS_Bijection

\* A prune drops the oldest and keeps the order of the rest.
LEMMA PruneRight ==
  ASSUME LedgerAssumption, NEW S, \A e \in S : e.time \in Nat, NEW log \in Seq(S),
         NEW stamped, NEW c \in Nat, LogRight(log, stamped, c),
         NEW max \in Limits, Len(log) > max, NEW new, new = E!Newest(log, max)
  PROVE  /\ new \in Seq(S) /\ LogRight(new, stamped, c) /\ E!Pruned(log, new)
<1>. DEFINE K == Kept(log, max)
<1>1. new = SomeOf(log, K) /\ new = E!Among(log, K)
  <2>1. K = {i \in DOMAIN log : E!Cardinality({k \in DOMAIN log : log[k].time > log[i].time}) < max}
    BY Counts DEF Kept, LaterThan
  <2>2. new = E!Among(log, K)
    BY <2>1 DEF E!Newest
  <2>3. E!Among(log, K) = SomeOf(log, K)
    BY DEF E!Among, E!Rank, E!Cardinality, SomeOf, RankOf, Cardinality
  <2>. QED BY <2>2, <2>3
<1>2. K \subseteq DOMAIN log /\ Cardinality(K) = max /\ max \in Nat
  BY AsManyKept DEF Kept, LogRight, LedgerAssumption
<1>3. \A i \in DOMAIN log : log[i].time \in Nat
  BY ElementOfSeq, LenProperties
<1>4. ASSUME NEW i \in DOMAIN log, NEW k \in K, log[k].time < log[i].time PROVE i \in K
  <2>1. k \in DOMAIN log /\ Cardinality(LaterThan(log, k)) < max
    BY DEF Kept
  <2>2. Cardinality(LaterThan(log, i)) < Cardinality(LaterThan(log, k))
    BY <1>4, <2>1, OlderHasMore
  <2>3. Cardinality(LaterThan(log, i)) \in Nat /\ Cardinality(LaterThan(log, k)) \in Nat
    BY <2>1, LaterFinite
  <2>. QED BY <1>2, <2>1, <2>2, <2>3 DEF Kept
<1>. HIDE DEF K
<1>5. /\ new \in Seq(S) /\ Len(new) = max
      /\ \A n \in DOMAIN new : \E i \in K : new[n] = log[i] /\ RankOf(K, i) = n
      /\ \A i \in K : RankOf(K, i) \in DOMAIN new /\ new[RankOf(K, i)] = log[i]
  <2>1. /\ SomeOf(log, K) \in Seq(S) /\ Len(SomeOf(log, K)) = Cardinality(K)
        /\ \A n \in DOMAIN SomeOf(log, K) : \E i \in K : SomeOf(log, K)[n] = log[i] /\ RankOf(K, i) = n
        /\ \A i \in K : RankOf(K, i) \in DOMAIN SomeOf(log, K) /\ SomeOf(log, K)[RankOf(K, i)] = log[i]
    BY <1>2, Collected
  <2>2. new = SomeOf(log, K)
    BY <1>1
  <2>. QED BY <1>2, <2>1, <2>2
<1>6. E!ToSet(new) = {log[i] : i \in K} /\ E!ToSet(log) = {log[i] : i \in DOMAIN log}
  <2>1. E!ToSet(new) = {new[n] : n \in DOMAIN new} /\ E!ToSet(log) = {log[i] : i \in DOMAIN log}
    BY DEF E!ToSet
  <2>2. {new[n] : n \in DOMAIN new} = {log[i] : i \in K}
    BY <1>5
  <2>. QED BY <2>1, <2>2
<1>7. {i \in DOMAIN log : log[i] \in E!ToSet(new)} = K
  <2>1. \A i, k \in DOMAIN log : log[i] = log[k] => i = k
    BY DEF LogRight
  <2>. QED BY <1>2, <1>6, <2>1
<1>8. new = E!Among(log, {i \in DOMAIN log : log[i] \in E!ToSet(new)})
  BY <1>1, <1>7
<1>9. \A a \in E!ToSet(log) \ E!ToSet(new), b \in E!ToSet(log) :
        b.time < a.time => b \notin E!ToSet(new)
  BY <1>4, <1>6
<1>10. E!Pruned(log, new)
  <2>1. ~(Len(new) >= Len(log))
    BY <1>2, <1>5, LenProperties
  <2>. QED BY <1>5, <1>8, <1>9, <2>1 DEF E!Pruned
<1>11. LogRight(new, stamped, c)
  <2>1. \A n \in DOMAIN new : new[n].time <= c
    BY <1>2, <1>5 DEF LogRight
  <2>2. \A d \in stamped : \A n \in DOMAIN new : new[n].time # d.time
    BY <1>2, <1>5 DEF LogRight
  <2>3. ASSUME NEW n \in DOMAIN new, NEW m \in DOMAIN new, new[n].time = new[m].time PROVE n = m
    <3>1. PICK i \in K : new[n] = log[i] /\ RankOf(K, i) = n
      BY <1>5
    <3>2. PICK k \in K : new[m] = log[k] /\ RankOf(K, k) = m
      BY <1>5
    <3>3. i = k
      BY <1>2, <2>3, <3>1, <3>2 DEF LogRight
    <3>. QED BY <3>1, <3>2, <3>3
  <2>. QED BY <2>1, <2>2, <2>3 DEF LogRight
<1>. QED BY <1>5, <1>10, <1>11

\* A stamp takes the next time.
LEMMA StampRight ==
  ASSUME NEW S, \A e \in S : e.time \in Nat, NEW log \in Seq(S), NEW stamped \in SUBSET S,
         NEW c \in Nat, LogRight(log, stamped, c), NEW d, d.time = c + 1
  PROVE  LogRight(log, stamped \cup {d}, c + 1)
<1>1. \A i \in DOMAIN log : log[i].time \in Nat
  BY ElementOfSeq, LenProperties
<1>2. \A i \in DOMAIN log : log[i].time <= c /\ log[i].time # d.time
  BY <1>1 DEF LogRight
<1>3. \A e \in stamped : e.time \in Nat /\ e.time <= c /\ e.time # d.time
  BY DEF LogRight
<1>4. \A i \in DOMAIN log : log[i].time <= c + 1
  BY <1>1, <1>2
<1>5. \A e \in stamped \cup {d} : e.time <= c + 1
  BY <1>3
<1>. QED BY <1>2, <1>3, <1>4, <1>5 DEF LogRight

\* What is only added to loses nothing.
LEMMA NothingPruned ==
  ASSUME NEW log, NEW new, Len(new) >= Len(log),
         \A i \in DOMAIN log : i \in DOMAIN new /\ new[i] = log[i]
  PROVE  E!Pruned(log, new)
BY DEF E!Pruned

\* A stamped entry is appended or lost.
LEMMA AppendRight ==
  ASSUME NEW S, NEW log \in Seq(S), NEW stamped \in SUBSET S,
         NEW c, LogRight(log, stamped, c), NEW d \in stamped, NEW new,
         new = Append(log, d) \/ new = log
  PROVE  new \in Seq(S) /\ LogRight(new, stamped \ {d}, c) /\ E!Pruned(log, new)
<1>1. CASE new = log
  <2>1. Len(log) \in Nat /\ Len(new) >= Len(log)
    BY <1>1, LenProperties
  <2>2. E!Pruned(log, new)
    BY <1>1, <2>1, NothingPruned
  <2>. QED BY <1>1, <2>2 DEF LogRight
<1>2. CASE new = Append(log, d)
  <2>1. /\ new \in Seq(S) /\ Len(new) = Len(log) + 1 /\ Len(log) \in Nat
        /\ DOMAIN log = 1..Len(log) /\ DOMAIN new = 1..(Len(log) + 1)
        /\ \A i \in 1..Len(log) : new[i] = log[i]
        /\ new[Len(log) + 1] = d
    BY <1>2, AppendProperties, LenProperties
  <2>2. \A i \in DOMAIN new : 
          \/ i \in DOMAIN log /\ new[i] = log[i]
          \/ i = Len(log) + 1 /\ i \notin DOMAIN log /\ new[i] = d
    BY <2>1
  <2>3. \A i \in DOMAIN new : new[i].time <= c
    BY <2>2 DEF LogRight
  <2>4. \A i, k \in DOMAIN new : new[i].time = new[k].time => i = k
    BY <2>2 DEF LogRight
  <2>5. \A e \in stamped \ {d} : e.time <= c /\ \A i \in DOMAIN new : new[i].time # e.time
    BY <2>2 DEF LogRight
  <2>6. E!Pruned(log, new)
    BY <2>1, NothingPruned
  <2>. QED BY <2>1, <2>3, <2>4, <2>5, <2>6 DEF LogRight
<1>. QED BY <1>1, <1>2

LedgerInv == E!TypeOK /\ LogRight(events, drafts, clock[1]) /\ LogRight(audit, auditDrafts, clock[2])
PrunesRight == E!Pruned(events, events') /\ E!Pruned(audit, audit')

LEMMA LedgerShape ==
  ASSUME LedgerAssumption, E!TypeOK
  PROVE  /\ clock[1] \in 0..MaxEvents /\ clock[2] \in 0..MaxEvents /\ clock[1] \in Nat /\ clock[2] \in Nat
         /\ clock = <<clock[1], clock[2]>>
         /\ events \in Seq(E!Event) /\ drafts \in SUBSET E!Event
         /\ audit \in Seq(E!Entry) /\ auditDrafts \in SUBSET E!Entry
         /\ \A e \in E!Event \cup E!Entry : e.time \in Nat
<1>1. clock[1] \in 0..MaxEvents /\ clock[2] \in 0..MaxEvents /\ clock = <<clock[1], clock[2]>>
  BY DEF E!TypeOK
<1>2. \A e \in E!Event \cup E!Entry : e.time \in Nat
  BY DEF E!Event, E!Entry
<1>. QED BY <1>1, <1>2 DEF E!TypeOK, LedgerAssumption

LEMMA LogsRest == ASSUME LedgerAssumption, LedgerInv PROVE E!Pruned(events, events) /\ E!Pruned(audit, audit)
<1>1. Len(events) \in Nat /\ Len(audit) \in Nat
  BY LenProperties, LedgerShape DEF LedgerInv
<1>2. Len(events) >= Len(events) /\ Len(audit) >= Len(audit)
  BY <1>1
<1>. QED BY <1>2, NothingPruned

LEMMA LedgerSame ==
  ASSUME LedgerAssumption, LedgerInv, UNCHANGED E!ledgerVars PROVE LedgerInv' /\ PrunesRight
<1>1. UNCHANGED <<events, audit, drafts, auditDrafts, clock>>
  BY DEF E!ledgerVars
<1>2. LedgerInv'
  BY <1>1 DEF LedgerInv, E!TypeOK
<1>. QED BY <1>1, <1>2, LogsRest DEF PrunesRight

LEMMA PlaybackStep ==
  ASSUME LedgerAssumption, LedgerInv, E!Playback PROVE LedgerInv' /\ PrunesRight
<1>1. /\ E!TypeOK /\ LogRight(events, drafts, clock[1]) /\ LogRight(audit, auditDrafts, clock[2])
  BY DEF LedgerInv
<1>2. SUFFICES /\ UNCHANGED <<audit, auditDrafts>> /\ clock'[2] = clock[2]
               /\ clock' \in (0..MaxEvents) \X (0..MaxEvents)
               /\ events' \in Seq(E!Event) /\ drafts' \in SUBSET E!Event
               /\ LogRight(events', drafts', clock'[1]) /\ E!Pruned(events, events')
  BY <1>1, LogsRest DEF LedgerInv, PrunesRight, E!TypeOK
<1>3. CASE E!StampEvent
  <2>1. PICK m \in Media \cup {NoMedia}, ok \in BOOLEAN :
          /\ clock[1] < MaxEvents /\ clock' = [clock EXCEPT ![1] = @ + 1]
          /\ drafts' = drafts \cup {[time |-> clock[1] + 1, media |-> m, ok |-> ok]}
          /\ UNCHANGED <<events, audit, auditDrafts>>
    BY <1>3 DEF E!StampEvent
  <2>. DEFINE d == [time |-> clock[1] + 1, media |-> m, ok |-> ok]
  <2>2. clock' = <<clock[1] + 1, clock[2]>>
    BY <1>1, <2>1, LedgerShape
  <2>3. clock[1] + 1 \in 1..MaxEvents
    BY <1>1, <2>1, LedgerShape DEF LedgerAssumption
  <2>4. clock' \in (0..MaxEvents) \X (0..MaxEvents) /\ clock'[1] = clock[1] + 1 /\ clock'[2] = clock[2]
    BY <1>1, <2>2, <2>3, LedgerShape
  <2>5. d \in E!Event /\ d.time = clock[1] + 1
    BY <2>3 DEF E!Event
  <2>. HIDE DEF d
  <2>6. LogRight(events, drafts \cup {d}, clock[1] + 1)
    BY <1>1, <2>5, LedgerShape, StampRight
  <2>7. drafts' = drafts \cup {d}
    BY <2>1 DEF d
  <2>. QED BY <1>1, <2>1, <2>4, <2>5, <2>6, <2>7, LedgerShape, LogsRest DEF LedgerInv
<1>4. CASE E!RecordEvent
  <2>1. PICK d \in drafts : /\ drafts' = drafts \ {d}
                            /\ events' = Append(events, d) \/ events' = events
                            /\ UNCHANGED <<audit, auditDrafts, clock>>
    BY <1>4 DEF E!RecordEvent
  <2>2. /\ events' \in Seq(E!Event) /\ LogRight(events', drafts', clock[1]) /\ E!Pruned(events, events')
    <3>1. events \in Seq(E!Event) /\ drafts \in SUBSET E!Event /\ LogRight(events, drafts, clock[1])
      BY <1>1, LedgerShape
    <3>2. events' = Append(events, d) \/ events' = events
      BY <2>1
    <3>3. /\ events' \in Seq(E!Event) /\ LogRight(events', drafts \ {d}, clock[1]) /\ E!Pruned(events, events')
      BY <3>1, <3>2, AppendRight
    <3>. QED BY <2>1, <3>3
  <2>. QED BY <1>1, <2>1, <2>2, LedgerShape DEF E!TypeOK
<1>5. CASE E!PruneEvents
  <2>1. PICK max \in Limits : /\ Len(events) > max /\ events' = E!Newest(events, max)
                              /\ UNCHANGED <<audit, drafts, auditDrafts, clock>>
    BY <1>5 DEF E!PruneEvents
  <2>2. events' \in Seq(E!Event) /\ LogRight(events', drafts, clock[1]) /\ E!Pruned(events, events')
    BY <1>1, <2>1, LedgerShape, PruneRight
  <2>. QED BY <1>1, <2>1, <2>2, LedgerShape DEF E!TypeOK
<1>. QED BY <1>3, <1>4, <1>5 DEF E!Playback

LEMMA AuditStep ==
  ASSUME LedgerAssumption, LedgerInv, E!handleAudit PROVE LedgerInv' /\ PrunesRight
<1>1. /\ E!TypeOK /\ LogRight(events, drafts, clock[1]) /\ LogRight(audit, auditDrafts, clock[2])
  BY DEF LedgerInv
<1>2. SUFFICES /\ UNCHANGED <<events, drafts>> /\ clock'[1] = clock[1]
               /\ clock' \in (0..MaxEvents) \X (0..MaxEvents)
               /\ audit' \in Seq(E!Entry) /\ auditDrafts' \in SUBSET E!Entry
               /\ LogRight(audit', auditDrafts', clock'[2]) /\ E!Pruned(audit, audit')
  BY <1>1, LogsRest DEF LedgerInv, PrunesRight, E!TypeOK
<1>3. CASE E!StampAudit
  <2>1. PICK ok \in BOOLEAN :
          /\ clock[2] < MaxEvents /\ clock' = [clock EXCEPT ![2] = @ + 1]
          /\ auditDrafts' = auditDrafts \cup {[time |-> clock[2] + 1, ok |-> ok]}
          /\ UNCHANGED <<events, audit, drafts>>
    BY <1>3 DEF E!StampAudit
  <2>. DEFINE d == [time |-> clock[2] + 1, ok |-> ok]
  <2>2. clock' = <<clock[1], clock[2] + 1>>
    BY <1>1, <2>1, LedgerShape
  <2>3. clock[2] + 1 \in 1..MaxEvents
    BY <1>1, <2>1, LedgerShape DEF LedgerAssumption
  <2>4. clock' \in (0..MaxEvents) \X (0..MaxEvents) /\ clock'[1] = clock[1] /\ clock'[2] = clock[2] + 1
    BY <1>1, <2>2, <2>3, LedgerShape
  <2>5. d \in E!Entry /\ d.time = clock[2] + 1
    BY <2>3 DEF E!Entry
  <2>. HIDE DEF d
  <2>6. LogRight(audit, auditDrafts \cup {d}, clock[2] + 1)
    BY <1>1, <2>5, LedgerShape, StampRight
  <2>7. auditDrafts' = auditDrafts \cup {d}
    BY <2>1 DEF d
  <2>. QED BY <1>1, <2>1, <2>4, <2>5, <2>6, <2>7, LedgerShape, LogsRest DEF LedgerInv
<1>4. CASE E!RecordAudit
  <2>1. PICK d \in auditDrafts : /\ auditDrafts' = auditDrafts \ {d}
                                 /\ audit' = Append(audit, d) \/ audit' = audit
                                 /\ UNCHANGED <<events, drafts, clock>>
    BY <1>4 DEF E!RecordAudit
  <2>2. /\ audit' \in Seq(E!Entry) /\ LogRight(audit', auditDrafts', clock[2]) /\ E!Pruned(audit, audit')
    <3>1. audit \in Seq(E!Entry) /\ auditDrafts \in SUBSET E!Entry /\ LogRight(audit, auditDrafts, clock[2])
      BY <1>1, LedgerShape
    <3>2. audit' = Append(audit, d) \/ audit' = audit
      BY <2>1
    <3>3. /\ audit' \in Seq(E!Entry) /\ LogRight(audit', auditDrafts \ {d}, clock[2]) /\ E!Pruned(audit, audit')
      BY <3>1, <3>2, AppendRight
    <3>. QED BY <2>1, <3>3
  <2>. QED BY <1>1, <2>1, <2>2, LedgerShape DEF E!TypeOK
<1>5. CASE E!PruneAudit
  <2>1. PICK max \in Limits : /\ Len(audit) > max /\ audit' = E!Newest(audit, max)
                              /\ UNCHANGED <<events, drafts, auditDrafts, clock>>
    BY <1>5 DEF E!PruneAudit
  <2>2. audit' \in Seq(E!Entry) /\ LogRight(audit', auditDrafts, clock[2]) /\ E!Pruned(audit, audit')
    BY <1>1, <2>1, LedgerShape, PruneRight
  <2>. QED BY <1>1, <2>1, <2>2, LedgerShape DEF E!TypeOK
<1>. QED BY <1>3, <1>4, <1>5 DEF E!handleAudit

LEMMA LedgerSteps ==
  ASSUME LedgerAssumption, LedgerInv, [E!Next]_(E!ledgerVars) PROVE LedgerInv' /\ PrunesRight
BY LedgerSame, PlaybackStep, AuditStep DEF E!Next

\* What is stamped next is later than all there is, and the rest is what was
\* stamped before.
StampsOn(stamped, c, newStamped, newC) ==
  \/ newStamped \subseteq stamped /\ newC = c
  \/ newC = c + 1 /\ \E e : e.time = c + 1 /\ newStamped = stamped \cup {e}

LEMMA StampsLast ==
  ASSUME LedgerAssumption, LedgerInv, [E!Next]_(E!ledgerVars)
  PROVE  /\ StampsOn(drafts, clock[1], drafts', clock'[1])
         /\ StampsOn(auditDrafts, clock[2], auditDrafts', clock'[2])
<1>0. clock \in Nat \X Nat
  BY DEF LedgerAssumption, LedgerInv, E!TypeOK
<1>1. CASE \/ E!RecordEvent \/ E!PruneEvents \/ E!RecordAudit \/ E!PruneAudit
           \/ UNCHANGED E!ledgerVars
  <2>1. drafts' \subseteq drafts /\ auditDrafts' \subseteq auditDrafts /\ clock' = clock
    BY <1>1 DEF E!RecordEvent, E!PruneEvents, E!RecordAudit, E!PruneAudit, E!ledgerVars
  <2>. QED BY <2>1 DEF StampsOn
<1>2. CASE E!StampEvent
  <2>1. PICK m, ok : /\ clock' = [clock EXCEPT ![1] = @ + 1]
                     /\ drafts' = drafts \cup {[time |-> clock[1] + 1, media |-> m, ok |-> ok]}
                     /\ auditDrafts' = auditDrafts
    BY <1>2 DEF E!StampEvent
  <2>2. clock'[1] = clock[1] + 1 /\ clock'[2] = clock[2]
    BY <1>0, <2>1
  <2>. QED BY <2>1, <2>2 DEF StampsOn
<1>3. CASE E!StampAudit
  <2>1. PICK ok : /\ clock' = [clock EXCEPT ![2] = @ + 1]
                  /\ auditDrafts' = auditDrafts \cup {[time |-> clock[2] + 1, ok |-> ok]}
                  /\ drafts' = drafts
    BY <1>3 DEF E!StampAudit
  <2>2. clock'[2] = clock[2] + 1 /\ clock'[1] = clock[1]
    BY <1>0, <2>1
  <2>. QED BY <2>1, <2>2 DEF StampsOn
<1>. QED BY <1>1, <1>2, <1>3 DEF E!Next, E!Playback, E!handleAudit

LEMMA LogLasts ==
  ASSUME NEW S, \A e \in S : e.time \in Nat, NEW log \in Seq(S), NEW stamped \in SUBSET S,
         NEW c \in Nat, LogRight(log, stamped, c), NEW newStamped, NEW newC,
         StampsOn(stamped, c, newStamped, newC)
  PROVE  LogRight(log, newStamped, newC)
<1>1. CASE newStamped \subseteq stamped /\ newC = c
  BY <1>1 DEF LogRight
<1>2. CASE newC = c + 1 /\ \E e : e.time = c + 1 /\ newStamped = stamped \cup {e}
  BY <1>2, StampRight
<1>. QED BY <1>1, <1>2 DEF StampsOn

\* LedgerInv of the logs of a document, with what is to be appended now.
LedgerOf(d) ==
  /\ d.events \in Seq(E!Event) /\ LogRight(d.events, drafts, clock[1])
  /\ d.audit \in Seq(E!Entry) /\ LogRight(d.audit, auditDrafts, clock[2])

LedgersInv == LedgerInv /\ \A d \in saved : LedgerOf(d)

LEMMA LedgerLasts ==
  ASSUME LedgerAssumption, LedgerInv, [E!Next]_(E!ledgerVars), NEW d, LedgerOf(d)
  PROVE  LedgerOf(d)'
<1>1. /\ StampsOn(drafts, clock[1], drafts', clock'[1])
      /\ StampsOn(auditDrafts, clock[2], auditDrafts', clock'[2])
  BY StampsLast
<1>2. /\ \A e \in E!Event \cup E!Entry : e.time \in Nat
      /\ drafts \in SUBSET E!Event /\ auditDrafts \in SUBSET E!Entry
      /\ clock[1] \in Nat /\ clock[2] \in Nat
  BY LedgerShape DEF LedgerInv
<1>3. PICK log : log = d.events
  OBVIOUS
<1>4. LogRight(log, drafts', clock'[1])
  BY <1>1, <1>2, <1>3, LogLasts DEF LedgerOf
<1>5. PICK trail : trail = d.audit
  OBVIOUS
<1>6. LogRight(trail, auditDrafts', clock'[2])
  BY <1>1, <1>2, <1>5, LogLasts DEF LedgerOf
<1>. QED BY <1>3, <1>4, <1>5, <1>6 DEF LedgerOf, E!Event, E!Entry

LEMMA LedgerCaptured == ASSUME LedgerInv PROVE LedgerOf(Document)
<1>. DEFINE d == Document
<1>1. d.events = events /\ d.audit = audit
  BY Documents
<1>. HIDE DEF d
<1>2. LedgerOf(d)
  BY <1>1 DEF LedgerInv, E!TypeOK, LedgerOf
<1>. QED BY <1>2 DEF d

LEMMA LedgerRestored ==
  ASSUME LedgerInv, NEW d, LedgerOf(d), Replaced(d), UNCHANGED underWay
  PROVE  LedgerInv'
<1>1. /\ events' = d.events /\ audit' = d.audit
      /\ drafts' = drafts /\ auditDrafts' = auditDrafts /\ clock' = clock
  BY DEF Replaced, underWay
<1>2. E!TypeOK'
  BY <1>1 DEF LedgerInv, E!TypeOK, LedgerOf
<1>. QED BY <1>1, <1>2 DEF LedgerInv, LedgerOf, LogRight

LEMMA LedgerAlways == ASSUME LedgerAssumption PROVE Spec => []LedgersInv
<1>1. Init => LedgersInv
  <2>1. SUFFICES ASSUME E!Init PROVE LedgerInv
    BY DEF Init, LedgersInv
  <2>2. events = <<>> /\ audit = <<>> /\ drafts = {} /\ auditDrafts = {} /\ clock = <<0, 0>>
    BY <2>1 DEF E!Init
  <2>3. clock \in (0..MaxEvents) \X (0..MaxEvents)
    BY <2>2 DEF LedgerAssumption
  <2>4. E!TypeOK
    BY <2>2, <2>3 DEF E!TypeOK
  <2>5. DOMAIN events = {} /\ DOMAIN audit = {}
    BY <2>2
  <2>. QED BY <2>2, <2>4, <2>5 DEF LedgerInv, LogRight
<1>2. LedgersInv /\ [Next]_vars => LedgersInv'
  <2> SUFFICES ASSUME LedgersInv, [Next]_vars PROVE LedgersInv'
    OBVIOUS
  <2>0. [E!Next]_(E!ledgerVars) => LedgerInv'
    BY LedgerSteps DEF LedgersInv
  <2>1. CASE Moves
    <3>1. [E!Next]_(E!ledgerVars) /\ saved' = saved
      BY <2>1 DEF Moves, ledgerVars, E!ledgerVars
    <3>. QED BY <2>0, <3>1, LedgerLasts DEF LedgersInv
  <2>2. CASE ServicesRest /\ saved' = saved \cup {Document}
    <3>1. UNCHANGED E!ledgerVars
      BY <2>2 DEF ServicesRest, ledgerVars, E!ledgerVars
    <3>2. \A d \in saved' : LedgerOf(d)
      BY <2>2, LedgerCaptured DEF LedgersInv
    <3>3. \A d \in saved' : LedgerOf(d)'
      BY <3>1, <3>2, LedgerLasts DEF LedgersInv
    <3>. QED BY <2>0, <3>1, <3>3 DEF LedgersInv
  <2>3. ASSUME saved' = saved, NEW d \in saved, Replaced(d), UNCHANGED underWay PROVE LedgersInv'
    <3>1. LedgerInv'
      BY <2>3, LedgerRestored DEF LedgersInv
    <3>2. drafts' = drafts /\ auditDrafts' = auditDrafts /\ clock' = clock
      BY <2>3 DEF underWay
    <3>3. \A x \in saved : LedgerOf(x) => LedgerOf(x)'
      BY <3>2 DEF LedgerOf, E!Event, E!Entry
    <3>. QED BY <2>3, <3>1, <3>3 DEF LedgersInv
  <2>. QED BY <2>1, <2>2, <2>3, StepIs
<1>. QED BY <1>1, <1>2, PTL DEF Spec

\* Every variable of the two logs keeps its type (play_event.go, audit.go).
THEOREM LedgerTypeCorrect == Spec => []E!TypeOK
<1>0. LedgerAssumption
  BY ServicesAssumption
<1>. USE <1>0
<1>1. LedgersInv => E!TypeOK
  BY DEF LedgersInv, LedgerInv
<1>. QED BY <1>1, LedgerAlways, PTL

\* But by a restore, which puts another in its place, a log loses entries by a
\* prune only, and no entry changes or moves: a prune keeps as many as it may,
\* the newest, in the order of the document, whatever the logs, however late
\* entries are appended and whichever log a restore brought back (Prune).
THEOREM LogsStay == Spec => LogsKept
<1>0. LedgerAssumption
  BY ServicesAssumption
<1>. USE <1>0
<1>1. LedgersInv /\ [Next]_vars => [Restore \/ E!PruneKeepsNewest]_vars
  <2> SUFFICES ASSUME LedgersInv, Moves \/ Capture PROVE E!PruneKeepsNewest
    BY DEF Next
  <2>1. [E!Next]_(E!ledgerVars)
    BY DEF Moves, Capture, ledgerVars, E!ledgerVars
  <2>. QED BY <2>1, LedgerSteps DEF LedgersInv, PrunesRight, E!PruneKeepsNewest
<1>. QED BY <1>1, LedgerAlways, PTL DEF Spec, LogsKept

\* How many of S rank before media m.
Place(S, m) == Cardinality({o \in S : E!Before(o, m)})

LEMMA PlaysCount ==
  ASSUME E!TypeOK
  PROVE  \A m : IsFiniteSet(E!Of(m)) /\ E!Of(m) \in SUBSET (DOMAIN events) /\ E!Plays(m) \in Nat
<1>1. IsFiniteSet(DOMAIN events)
  <2>1. events \in Seq(E!Event)
    BY DEF E!TypeOK
  <2>2. DOMAIN events = 1..Len(events) /\ Len(events) \in Nat
    BY <2>1, LenProperties
  <2>. QED BY <2>2, UpTo
<1>2. \A m : E!Of(m) \in SUBSET (DOMAIN events)
  BY DEF E!Of
<1>3. ASSUME NEW m PROVE IsFiniteSet(E!Of(m)) /\ E!Plays(m) \in Nat
  <2>1. IsFiniteSet(E!Of(m))
    BY <1>1, <1>2, FS_Subset
  <2>. QED BY <2>1, FS_CardinalityType, Counts DEF E!Plays
<1>. QED BY <1>2, <1>3

\* The ranking of media is a strict order of them all.
LEMMA BeforeOrders ==
  ASSUME E!TypeOK, Numbered
  PROVE  /\ \A a, b \in Media : E!Before(a, b) \/ E!Before(b, a) \/ a = b
         /\ \A a \in Media : ~E!Before(a, a)
         /\ \A a, b, c \in Media : E!Before(a, b) /\ E!Before(b, c) => E!Before(a, c)
<1>1. \A m \in Media : m \in Nat /\ E!Plays(m) \in Nat
  BY PlaysCount DEF Numbered
<1>. QED BY <1>1 DEF E!Before

\* The places are different, and from 0 up.
LEMMA Places ==
  ASSUME E!TypeOK, Numbered, NEW S \in SUBSET Media
  PROVE  /\ IsFiniteSet(S) /\ Cardinality(S) \in Nat
         /\ \A m \in S : Place(S, m) \in 0..(Cardinality(S) - 1)
         /\ \A o, m \in S : E!Before(o, m) => Place(S, o) < Place(S, m)
         /\ \A n \in 1..Cardinality(S) : \E m \in S : Place(S, m) = n - 1
<1> DEFINE top == Cardinality(S)
           first(m) == {o \in S : E!Before(o, m)}
           place == [m \in S |-> Place(S, m)]
<1>1. IsFiniteSet(S) /\ top \in Nat
  <2>1. IsFiniteSet(1..Cardinality(Media)) /\ Media = 1..Cardinality(Media)
    BY UpTo DEF Numbered
  <2>2. S \in SUBSET (1..Cardinality(Media))
    BY <2>1
  <2>3. IsFiniteSet(S)
    BY <2>1, <2>2, FS_Subset
  <2>. QED BY <2>3, FS_CardinalityType
<1>2. ASSUME NEW m \in S
      PROVE  /\ first(m) \in SUBSET S /\ m \notin first(m) /\ IsFiniteSet(first(m))
             /\ Place(S, m) = Cardinality(first(m)) /\ Place(S, m) \in Nat /\ Place(S, m) < top
  <2>1. first(m) \in SUBSET S /\ m \notin first(m)
    BY BeforeOrders
  <2>2. Place(S, m) = Cardinality(first(m))
    BY DEF Place
  <2> HIDE DEF first
  <2>3. /\ IsFiniteSet(first(m)) /\ Cardinality(first(m)) <= Cardinality(S)
        /\ Cardinality(S) = Cardinality(first(m)) => S = first(m)
    BY <1>1, <2>1, FS_Subset
  <2>4. Cardinality(first(m)) \in Nat
    BY <2>3, FS_CardinalityType
  <2>. QED BY <1>1, <2>1, <2>2, <2>3, <2>4
<1>3. ASSUME NEW o \in S, NEW m \in S, E!Before(o, m) PROVE Place(S, o) < Place(S, m)
  <2>1. ASSUME NEW x \in first(o) PROVE x \in first(m)
    <3>1. x \in S /\ E!Before(x, o) /\ x \in Media /\ o \in Media /\ m \in Media
      OBVIOUS
    <3>. QED BY <1>3, <3>1, BeforeOrders
  <2>2. o \in first(m) /\ o \notin first(o)
    BY <1>2, <1>3
  <2>3. first(o) \in SUBSET first(m) /\ first(o) # first(m)
    BY <2>1, <2>2
  <2>4. IsFiniteSet(first(m)) /\ Place(S, m) = Cardinality(first(m)) /\ Place(S, o) = Cardinality(first(o))
        /\ Place(S, m) \in Nat /\ Place(S, o) \in Nat
    BY <1>2
  <2> HIDE DEF first
  <2>5. /\ Cardinality(first(o)) <= Cardinality(first(m))
        /\ Cardinality(first(m)) = Cardinality(first(o)) => first(m) = first(o)
    BY <2>3, <2>4, FS_Subset
  <2>. QED BY <2>3, <2>4, <2>5
<1> HIDE DEF first
<1>4. ASSUME NEW o \in S, NEW m \in S, Place(S, o) = Place(S, m) PROVE o = m
  <2>1. Place(S, o) \in Nat /\ Place(S, m) \in Nat
    BY <1>2
  <2>2. ~(Place(S, o) < Place(S, m)) /\ ~(Place(S, m) < Place(S, o))
    BY <1>4, <2>1
  <2>3. ~E!Before(o, m) /\ ~E!Before(m, o)
    BY <1>3, <2>2
  <2>. QED BY <2>3, BeforeOrders
<1>5. ASSUME NEW m \in S PROVE Place(S, m) \in 0..(top - 1)
  <2>1. Place(S, m) \in Nat /\ Place(S, m) < top
    BY <1>2
  <2> HIDE DEF top
  <2>. QED BY <1>1, <2>1
<1>6. place \in Injection(S, 0..(top - 1))
  <2> HIDE DEF top
  <2>. QED BY <1>4, <1>5 DEF Injection, IsInjective
<1>7. IsFiniteSet(0..(top - 1)) /\ Cardinality(0..(top - 1)) = top
  BY <1>1, UpTo
<1>8. place \in Surjection(S, 0..(top - 1))
  <2> DEFINE low == 0..(top - 1)
  <2>1. IsFiniteSet(low) /\ Cardinality(S) = Cardinality(low) /\ place \in Injection(S, low)
    BY <1>6, <1>7
  <2> HIDE DEF place, top, low
  <2>2. place \in Surjection(S, low)
    BY <1>1, <2>1, FS_Injection
  <2>. QED BY <2>2 DEF low
<1>9. \A n \in 1..top : \E m \in S : Place(S, m) = n - 1
  <2>1. \A k \in 0..(top - 1) : \E m \in S : place[m] = k
    <3> HIDE DEF place, top
    <3>. QED BY <1>8 DEF Surjection
  <2>2. \A n \in 1..top : n - 1 \in 0..(top - 1)
    BY <1>1
  <2>. QED BY <2>1, <2>2
<1>. QED BY <1>1, <1>3, <1>5, <1>9

\* The ranking lists all of S, in its order.
LEMMA RanksAll ==
  ASSUME E!TypeOK, Numbered, NEW S \in SUBSET Media
  PROVE  /\ E!Ranked(S) \in Seq(S) /\ Len(E!Ranked(S)) = Cardinality(S) /\ Cardinality(S) \in Nat
         /\ \A m \in S : \E n \in 1..Cardinality(S) : E!Ranked(S)[n] = m
         /\ \A i, j \in 1..Cardinality(S) : i < j => E!Before(E!Ranked(S)[i], E!Ranked(S)[j])
<1> DEFINE top == Cardinality(S)
           all == E!Ranked(S)
<1>1. all = [n \in 1..top |-> CHOOSE m \in S : Place(S, m) = n - 1]
  BY DEF E!Ranked, Place, E!Cardinality, Cardinality
<1>2. /\ top \in Nat /\ \A m \in S : Place(S, m) \in 0..(top - 1)
      /\ \A o, m \in S : E!Before(o, m) => Place(S, o) < Place(S, m)
      /\ \A n \in 1..top : \E m \in S : Place(S, m) = n - 1
  BY Places
<1> HIDE DEF top, all
<1>3. \A n \in 1..top : all[n] \in S /\ Place(S, all[n]) = n - 1
  BY <1>1, <1>2
<1>4. all \in Seq(S) /\ Len(all) = top
  <2>1. all \in [1..top -> S]
    BY <1>1, <1>3
  <2>. QED BY <1>2, <2>1
<1>5. ASSUME NEW i \in 1..top, NEW j \in 1..top, i < j PROVE E!Before(all[i], all[j])
  <2>1. all[i] \in S /\ all[j] \in S /\ Place(S, all[i]) < Place(S, all[j])
        /\ Place(S, all[i]) \in Nat /\ Place(S, all[j]) \in Nat
    BY <1>2, <1>3, <1>5
  <2>2. ~E!Before(all[j], all[i]) /\ all[i] # all[j]
    BY <1>2, <2>1
  <2>. QED BY <2>1, <2>2, BeforeOrders
<1>6. ASSUME NEW m \in S PROVE \E n \in 1..top : all[n] = m
  <2>1. Place(S, m) + 1 \in 1..top /\ Place(S, m) + 1 - 1 = Place(S, m) /\ Place(S, m) \in Nat
    BY <1>2
  <2>2. all[Place(S, m) + 1] \in S /\ Place(S, all[Place(S, m) + 1]) = Place(S, m)
    BY <1>3, <2>1
  <2>3. ~E!Before(all[Place(S, m) + 1], m) /\ ~E!Before(m, all[Place(S, m) + 1])
    BY <1>2, <2>1, <2>2
  <2>4. all[Place(S, m) + 1] = m
    BY <2>2, <2>3, BeforeOrders
  <2>. QED BY <2>1, <2>4
<1>. QED BY <1>2, <1>4, <1>5, <1>6 DEF top, all

\* The start of a ranking, of at most a limit.
LEMMA CutShort ==
  ASSUME E!TypeOK, Numbered, NEW S \in SUBSET Media, NEW limit \in Nat \ {0}, NEW all, all = E!Ranked(S),
         NEW out, out = IF Len(all) > limit THEN SubSeq(all, 1, limit) ELSE all
  PROVE  /\ out \in Seq(S) /\ Len(out) \in Nat /\ Len(out) <= Cardinality(S)
         /\ Cardinality(S) \in Nat /\ (Len(out) = Cardinality(S) \/ Len(out) = limit)
         /\ \A n \in 1..Len(out) : out[n] = all[n]
<1>1. all \in Seq(S) /\ Len(all) = Cardinality(S) /\ Cardinality(S) \in Nat
  BY RanksAll
<1>2. CASE Len(all) > limit
  <2>1. out = SubSeq(all, 1, limit)
    BY <1>2
  <2>2. \A n \in 1..limit : all[n] \in S
    <3>1. \A n \in 1..limit : n \in 1..Len(all)
      BY <1>1, <1>2
    <3>. QED BY <1>1, <3>1, ElementOfSeq
  <2>3. out \in Seq(S) /\ Len(out) = limit /\ \A n \in 1..limit : out[n] = all[n]
    BY <2>1, <2>2
  <2>. QED BY <1>1, <1>2, <2>3
<1>3. CASE ~(Len(all) > limit)
  BY <1>1, <1>3
<1>. QED BY <1>2, <1>3

\* What is left out of a recommendation ranks below all of it, and only when
\* the list is as long as was asked.
LEMMA RecommendsFull ==
  ASSUME LedgerAssumption, E!TypeOK
  PROVE  E!RecommendFull
<1> SUFFICES ASSUME NEW recent \in SUBSET Media, NEW limit \in Limits \ {0}
             PROVE  LET out == E!Recommend(recent, limit) IN
                    /\ E!ToSet(out) \subseteq E!Played \ recent
                    /\ \A m \in (E!Played \ recent) \ E!ToSet(out) :
                         Len(out) = limit /\ \A o \in E!ToSet(out) : E!Before(o, m)
                    /\ \A i, j \in DOMAIN out : i < j => E!Before(out[i], out[j])
  BY DEF E!RecommendFull
<1> DEFINE S == E!Played \ recent
           all == E!Ranked(S)
           out == E!Recommend(recent, limit)
<1>1. S \in SUBSET Media /\ limit \in Nat \ {0} /\ Numbered
  BY DEF E!Played, LedgerAssumption
<1>2. out = IF Len(all) > limit THEN SubSeq(all, 1, limit) ELSE all
  BY DEF E!Recommend
<1> HIDE DEF S, out
<1>3. /\ out \in Seq(S) /\ Len(out) \in Nat /\ Len(out) <= Cardinality(S)
      /\ Cardinality(S) \in Nat /\ (Len(out) = Cardinality(S) \/ Len(out) = limit)
      /\ \A n \in 1..Len(out) : out[n] = all[n]
  BY <1>1, <1>2, CutShort
<1>4. /\ \A m \in S : \E n \in 1..Cardinality(S) : all[n] = m
      /\ \A i, j \in 1..Cardinality(S) : i < j => E!Before(all[i], all[j])
  BY <1>1, RanksAll
<1> HIDE DEF all
<1>5. DOMAIN out = 1..Len(out) /\ E!ToSet(out) = {out[n] : n \in 1..Len(out)}
      /\ \A n \in 1..Len(out) : out[n] \in S /\ n \in 1..Cardinality(S)
  <2>1. DOMAIN out = 1..Len(out) /\ \A n \in 1..Len(out) : out[n] \in S
    BY <1>3, LenProperties, ElementOfSeq
  <2>2. \A n \in 1..Len(out) : n \in 1..Cardinality(S)
    BY <1>3
  <2>. QED BY <2>1, <2>2 DEF E!ToSet
<1>6. E!ToSet(out) \subseteq S
  BY <1>5
<1>7. ASSUME NEW m \in S \ E!ToSet(out)
      PROVE  Len(out) = limit /\ \A o \in E!ToSet(out) : E!Before(o, m)
  <2>1. PICK n \in 1..Cardinality(S) : all[n] = m
    BY <1>4
  <2>2. n \notin 1..Len(out)
    BY <1>3, <1>5, <2>1
  <2>3. n > Len(out) /\ Len(out) # Cardinality(S)
    BY <1>3, <2>2
  <2>4. ASSUME NEW o \in E!ToSet(out) PROVE E!Before(o, m)
    <3>1. PICK i \in 1..Len(out) : out[i] = o
      BY <1>5
    <3>2. i \in 1..Cardinality(S) /\ i < n /\ all[i] = o
      BY <1>3, <1>5, <2>3, <3>1
    <3>. QED BY <1>4, <2>1, <3>2
  <2>. QED BY <1>3, <2>3, <2>4
<1>8. ASSUME NEW i \in DOMAIN out, NEW j \in DOMAIN out, i < j PROVE E!Before(out[i], out[j])
  <2>1. i \in 1..Cardinality(S) /\ j \in 1..Cardinality(S) /\ out[i] = all[i] /\ out[j] = all[j]
    BY <1>3, <1>5
  <2>. QED BY <1>4, <1>8, <2>1
<1>. QED BY <1>6, <1>7, <1>8 DEF S, out

\* The failures up to a media, and of the plays without one, are those of the
\* media before it and its own; all of them are the summary's.
FailedUpTo(n) == {k \in DOMAIN events : ~events[k].ok /\ events[k].media \in {NoMedia} \cup (1..n)}

LEMMA FiguresMatch ==
  ASSUME LedgerAssumption, E!TypeOK
  PROVE  E!FiguresAgree
<1> DEFINE top == E!Cardinality(Media)
           body(f) == [n \in 0..top |-> IF n = 0 THEN E!Failures(NoMedia) ELSE f[n - 1] + E!Failures(n)]
           sum == CHOOSE f : f = body(f)
           g == [n \in 0..top |-> Cardinality(FailedUpTo(n))]
<1>1. top \in Nat /\ Media = 1..top /\ NoMedia \notin 1..top
  BY Counts DEF LedgerAssumption, Numbered
<1>2. /\ DOMAIN events = 1..Len(events) /\ Len(events) \in Nat
      /\ IsFiniteSet(DOMAIN events) /\ Cardinality(DOMAIN events) = Len(events)
      /\ \A k \in DOMAIN events : events[k].media \in Media \cup {NoMedia} /\ events[k].ok \in BOOLEAN
  <2>1. events \in Seq(E!Event)
    BY DEF E!TypeOK
  <2>2. DOMAIN events = 1..Len(events) /\ Len(events) \in Nat /\ \A k \in 1..Len(events) : events[k] \in E!Event
    BY <2>1, LenProperties, ElementOfSeq
  <2>. QED BY <2>2, UpTo DEF E!Event
<1>3. \A X \in SUBSET (DOMAIN events) : IsFiniteSet(X) /\ Cardinality(X) \in Nat
  BY <1>2, FS_Subset, FS_CardinalityType
<1>4. \A m : E!Failures(m) = Cardinality({k \in DOMAIN events : ~events[k].ok /\ events[k].media = m})
  <2>1. \A m : {k \in E!Of(m) : ~events[k].ok} = {k \in DOMAIN events : ~events[k].ok /\ events[k].media = m}
    BY DEF E!Of
  <2>. QED BY <2>1, Counts DEF E!Failures
<1> HIDE DEF top
<1>5. Cardinality(FailedUpTo(0)) = E!Failures(NoMedia)
  <2>1. FailedUpTo(0) = {k \in DOMAIN events : ~events[k].ok /\ events[k].media = NoMedia}
    BY DEF FailedUpTo
  <2>. QED BY <1>4, <2>1
<1>6. ASSUME NEW n \in 1..top
      PROVE  Cardinality(FailedUpTo(n)) = Cardinality(FailedUpTo(n - 1)) + E!Failures(n)
  <2> DEFINE own == {k \in DOMAIN events : ~events[k].ok /\ events[k].media = n}
  <2>1. 1..n = (1..(n - 1)) \cup {n} /\ n \notin 1..(n - 1) /\ n # NoMedia
    BY <1>1
  <2>2. FailedUpTo(n) = FailedUpTo(n - 1) \cup own /\ FailedUpTo(n - 1) \cap own = {}
    BY <2>1 DEF FailedUpTo
  <2>3. FailedUpTo(n - 1) \in SUBSET (DOMAIN events) /\ own \in SUBSET (DOMAIN events)
    BY DEF FailedUpTo
  <2>4. E!Failures(n) = Cardinality(own)
    BY <1>4
  <2> HIDE DEF own
  <2>5. IsFiniteSet(FailedUpTo(n - 1)) /\ IsFiniteSet(own)
        /\ Cardinality(FailedUpTo(n - 1)) \in Nat /\ Cardinality(own) \in Nat
    BY <1>3, <2>3
  <2>6. Cardinality(FailedUpTo(n - 1) \cup own) = Cardinality(FailedUpTo(n - 1)) + Cardinality(own) - Cardinality({})
    BY <2>2, <2>5, FS_Union
  <2>. QED BY <2>2, <2>4, <2>5, <2>6, FS_EmptySet
<1>7. g = body(g)
  <2> SUFFICES ASSUME NEW n \in 0..top PROVE g[n] = body(g)[n]
    OBVIOUS
  <2>1. CASE n = 0
    BY <1>1, <1>5, <2>1
  <2>2. CASE n # 0
    <3>1. n \in 1..top /\ n - 1 \in 0..top
      BY <1>1, <2>2
    <3>2. g[n] = Cardinality(FailedUpTo(n)) /\ g[n - 1] = Cardinality(FailedUpTo(n - 1))
      BY <3>1
    <3> HIDE DEF g
    <3>3. body(g)[n] = g[n - 1] + E!Failures(n)
      BY <2>2, <3>1
    <3>. QED BY <1>6, <3>1, <3>2, <3>3
  <2>. QED BY <2>1, <2>2
<1>8. sum = body(sum)
  <2> HIDE DEF g, body
  <2>. QED BY <1>7
<1>9. \A n \in 0..top : sum[n] = g[n]
  <2> DEFINE wrong == {n \in 0..top : sum[n] # g[n]}
  <2> SUFFICES ASSUME wrong # {} PROVE FALSE
    OBVIOUS
  <2>1. wrong \subseteq Nat
    BY <1>1
  <2>2. PICK n \in wrong : \A o \in wrong : n <= o
    <3> HIDE DEF wrong
    <3>. QED BY <2>1, LeastIs
  <2>3. n \in 0..top /\ sum[n] = body(sum)[n] /\ g[n] = body(g)[n]
    <3> HIDE DEF sum, g, body
    <3>. QED BY <1>7, <1>8
  <2> HIDE DEF sum, g
  <2>4. n # 0
    BY <2>3, <2>2, <1>1
  <2>5. n - 1 \in 0..top /\ n - 1 \notin wrong
    BY <2>2, <2>3, <2>4, <1>1
  <2>6. sum[n - 1] = g[n - 1]
    BY <2>5
  <2>. QED BY <2>2, <2>3, <2>4, <2>6
<1>10. sum[top] = E!Summary.failures
  <2>1. FailedUpTo(top) = {k \in DOMAIN events : events[k].ok = FALSE}
    BY <1>1, <1>2 DEF FailedUpTo
  <2>2. sum[top] = Cardinality(FailedUpTo(top))
    <3>1. top \in 0..top
      BY <1>1
    <3> HIDE DEF sum
    <3>. QED BY <1>9, <3>1
  <2>. QED BY <2>1, <2>2, Counts DEF E!Summary, E!CountByResult
<1>11. E!Summary.total = E!Summary.successes + E!Summary.failures
  <2> DEFINE good == {k \in DOMAIN events : events[k].ok = TRUE}
             bad == {k \in DOMAIN events : events[k].ok = FALSE}
  <2>1. good \cup bad = DOMAIN events /\ good \cap bad = {}
        /\ good \in SUBSET (DOMAIN events) /\ bad \in SUBSET (DOMAIN events)
    BY <1>2
  <2>2. E!Summary.total = Len(events) /\ E!Summary.successes = Cardinality(good)
        /\ E!Summary.failures = Cardinality(bad)
    BY Counts DEF E!Summary, E!CountByResult
  <2> HIDE DEF good, bad
  <2>3. IsFiniteSet(good) /\ IsFiniteSet(bad) /\ Cardinality(good) \in Nat /\ Cardinality(bad) \in Nat
    BY <1>3, <2>1
  <2>4. Cardinality(good \cup bad) = Cardinality(good) + Cardinality(bad) - Cardinality({})
    BY <2>1, <2>3, FS_Union
  <2>5. Cardinality({}) = 0 /\ Cardinality(good \cup bad) = Len(events) /\ Len(events) \in Nat
    BY <1>2, <2>1, FS_EmptySet
  <2>6. Len(events) = Cardinality(good) + Cardinality(bad)
    BY <2>3, <2>4, <2>5
  <2>. QED BY <2>2, <2>6
<1>12. E!TopMedia(top) = E!Recommend({}, top)
  <2>1. E!Played \ {} = E!Played
    OBVIOUS
  <2>. QED BY <2>1 DEF E!TopMedia, E!Recommend
<1>13. /\ sum[top] = E!Summary.failures
       /\ E!Summary.total = E!Summary.successes + E!Summary.failures
       /\ E!TopMedia(top) = E!Recommend({}, top)
  <2> HIDE DEF sum
  <2>. QED BY <1>10, <1>11, <1>12, Zenon
<1>. QED BY <1>13, Zenon DEF E!FiguresAgree, top

\* A recommendation keeps the most played media as far as it goes, ties by the
\* identifier, and the figures of the failures by media add up to the failures
\* there are, whatever events come and whatever is evicted (metrics.go,
\* suggestion_gen.go).
THEOREM FiguresRight == Spec => [](E!RecommendFull /\ E!FiguresAgree)
<1>0. LedgerAssumption
  BY ServicesAssumption
<1>. USE <1>0
<1>1. E!TypeOK => E!RecommendFull /\ E!FiguresAgree
  BY RecommendsFull, FiguresMatch
<1>. QED BY <1>1, LedgerTypeCorrect, PTL

-----------------------------------------------------------------------------
(* Incidents *)

Tour == [at : {"post", "wait", "record", "report", "over"}, left : Seq(SubIds),
         attempt : 1..MaxRetries, ok : BOOLEAN]
Keys == IncidentKinds \cup {I!Dispatcher}

\* The records there are, and those that a captured document has.
RecordsIn(s) == {s[i] : i \in DOMAIN s}
Logged == RecordsIn(deliveries) \cup UNION {RecordsIn(d.deliveries) : d \in saved}
Visited(j) == {d.sub : d \in {e \in Logged : e.job = j}}

\* A dispatch r whose posts have reached endpoints q times, and V have a record
\* of: it visits each subscriber once, has posted to none of those it has yet to
\* come to, and to the one it is at no more often than it has tried.
OnTour(r, q, V) ==
  /\ r = I!Free => V = {} /\ \A s \in SubIds : q[s] = 0
  /\ r \in Tour =>
       /\ (r.at = "over") <=> (r.left = <<>>)
       /\ \A m, n \in DOMAIN r.left : r.left[m] = r.left[n] => m = n
       /\ \A n \in DOMAIN r.left : r.left[n] \notin V /\ (n > 1 => q[r.left[n]] = 0)
       /\ r.at = "post" => ~r.ok /\ q[r.left[1]] < r.attempt
       /\ r.at = "wait" => ~r.ok /\ q[r.left[1]] <= r.attempt /\ r.attempt < MaxRetries
       /\ r.at \in {"record", "report"} =>
            /\ q[r.left[1]] <= r.attempt
            /\ r.ok => q[r.left[1]] > 0
            /\ ~r.ok => r.attempt = MaxRetries
ToursRight == \A j \in Jobs : OnTour(jobs[j], received[j], Visited(j))

\* A record tells what happened.
Told(d) == /\ d.ok => received[d.job][d.sub] > 0
           /\ ~d.ok => d.attempts = MaxRetries
           /\ received[d.job][d.sub] <= d.attempts
AllTold == \A d \in Logged : Told(d)

AlarmsApart == \A a, b \in I!Has(alarms) :
  alarms[a].active /\ alarms[b].active /\ alarms[a].key = alarms[b].key => a = b
SubsApart == \A i, k \in DOMAIN subs :
  subs[i].name = subs[k].name \/ subs[i].id = subs[k].id => i = k

\* What a captured document has of them.
IncidentOf(d) ==
  /\ d.alarms \in [AlarmIds -> I!Alarm \cup {None}]
  /\ \A a, b \in I!Has(d.alarms) :
       d.alarms[a].active /\ d.alarms[b].active /\ d.alarms[a].key = d.alarms[b].key => a = b
  /\ d.subs \in Seq(I!Sub)
  /\ \A i, k \in DOMAIN d.subs :
       d.subs[i].name = d.subs[k].name \/ d.subs[i].id = d.subs[k].id => i = k
  /\ d.deliveries \in Seq(I!Record) /\ Len(d.deliveries) <= MaxHistory

AlarmTypes == alarms \in [AlarmIds -> I!Alarm \cup {None}]
SubTypes == subs \in Seq(I!Sub)
TourTypes == /\ deliveries \in Seq(I!Record) /\ Len(deliveries) <= MaxHistory
             /\ jobs \in [Jobs -> Tour \cup {I!Free}]
             /\ received \in [Jobs -> [SubIds -> 0..MaxRetries]]
             /\ \A d \in saved : IncidentOf(d)
CallbackTypes == /\ callback \in [IncidentKinds -> {"idle", "raise", "dispatch"}]
                 /\ incidents \in 0..MaxIncidents /\ failures \in 0..MaxFailures
AlarmsKept == AlarmTypes /\ AlarmsApart
SubsKept == SubTypes /\ SubsApart
ToursKept == TourTypes /\ ToursRight /\ AllTold
IncidentInv == AlarmsKept /\ SubsKept /\ ToursKept /\ CallbackTypes

LEMMA TourShape ==
  /\ I!Free \notin Tour /\ I!Free.at = "free"
  /\ \A r \in Tour : /\ r.at \in {"post", "wait", "record", "report", "over"} /\ r.left \in Seq(SubIds)
                     /\ r.attempt \in 1..MaxRetries /\ r.ok \in BOOLEAN /\ r # I!Free
<1>1. I!Free.at = "free"
  BY DEF I!Free
<1>2. \A r \in Tour : r.at # "free"
  BY DEF Tour
<1>3. \A r \in Tour : /\ r.at \in {"post", "wait", "record", "report", "over"} /\ r.left \in Seq(SubIds)
                      /\ r.attempt \in 1..MaxRetries /\ r.ok \in BOOLEAN
  BY DEF Tour
<1>. QED BY <1>1, <1>2, <1>3

\* A dispatch that starts, to subscribers that are each there once.
LEMMA TourStarts ==
  ASSUME IncidentAssumption, NEW t \in Seq(SubIds), t # <<>>,
         \A m, n \in DOMAIN t : t[m] = t[n] => m = n,
         NEW q, NEW V, \A n \in DOMAIN t : q[t[n]] = 0 /\ t[n] \notin V
  PROVE  I!Job(t) \in Tour /\ OnTour(I!Job(t), q, V)
<1>1. 1 \in DOMAIN t /\ 1 \in 1..MaxRetries
  BY LenProperties, EmptySeq DEF IncidentAssumption
<1>2. I!Job(t) \in Tour
  BY <1>1 DEF I!Job, Tour
<1>3. /\ I!Job(t).at = "post" /\ I!Job(t).left = t /\ I!Job(t).attempt = 1 /\ I!Job(t).ok = FALSE
  BY DEF I!Job
<1>4. I!Job(t) # I!Free
  BY <1>2, TourShape
<1>5. q[t[1]] < 1
  BY <1>1
<1>. QED BY <1>1, <1>2, <1>3, <1>4, <1>5 DEF OnTour

\* A dispatch that goes on to its next subscriber, having recorded the one it
\* was at or not.
LEMMA TourGoesOn ==
  ASSUME IncidentAssumption, NEW j \in Jobs, jobs[j] \in Tour, jobs[j].left # <<>>,
         NEW q, NEW V, OnTour(jobs[j], q, V),
         NEW W, W \subseteq V \cup {Head(jobs[j].left)}
  PROVE  I!NextTarget(j) \in Tour /\ OnTour(I!NextTarget(j), q, W)
<1>. DEFINE s == jobs[j].left
            t == Tail(s)
<1>1. /\ s \in Seq(SubIds) /\ s # <<>> /\ Len(s) \in Nat /\ DOMAIN s = 1..Len(s) /\ Head(s) = s[1]
      /\ 1 \in DOMAIN s
  BY TourShape, LenProperties, EmptySeq
<1>2. /\ t \in Seq(SubIds) /\ Len(t) = Len(s) - 1 /\ DOMAIN t = 1..Len(t)
      /\ \A n \in DOMAIN t : t[n] = s[n + 1] /\ n + 1 \in DOMAIN s /\ n + 1 > 1
  BY <1>1, HeadTailProperties, LenProperties
<1>3. /\ \A m, n \in DOMAIN s : s[m] = s[n] => m = n
      /\ \A n \in DOMAIN s : s[n] \notin V /\ (n > 1 => q[s[n]] = 0)
  BY DEF OnTour
<1>4. CASE t = <<>>
  <2>1. I!NextTarget(j) = [jobs[j] EXCEPT !.at = "over", !.left = <<>>]
    BY <1>4 DEF I!NextTarget
  <2>2. /\ I!NextTarget(j) \in Tour
        /\ I!NextTarget(j).at = "over" /\ I!NextTarget(j).left = <<>>
    <3>1. PICK none \in Seq(SubIds) : none = <<>>
      BY EmptySeq
    <3>2. I!NextTarget(j) = [jobs[j] EXCEPT !.at = "over", !.left = none]
      BY <2>1, <3>1
    <3>3. /\ I!NextTarget(j) \in Tour
          /\ I!NextTarget(j).at = "over" /\ I!NextTarget(j).left = none
      BY <3>2 DEF Tour
    <3>. QED BY <3>1, <3>3
  <2>3. DOMAIN (<<>>) = {}
    OBVIOUS
  <2>. QED BY <2>2, <2>3, TourShape DEF OnTour
<1>5. CASE t # <<>>
  <2>1. I!NextTarget(j) = I!Job(t)
    BY <1>5 DEF I!NextTarget
  <2>2. \A m, n \in DOMAIN t : t[m] = t[n] => m = n
    <3>1. \A m, n \in DOMAIN t : t[m] = t[n] => m + 1 = n + 1
      BY <1>2, <1>3
    <3>2. \A m, n \in DOMAIN t : m + 1 = n + 1 => m = n
      BY <1>1, <1>2
    <3>. QED BY <3>1, <3>2
  <2>3. \A n \in DOMAIN t : q[t[n]] = 0 /\ t[n] \notin W
    BY <1>1, <1>2, <1>3
  <2>4. t \in Seq(SubIds)
    BY <1>2
  <2>5. OnTour(I!NextTarget(j), q, W) /\ I!NextTarget(j) \in Tour
    <3>. HIDE DEF t
    <3>1. I!Job(t) \in Tour /\ OnTour(I!Job(t), q, W)
      BY <1>5, <2>2, <2>3, <2>4, TourStarts
    <3>. QED BY <2>1, <3>1, Zenon
  <2>. QED BY <2>5
<1>. QED BY <1>4, <1>5

-----------------------------------------------------------------------------
(* Alarms and subscriptions *)

LEMMA AlarmThere ==
  ASSUME IncidentAssumption, AlarmTypes, NEW a \in AlarmIds
  PROVE  /\ a \in I!Has(alarms) <=> alarms[a] # None
         /\ alarms[a] # None => /\ alarms[a] \in I!Alarm /\ alarms[a].key \in Keys
                                /\ alarms[a].active \in BOOLEAN
<1>1. DOMAIN alarms = AlarmIds /\ alarms[a] \in I!Alarm \cup {None}
  BY DEF AlarmTypes
<1>. QED BY <1>1 DEF I!Has, I!Alarm, Keys

\* Raise: an alarm of the key is active then, and the only one.
LEMMA AlarmRaised ==
  ASSUME IncidentAssumption, AlarmsKept, NEW key \in Keys, I!Raised(key)
  PROVE  AlarmsKept' /\ I!ActiveAlarms(key)' # {}
<1>. USE DEF AlarmsKept
<1>1. CASE I!ActiveAlarms(key) # {} /\ UNCHANGED alarms
  BY <1>1 DEF AlarmTypes, AlarmsApart, I!ActiveAlarms, I!Has
<1>2. CASE /\ I!ActiveAlarms(key) = {}
           /\ \E a \in AlarmIds \ I!Has(alarms) :
                alarms' = [alarms EXCEPT ![a] = [key |-> key, active |-> TRUE]]
  <2>1. PICK a \in AlarmIds \ I!Has(alarms) :
          alarms' = [alarms EXCEPT ![a] = [key |-> key, active |-> TRUE]]
    BY <1>2
  <2>2. [key |-> key, active |-> TRUE] \in I!Alarm
    BY DEF I!Alarm, Keys
  <2>3. /\ alarms' \in [AlarmIds -> I!Alarm \cup {None}]
        /\ alarms'[a] = [key |-> key, active |-> TRUE]
        /\ \A b \in AlarmIds \ {a} : alarms'[b] = alarms[b]
    BY <2>1, <2>2 DEF AlarmTypes
  <2>4. alarms'[a].key = key /\ alarms'[a].active = TRUE /\ alarms'[a] # None
    <3>1. [key |-> key, active |-> TRUE] # None
      BY <2>2 DEF IncidentAssumption
    <3>2. [key |-> key, active |-> TRUE].key = key /\ [key |-> key, active |-> TRUE].active = TRUE
      OBVIOUS
    <3>. QED BY <2>3, <3>1, <3>2, Zenon
  <2>5. a \in I!ActiveAlarms(key)'
    BY <2>3, <2>4 DEF I!ActiveAlarms, I!Has
  <2>6. \A b \in AlarmIds \ {a} : alarms[b] # None =>
          b \in I!Has(alarms) /\ ~(alarms[b].active /\ alarms[b].key = key)
    BY <1>2, AlarmThere DEF I!ActiveAlarms
  <2>7. AlarmsApart'
    <3>1. SUFFICES ASSUME NEW b \in I!Has(alarms'), NEW c \in I!Has(alarms'),
                          alarms'[b].active, alarms'[c].active, alarms'[b].key = alarms'[c].key
                   PROVE  b = c
      BY DEF AlarmsApart, I!Has
    <3>2. b \in AlarmIds /\ c \in AlarmIds /\ alarms'[b] # None /\ alarms'[c] # None
      BY <2>3 DEF I!Has
    <3>. QED BY <2>3, <2>4, <2>6, <3>1, <3>2 DEF AlarmsApart
  <2>. QED BY <2>3, <2>5, <2>7 DEF AlarmTypes
<1>. QED BY <1>1, <1>2 DEF I!Raised

\* Alarms that are resolved or deleted.
LEMMA FewerAlarms ==
  ASSUME IncidentAssumption, AlarmsKept, alarms' \in [AlarmIds -> I!Alarm \cup {None}],
         \A a \in AlarmIds : alarms'[a] # None =>
           /\ alarms[a] # None /\ alarms'[a].key = alarms[a].key
           /\ alarms'[a].active => alarms[a].active
  PROVE  AlarmsKept'
<1>1. \A a \in I!Has(alarms') : a \in AlarmIds /\ alarms'[a] # None
  BY DEF I!Has
<1>2. AlarmsApart'
  <2>1. SUFFICES ASSUME NEW b \in I!Has(alarms'), NEW c \in I!Has(alarms'),
                        alarms'[b].active, alarms'[c].active, alarms'[b].key = alarms'[c].key
                 PROVE  b = c
    BY DEF AlarmsApart, I!Has
  <2>2. /\ b \in I!Has(alarms) /\ c \in I!Has(alarms) /\ alarms[b].active /\ alarms[c].active
        /\ alarms[b].key = alarms[c].key
    BY <1>1, <2>1, AlarmThere DEF AlarmsKept
  <2>. QED BY <2>2 DEF AlarmsKept, AlarmsApart
<1>. QED BY <1>2 DEF AlarmsKept, AlarmTypes

LEMMA AlarmEdited == ASSUME IncidentAssumption, AlarmsKept, I!handleAlarm PROVE AlarmsKept'
<1>. USE DEF AlarmsKept
<1>1. CASE I!Raise
  BY <1>1, AlarmRaised DEF I!Raise, Keys
<1>2. CASE I!Resolve
  <2>1. PICK a \in I!Has(alarms) : alarms' = [alarms EXCEPT ![a].active = FALSE]
    BY <1>2 DEF I!Resolve
  <2>2. a \in AlarmIds /\ alarms[a] \in I!Alarm /\ alarms[a] # None
    BY <2>1, AlarmThere DEF I!Has, AlarmTypes
  <2>3. [alarms[a] EXCEPT !.active = FALSE] \in I!Alarm
        /\ [alarms[a] EXCEPT !.active = FALSE].key = alarms[a].key
        /\ [alarms[a] EXCEPT !.active = FALSE].active = FALSE
    BY <2>2 DEF I!Alarm
  <2>4. /\ alarms' \in [AlarmIds -> I!Alarm \cup {None}]
        /\ alarms'[a] = [alarms[a] EXCEPT !.active = FALSE]
        /\ \A b \in AlarmIds \ {a} : alarms'[b] = alarms[b]
    BY <2>1, <2>2, <2>3 DEF AlarmTypes
  <2>. QED BY <2>2, <2>3, <2>4, FewerAlarms
<1>3. CASE I!ResolveAll
  <2>1. alarms' = [a \in AlarmIds |-> IF alarms[a] = None THEN None
                                      ELSE [alarms[a] EXCEPT !.active = FALSE]]
    BY <1>3 DEF I!ResolveAll
  <2>2. ASSUME NEW a \in AlarmIds
        PROVE  /\ alarms'[a] \in I!Alarm \cup {None}
               /\ alarms'[a] # None => /\ alarms[a] # None /\ alarms'[a].key = alarms[a].key
                                       /\ alarms'[a].active = FALSE
    <3>1. CASE alarms[a] = None
      BY <2>1, <3>1
    <3>2. CASE alarms[a] # None
      <4>1. alarms[a] \in I!Alarm /\ alarms'[a] = [alarms[a] EXCEPT !.active = FALSE]
        BY <2>1, <3>2, AlarmThere
      <4>2. /\ [alarms[a] EXCEPT !.active = FALSE] \in I!Alarm
            /\ [alarms[a] EXCEPT !.active = FALSE].key = alarms[a].key
            /\ [alarms[a] EXCEPT !.active = FALSE].active = FALSE
        BY <4>1 DEF I!Alarm
      <4>. QED BY <3>2, <4>1, <4>2
    <3>. QED BY <3>1, <3>2
  <2>3. alarms' \in [AlarmIds -> I!Alarm \cup {None}]
    BY <2>1, <2>2
  <2>. QED BY <2>2, <2>3, FewerAlarms
<1>4. CASE I!DeleteAlarm
  <2>1. PICK a \in I!Has(alarms) : alarms' = [alarms EXCEPT ![a] = None]
    BY <1>4 DEF I!DeleteAlarm
  <2>2. alarms' \in [AlarmIds -> I!Alarm \cup {None}]
        /\ \A b \in AlarmIds : alarms'[b] = None \/ alarms'[b] = alarms[b]
    BY <2>1 DEF AlarmTypes
  <2>. QED BY <2>2, FewerAlarms
<1>5. CASE I!PruneAlarms
  <2>1. PICK old : alarms' = [a \in AlarmIds |-> IF a \in old THEN None ELSE alarms[a]]
    BY <1>5 DEF I!PruneAlarms
  <2>2. alarms' \in [AlarmIds -> I!Alarm \cup {None}]
        /\ \A b \in AlarmIds : alarms'[b] = None \/ alarms'[b] = alarms[b]
    BY <2>1 DEF AlarmTypes
  <2>. QED BY <2>2, FewerAlarms
<1>. QED BY <1>1, <1>2, <1>3, <1>4, <1>5 DEF I!handleAlarm

LEMMA SubShape ==
  ASSUME SubTypes
  PROVE  /\ Len(subs) \in Nat /\ DOMAIN subs = 1..Len(subs)
         /\ \A i \in DOMAIN subs : subs[i] \in I!Sub /\ subs[i].id \in SubIds
<1>1. Len(subs) \in Nat /\ DOMAIN subs = 1..Len(subs) /\ subs \in [1..Len(subs) -> I!Sub]
  BY LenProperties DEF SubTypes
<1>2. \A i \in DOMAIN subs : subs[i] \in I!Sub
  BY <1>1
<1>3. \A s \in I!Sub : s.id \in SubIds
  BY DEF I!Sub
<1>. QED BY <1>1, <1>2, <1>3

\* A position taken out of a list: the rest keeps its order (RemoveAt).
LEMMA TakenOut ==
  ASSUME NEW S, NEW s \in Seq(S), NEW i \in DOMAIN s
  PROVE  /\ I!RemoveAt(s, i) \in Seq(S) /\ Len(I!RemoveAt(s, i)) = Len(s) - 1
         /\ \A k \in 1..(Len(s) - 1) : I!RemoveAt(s, i)[k] = IF k < i THEN s[k] ELSE s[k + 1]
<1>1. I!RemoveAt(s, i) = R!RemoveAt(s, i)
  BY DEF I!RemoveAt, R!RemoveAt
<1>. QED BY <1>1, Removed

LEMMA SubEdited == ASSUME SubsKept, I!handleWebhook PROVE SubsKept'
<1>. USE DEF SubsKept
<1>. DEFINE n == Len(subs)
<1>1. n \in Nat /\ DOMAIN subs = 1..n /\ \A i \in 1..n : subs[i] \in I!Sub
  BY SubShape
<1>2. CASE I!CreateSub
  <2>1. PICK s \in I!Sub : /\ I!FreeName(s.name, 0) /\ \A k \in DOMAIN subs : subs[k].id # s.id
                           /\ subs' = Append(subs, s)
    BY <1>2 DEF I!CreateSub, I!SetSubs
  <2>2. /\ subs' \in Seq(I!Sub) /\ DOMAIN subs' = 1..(n + 1)
        /\ \A i \in 1..n : subs'[i] = subs[i]
        /\ subs'[n + 1] = s
    <3>1. /\ subs' \in Seq(I!Sub) /\ Len(subs') = n + 1
          /\ \A i \in 1..n : subs'[i] = subs[i]
          /\ subs'[n + 1] = s
      BY <2>1, AppendProperties DEF SubTypes
    <3>. QED BY <3>1, LenProperties
  <2>3. \A k \in 1..n : subs[k].name # s.name /\ subs[k].id # s.id
    BY <1>1, <2>1 DEF I!FreeName
  <2>4. \A i \in 1..(n + 1) : i \in 1..n \/ i = n + 1
    BY <1>1
  <2>. QED BY <1>1, <2>2, <2>3, <2>4 DEF SubTypes, SubsApart
<1>3. CASE I!UpdateSub
  <2>1. PICK k \in DOMAIN subs, s \in I!Sub :
          I!FreeName(s.name, k) /\ s.id = subs[k].id /\ subs' = [subs EXCEPT ![k] = s]
    BY <1>3 DEF I!UpdateSub, I!SetSubs
  <2>2. /\ subs' \in Seq(I!Sub) /\ DOMAIN subs' = 1..n
        /\ \A i \in 1..n : subs'[i] = IF i = k THEN s ELSE subs[i]
    <3>1. /\ subs' \in Seq(I!Sub) /\ Len(subs') = n
          /\ \A i \in 1..n : subs'[i] = IF i = k THEN s ELSE subs[i]
      BY <1>1, <2>1, ExceptSeq DEF SubTypes
    <3>. QED BY <3>1, LenProperties
  <2>3. \A i \in (1..n) \ {k} : subs[i].name # s.name /\ subs[i].id # s.id
    BY <1>1, <2>1 DEF I!FreeName, SubsApart
  <2>. QED BY <1>1, <2>2, <2>3 DEF SubTypes, SubsApart
<1>4. CASE I!EnableSub
  <2>1. PICK k \in DOMAIN subs, e \in BOOLEAN : subs' = [subs EXCEPT ![k].enabled = e]
    BY <1>4 DEF I!EnableSub, I!SetSubs
  <2>2. /\ [subs[k] EXCEPT !.enabled = e] \in I!Sub
        /\ [subs[k] EXCEPT !.enabled = e].name = subs[k].name
        /\ [subs[k] EXCEPT !.enabled = e].id = subs[k].id
    BY <1>1, <2>1 DEF I!Sub
  <2>3. subs' = [subs EXCEPT ![k] = [subs[k] EXCEPT !.enabled = e]]
    BY <2>1
  <2>4. /\ subs' \in Seq(I!Sub) /\ DOMAIN subs' = 1..n
        /\ \A i \in 1..n : subs'[i] = IF i = k THEN [subs[k] EXCEPT !.enabled = e] ELSE subs[i]
    <3>1. /\ subs' \in Seq(I!Sub) /\ Len(subs') = n
          /\ \A i \in 1..n : subs'[i] = IF i = k THEN [subs[k] EXCEPT !.enabled = e] ELSE subs[i]
      BY <1>1, <2>1, <2>2, <2>3, ExceptSeq DEF SubTypes
    <3>. QED BY <3>1, LenProperties
  <2>5. \A i \in 1..n : subs'[i].name = subs[i].name /\ subs'[i].id = subs[i].id
    BY <2>2, <2>4
  <2>. QED BY <1>1, <2>4, <2>5 DEF SubTypes, SubsApart
<1>5. CASE I!DeleteSub
  <2>1. PICK k \in DOMAIN subs : subs' = I!RemoveAt(subs, k)
    BY <1>5 DEF I!DeleteSub, I!SetSubs
  <2>2. /\ subs' \in Seq(I!Sub) /\ DOMAIN subs' = 1..(n - 1)
        /\ \A i \in 1..(n - 1) : subs'[i] = IF i < k THEN subs[i] ELSE subs[i + 1]
    <3>1. /\ subs' \in Seq(I!Sub) /\ Len(subs') = n - 1
          /\ \A i \in 1..(n - 1) : subs'[i] = IF i < k THEN subs[i] ELSE subs[i + 1]
      BY <2>1, TakenOut DEF SubTypes
    <3>. QED BY <3>1, LenProperties
  <2>3. \A i \in 1..(n - 1) : i \in 1..n /\ i + 1 \in 1..n
    BY <1>1
  <2>4. ASSUME NEW i \in 1..(n - 1), NEW j \in 1..(n - 1),
               subs'[i].name = subs'[j].name \/ subs'[i].id = subs'[j].id
        PROVE  i = j
    <3>. DEFINE at(m) == IF m < k THEN m ELSE m + 1
    <3>1. subs'[i] = subs[at(i)] /\ subs'[j] = subs[at(j)] /\ at(i) \in DOMAIN subs /\ at(j) \in DOMAIN subs
      BY <1>1, <2>2, <2>3
    <3>2. at(i) = at(j)
      BY <2>4, <3>1 DEF SubsApart
    <3>. QED BY <1>1, <2>1, <3>2
  <2>. QED BY <2>2, <2>4 DEF SubTypes, SubsApart
<1>. QED BY <1>2, <1>3, <1>4, <1>5 DEF I!handleWebhook

-----------------------------------------------------------------------------
(* Dispatches and deliveries *)

\* A subscriber whose turn ends is recorded, or an alarm tells, or the write of
\* both failed.
TurnsEnd == \A j \in Jobs :
  jobs[j] # I!Free /\ jobs'[j].left # jobs[j].left =>
    \/ /\ deliveries' # <<>>
       /\ I!Last(deliveries').job = j /\ I!Last(deliveries').sub = Head(jobs[j].left)
    \/ I!ActiveAlarms(I!Dispatcher)' # {}
    \/ failures' = failures + 1

LEMMA LoggedRests ==
  ASSUME deliveries' = deliveries, saved' = saved
  PROVE  Logged' = Logged /\ \A j : Visited(j)' = Visited(j)
BY DEF Logged, Visited, RecordsIn

LEMMA ToursRest ==
  ASSUME ToursKept, deliveries' = deliveries, jobs' = jobs, received' = received, saved' = saved
  PROVE  ToursKept' /\ TurnsEnd
<1>1. TourTypes'
  BY DEF ToursKept, TourTypes, IncidentOf
<1>2. Logged' = Logged /\ \A j : Visited(j)' = Visited(j)
  BY LoggedRests
<1>3. ToursRight' /\ AllTold'
  BY <1>2 DEF ToursKept, ToursRight, AllTold, Told
<1>. QED BY <1>1, <1>3 DEF ToursKept, TurnsEnd

LEMMA RecordsAre == ASSUME TourTypes PROVE Logged \subseteq I!Record
<1>1. ASSUME NEW s \in Seq(I!Record) PROVE RecordsIn(s) \subseteq I!Record
  BY ElementOfSeq, LenProperties DEF RecordsIn
<1>2. \A d \in saved : d.deliveries \in Seq(I!Record)
  BY DEF TourTypes, IncidentOf
<1>. QED BY <1>1, <1>2 DEF Logged, TourTypes

LEMMA CallbackMoves ==
  ASSUME CallbackTypes, NEW k \in IncidentKinds, NEW at \in {"idle", "raise", "dispatch"},
         callback' = [callback EXCEPT ![k] = at]
  PROVE  callback' \in [IncidentKinds -> {"idle", "raise", "dispatch"}]
  BY DEF CallbackTypes

LEMMA WritesFail ==
  ASSUME IncidentAssumption, CallbackTypes, I!WriteFails
  PROVE  failures' \in 0..MaxFailures /\ failures' = failures + 1
  BY DEF IncidentAssumption, CallbackTypes, I!WriteFails

\* The targets of an event are subscriptions, each once (Dispatch).
LEMMA TargetsFit ==
  ASSUME SubsKept, NEW k
  PROVE  /\ I!Targets(k) \in Seq(SubIds)
         /\ \A m, n \in DOMAIN I!Targets(k) : I!Targets(k)[m] = I!Targets(k)[n] => m = n
<1>. DEFINE ids == [i \in DOMAIN subs |-> subs[i].id]
            K == {i \in DOMAIN subs : subs[i].enabled /\ k \in subs[i].events}
            t == SomeOf(ids, K)
<1>1. I!Targets(k) = t
  BY DEF I!Targets, I!Among, I!Rank, I!Cardinality, SomeOf, RankOf, Cardinality
<1>2. /\ Len(subs) \in Nat /\ DOMAIN subs = 1..Len(subs)
      /\ \A i \in DOMAIN subs : subs[i].id \in SubIds
  BY SubShape DEF SubsKept
<1>3. ids \in Seq(SubIds) /\ DOMAIN ids = 1..Len(subs) /\ K \subseteq DOMAIN ids
      /\ \A i \in DOMAIN subs : ids[i] = subs[i].id
  BY <1>2, IsASeq
<1>4. \A i, h \in DOMAIN subs : ids[i] = ids[h] => i = h
  BY <1>3 DEF SubsKept, SubsApart
<1>5. K \subseteq DOMAIN subs
  OBVIOUS
<1>. HIDE DEF ids, K
<1>6. /\ t \in Seq(SubIds)
      /\ \A n \in DOMAIN t : \E i \in K : t[n] = ids[i] /\ RankOf(K, i) = n
  BY <1>3, Collected
<1>7. \A m, n \in DOMAIN t : t[m] = t[n] => m = n
  <2>1. SUFFICES ASSUME NEW m \in DOMAIN t, NEW n \in DOMAIN t, t[m] = t[n] PROVE m = n
    OBVIOUS
  <2>. HIDE DEF t
  <2>2. PICK i \in K : t[m] = ids[i] /\ RankOf(K, i) = m
    BY <1>6
  <2>3. PICK h \in K : t[n] = ids[h] /\ RankOf(K, h) = n
    BY <1>6
  <2>4. i = h
    BY <1>4, <1>5, <2>1, <2>2, <2>3
  <2>. QED BY <2>2, <2>3, <2>4
<1>. QED BY <1>1, <1>6, <1>7

\* What changes when one dispatch moves.
LEMMA OneTour ==
  ASSUME jobs \in [Jobs -> Tour \cup {I!Free}], NEW j \in Jobs, NEW r \in Tour,
         jobs' = [jobs EXCEPT ![j] = r]
  PROVE  /\ jobs' \in [Jobs -> Tour \cup {I!Free}] /\ jobs'[j] = r
         /\ \A d \in Jobs \ {j} : jobs'[d] = jobs[d]
  OBVIOUS

LEMMA Dispatches ==
  ASSUME IncidentAssumption, IncidentInv, NEW k \in IncidentKinds, I!Dispatch(k),
         saved' = saved
  PROVE  ToursKept' /\ TurnsEnd
<1>1. deliveries' = deliveries /\ received' = received
  BY DEF I!Dispatch
<1>2. CASE I!Targets(k) = <<>>
  <2>1. jobs' = jobs
    BY <1>2 DEF I!Dispatch
  <2>. QED BY <1>1, <2>1, ToursRest DEF IncidentInv
<1>3. CASE I!Targets(k) # <<>>
  <2>1. PICK j \in Jobs : jobs[j] = I!Free /\ jobs' = [jobs EXCEPT ![j] = I!Job(I!Targets(k))]
    BY <1>3 DEF I!Dispatch
  <2>2. Logged' = Logged /\ \A d : Visited(d)' = Visited(d)
    BY <1>1, LoggedRests
  <2>3. Visited(j) = {} /\ \A s \in SubIds : received[j][s] = 0
    BY <2>1 DEF IncidentInv, ToursKept, ToursRight, OnTour
  <2>4. PICK t \in Seq(SubIds) : t = I!Targets(k)
    BY TargetsFit DEF IncidentInv
  <2>5. \A m, n \in DOMAIN t : t[m] = t[n] => m = n
    BY <2>4, TargetsFit DEF IncidentInv
  <2>6. \A n \in DOMAIN t : t[n] \in SubIds
    BY LenProperties
  <2>7. I!Job(t) \in Tour /\ OnTour(I!Job(t), received[j], Visited(j))
    BY <1>3, <2>3, <2>4, <2>5, <2>6, TourStarts
  <2>8. /\ jobs' \in [Jobs -> Tour \cup {I!Free}] /\ jobs'[j] = I!Job(t)
        /\ \A d \in Jobs \ {j} : jobs'[d] = jobs[d]
    BY <2>1, <2>4, <2>7, OneTour DEF IncidentInv, ToursKept, TourTypes
  <2>9. TourTypes'
    BY <1>1, <2>8 DEF IncidentInv, ToursKept, TourTypes, IncidentOf
  <2>10. ToursRight'
    <3>1. SUFFICES ASSUME NEW d \in Jobs PROVE OnTour(jobs'[d], received[d], Visited(d))
      BY <1>1, <2>2 DEF ToursRight, OnTour
    <3>2. CASE d = j
      BY <2>7, <2>8, <3>2
    <3>3. CASE d # j
      BY <2>8, <3>3 DEF IncidentInv, ToursKept, ToursRight
    <3>. QED BY <3>2, <3>3
  <2>11. AllTold'
    BY <1>1, <2>2 DEF IncidentInv, ToursKept, AllTold, Told
  <2>12. TurnsEnd
    BY <2>1, <2>8 DEF TurnsEnd
  <2>. QED BY <2>9, <2>10, <2>11, <2>12 DEF ToursKept
<1>. QED BY <1>2, <1>3

\* A dispatch under way that is not over is at a subscriber.
LEMMA AtOne ==
  ASSUME ToursKept, NEW j \in Jobs, jobs[j].at \in {"post", "wait", "record", "report"}
  PROVE  /\ jobs[j] \in Tour /\ jobs[j] # I!Free /\ jobs[j].left \in Seq(SubIds) /\ jobs[j].left # <<>>
         /\ 1 \in DOMAIN jobs[j].left /\ Head(jobs[j].left) = jobs[j].left[1]
         /\ jobs[j].left[1] \in SubIds
         /\ OnTour(jobs[j], received[j], Visited(j))
         /\ received[j] \in [SubIds -> 0..MaxRetries]
<1>1. jobs[j] \in Tour /\ jobs[j] # I!Free
  BY TourShape DEF ToursKept, TourTypes
<1>2. OnTour(jobs[j], received[j], Visited(j)) /\ received[j] \in [SubIds -> 0..MaxRetries]
  BY DEF ToursKept, TourTypes, ToursRight
<1>3. jobs[j].left \in Seq(SubIds) /\ jobs[j].left # <<>>
  BY <1>1, <1>2, TourShape DEF OnTour
<1>4. 1 \in DOMAIN jobs[j].left /\ jobs[j].left[1] \in SubIds
  BY <1>3, LenProperties, EmptySeq
<1>5. Head(jobs[j].left) = jobs[j].left[1]
  BY <1>3
<1>. QED BY <1>1, <1>2, <1>3, <1>4, <1>5

\* One attempt at the subscriber h, in the dispatch r: what r and the posts q
\* become.
LEMMA TourPosts ==
  ASSUME IncidentAssumption, NEW r \in Tour, r.at = "post", NEW q \in [SubIds -> 0..MaxRetries], NEW V,
         OnTour(r, q, V), r.left # <<>>,
         NEW p, p \in [SubIds -> Nat],
         p[r.left[1]] \in {q[r.left[1]], q[r.left[1]] + 1},
         \A s \in SubIds \ {r.left[1]} : p[s] = q[s],
         NEW e \in Tour, e.left = r.left, e.attempt = r.attempt,
         \/ e.at = "record" /\ e.ok = TRUE /\ p[r.left[1]] = q[r.left[1]] + 1
         \/ e.at = "record" /\ e.ok = FALSE /\ r.attempt = MaxRetries
         \/ e.at = "wait" /\ e.ok = FALSE /\ r.attempt # MaxRetries
  PROVE  OnTour(e, p, V) /\ p \in [SubIds -> 0..MaxRetries]
<1>. DEFINE s == r.left
            h == s[1]
<1>1. /\ s \in Seq(SubIds) /\ 1 \in DOMAIN s /\ DOMAIN s = 1..Len(s) /\ Len(s) \in Nat /\ h \in SubIds
      /\ \A n \in DOMAIN s : s[n] \in SubIds
      /\ r.attempt \in 1..MaxRetries /\ MaxRetries \in Nat
  BY TourShape, LenProperties, EmptySeq DEF IncidentAssumption
<1>2. /\ \A m, n \in DOMAIN s : s[m] = s[n] => m = n
      /\ \A n \in DOMAIN s : s[n] \notin V /\ (n > 1 => q[s[n]] = 0)
      /\ q[h] < r.attempt /\ q[h] \in Nat
  BY <1>1 DEF OnTour
<1>3. p[h] \in Nat /\ p[h] <= r.attempt /\ p[h] <= MaxRetries
  BY <1>1, <1>2
<1>4. p \in [SubIds -> 0..MaxRetries]
  <2>1. \A x \in SubIds : p[x] \in 0..MaxRetries
    <3>1. \A x \in SubIds \ {h} : p[x] \in 0..MaxRetries
      OBVIOUS
    <3>2. p[h] \in 0..MaxRetries
      BY <1>1, <1>3
    <3>. QED BY <3>1, <3>2
  <2>. QED BY <2>1
<1>5. \A n \in DOMAIN s : n > 1 => p[s[n]] = 0
  <2>1. ASSUME NEW n \in DOMAIN s, n > 1, s[n] = h PROVE FALSE
    <3>1. n = 1
      BY <1>1, <1>2, <2>1
    <3>. QED BY <2>1, <3>1
  <2>2. \A n \in DOMAIN s : n > 1 => s[n] # h
    BY <2>1
  <2>. QED BY <1>1, <1>2, <2>2
<1>6. e.left # <<>> /\ e # I!Free
  BY TourShape
<1>9. /\ e.attempt = r.attempt /\ e.at # "report" /\ (e.at = "record" => e.ok \in BOOLEAN)
      /\ e.at = "record" /\ e.ok => p[h] = q[h] + 1
      /\ e.at = "record" /\ ~e.ok => r.attempt = MaxRetries
      /\ e.at = "wait" => ~e.ok /\ r.attempt # MaxRetries
      /\ e.at # "post"
  OBVIOUS
<1>7. e.at \in {"record", "report"} =>
        p[h] <= e.attempt /\ (e.ok => p[h] > 0) /\ (~e.ok => e.attempt = MaxRetries)
  BY <1>2, <1>3, <1>9
<1>8. e.at = "wait" => ~e.ok /\ p[h] <= e.attempt /\ e.attempt < MaxRetries
  BY <1>1, <1>3, <1>9
<1>10. e.at # "over"
  OBVIOUS
<1>. QED BY <1>2, <1>4, <1>5, <1>6, <1>7, <1>8, <1>9, <1>10 DEF OnTour

\* The record of one dispatch, and the posts it made, leave the others alone.
LEMMA OthersPosts ==
  ASSUME ToursKept, NEW j \in Jobs, jobs[j].at = "post", deliveries' = deliveries, saved' = saved,
         received' \in [Jobs -> [SubIds -> 0..MaxRetries]],
         \A d \in Jobs \ {j} : received'[d] = received[d],
         \A s \in SubIds \ {jobs[j].left[1]} : received'[j][s] = received[j][s]
  PROVE  AllTold'
<1>1. Logged' = Logged
  BY LoggedRests
<1>2. ASSUME NEW d \in Logged PROVE Told(d)'
  <2>1. d \in I!Record /\ Told(d)
    <3>1. d \in I!Record
      BY RecordsAre DEF ToursKept
    <3>. QED BY <3>1 DEF ToursKept, AllTold
  <2>2. d.job \in Jobs /\ d.sub \in SubIds
    BY <2>1 DEF I!Record
  <2>3. received'[d.job][d.sub] = received[d.job][d.sub]
    <3>1. CASE d.job # j
      BY <2>2, <3>1
    <3>2. CASE d.job = j
      <4>1. d.sub \in Visited(j)
        BY <3>2 DEF Visited
      <4>2. d.sub # jobs[j].left[1]
        BY <4>1, AtOne DEF OnTour
      <4>. QED BY <2>2, <3>2, <4>2
    <3>. QED BY <3>1, <3>2
  <2>. QED BY <2>1, <2>3 DEF Told
<1>. QED BY <1>1, <1>2 DEF AllTold

LEMMA Posts ==
  ASSUME IncidentAssumption, ToursKept, NEW j \in Jobs, I!Post(j), saved' = saved
  PROVE  ToursKept' /\ TurnsEnd
<1>. DEFINE r == jobs[j]
            h == r.left[1]
            q == received[j]
<1>1. /\ r.at = "post" /\ deliveries' = deliveries
  BY DEF I!Post, I!At
<1>2. /\ r \in Tour /\ r # I!Free /\ r.left # <<>> /\ Head(r.left) = h /\ h \in SubIds
      /\ OnTour(r, q, Visited(j)) /\ q \in [SubIds -> 0..MaxRetries]
  BY <1>1, AtOne
<1>3. received \in [Jobs -> [SubIds -> 0..MaxRetries]] /\ jobs \in [Jobs -> Tour \cup {I!Free}]
      /\ MaxRetries \in Nat /\ r.attempt \in 1..MaxRetries
  BY <1>2, TourShape DEF ToursKept, TourTypes, IncidentAssumption
<1>4. PICK e \in Tour :
        /\ jobs' = [jobs EXCEPT ![j] = e] /\ e.left = r.left /\ e.attempt = r.attempt
        /\ \/ e.at = "record" /\ e.ok = TRUE /\ I!Reaches(j)
           \/ /\ e.ok = FALSE /\ (I!Reaches(j) \/ UNCHANGED received)
              /\ e.at = IF r.attempt = MaxRetries THEN "record" ELSE "wait"
  <2>1. CASE I!Reaches(j) /\ jobs' = [jobs EXCEPT ![j].at = "record", ![j].ok = TRUE]
    <3>1. /\ [r EXCEPT !.at = "record", !.ok = TRUE] \in Tour
          /\ [r EXCEPT !.at = "record", !.ok = TRUE].left = r.left
          /\ [r EXCEPT !.at = "record", !.ok = TRUE].attempt = r.attempt
          /\ [r EXCEPT !.at = "record", !.ok = TRUE].at = "record"
          /\ [r EXCEPT !.at = "record", !.ok = TRUE].ok = TRUE
      BY <1>2 DEF Tour
    <3>2. jobs' = [jobs EXCEPT ![j] = [r EXCEPT !.at = "record", !.ok = TRUE]]
      BY <1>3, <2>1
    <3>. QED BY <2>1, <3>1, <3>2, Zenon
  <2>2. CASE /\ I!Reaches(j) \/ UNCHANGED received
             /\ jobs' = [jobs EXCEPT ![j].at = IF jobs[j].attempt = MaxRetries THEN "record" ELSE "wait"]
    <3>. DEFINE to == IF r.attempt = MaxRetries THEN "record" ELSE "wait"
    <3>1. to \in {"record", "wait"} /\ r.ok = FALSE
      BY <1>1, <1>2, TourShape DEF OnTour
    <3>2. jobs' = [jobs EXCEPT ![j] = [r EXCEPT !.at = to]]
      BY <1>3, <2>2
    <3>. HIDE DEF to
    <3>3. /\ [r EXCEPT !.at = to] \in Tour
          /\ [r EXCEPT !.at = to].left = r.left
          /\ [r EXCEPT !.at = to].attempt = r.attempt
          /\ [r EXCEPT !.at = to].at = to
          /\ [r EXCEPT !.at = to].ok = r.ok
      BY <1>2, <3>1 DEF Tour
    <3>. QED BY <2>2, <3>1, <3>2, <3>3, Zenon DEF to
  <2>. QED BY <2>1, <2>2 DEF I!Post
<1>5. /\ received'[j] \in [SubIds -> Nat] /\ received'[j][h] \in {q[h], q[h] + 1}
      /\ \A s \in SubIds \ {h} : received'[j][s] = q[s]
      /\ \A d \in Jobs \ {j} : received'[d] = received[d]
      /\ received' \in [Jobs -> [SubIds -> Nat]]
      /\ I!Reaches(j) => received'[j][h] = q[h] + 1
  <2>1. CASE UNCHANGED received /\ ~I!Reaches(j)
    BY <1>2, <1>3, <2>1
  <2>2. CASE I!Reaches(j)
    <3>1. received' = [received EXCEPT ![j] = [q EXCEPT ![h] = q[h] + 1]]
      BY <1>2, <1>3, <2>2 DEF I!Reaches
    <3>2. [q EXCEPT ![h] = q[h] + 1] \in [SubIds -> Nat]
          /\ [q EXCEPT ![h] = q[h] + 1][h] = q[h] + 1
          /\ \A s \in SubIds \ {h} : [q EXCEPT ![h] = q[h] + 1][s] = q[s]
      BY <1>2, <1>3
    <3>3. received'[j] = [q EXCEPT ![h] = q[h] + 1] /\ \A d \in Jobs \ {j} : received'[d] = received[d]
      BY <1>3, <3>1
    <3>4. received' \in [Jobs -> [SubIds -> Nat]]
      <4>1. \A d \in Jobs : received[d] \in [SubIds -> Nat]
        BY <1>3
      <4>2. received \in [Jobs -> [SubIds -> Nat]]
        BY <1>3, <4>1
      <4>. QED BY <3>1, <3>2, <4>2
    <3>. QED BY <2>2, <3>2, <3>3, <3>4
  <2>. QED BY <1>4, <2>1, <2>2
<1>6. OnTour(e, received'[j], Visited(j)) /\ received'[j] \in [SubIds -> 0..MaxRetries]
  <2>1. \/ e.at = "record" /\ e.ok = TRUE /\ received'[j][h] = q[h] + 1
        \/ e.at = "record" /\ e.ok = FALSE /\ r.attempt = MaxRetries
        \/ e.at = "wait" /\ e.ok = FALSE /\ r.attempt # MaxRetries
    BY <1>4, <1>5
  <2>. HIDE DEF r, q
  <2>2. h \in SubIds /\ r.left[1] = h
    BY <1>2
  <2>3. r \in Tour /\ r.at = "post" /\ q \in [SubIds -> 0..MaxRetries] /\ OnTour(r, q, Visited(j))
    BY <1>1, <1>2
  <2>4. PICK p \in [SubIds -> Nat] : p = received'[j]
    BY <1>5
  <2>5. /\ p[r.left[1]] \in {q[r.left[1]], q[r.left[1]] + 1}
        /\ \A s \in SubIds \ {r.left[1]} : p[s] = q[s]
        /\ \/ e.at = "record" /\ e.ok = TRUE /\ p[r.left[1]] = q[r.left[1]] + 1
           \/ e.at = "record" /\ e.ok = FALSE /\ r.attempt = MaxRetries
           \/ e.at = "wait" /\ e.ok = FALSE /\ r.attempt # MaxRetries
    BY <1>5, <2>1, <2>4
  <2>6. r.left # <<>> /\ e.left = r.left /\ e.attempt = r.attempt
    BY <1>2, <1>4
  <2>7. OnTour(e, p, Visited(j)) /\ p \in [SubIds -> 0..MaxRetries]
    BY <2>3, <2>5, <2>6, TourPosts
  <2>. QED BY <2>4, <2>7
<1>7. received' \in [Jobs -> [SubIds -> 0..MaxRetries]]
  BY <1>3, <1>5, <1>6
<1>8. /\ jobs' \in [Jobs -> Tour \cup {I!Free}] /\ jobs'[j] = e
      /\ \A d \in Jobs \ {j} : jobs'[d] = jobs[d]
  BY <1>3, <1>4, OneTour
<1>9. TourTypes'
  BY <1>1, <1>7, <1>8 DEF ToursKept, TourTypes, IncidentOf
<1>10. ToursRight'
  <2>1. \A d : Visited(d)' = Visited(d)
    BY <1>1, LoggedRests
  <2>2. SUFFICES ASSUME NEW d \in Jobs PROVE OnTour(jobs'[d], received'[d], Visited(d))
    BY <2>1 DEF ToursRight, OnTour
  <2>3. CASE d = j
    BY <1>6, <1>8, <2>3
  <2>4. CASE d # j
    BY <1>5, <1>8, <2>4 DEF ToursKept, ToursRight
  <2>. QED BY <2>3, <2>4
<1>11. AllTold'
  BY <1>1, <1>5, <1>7, OthersPosts
<1>12. TurnsEnd
  BY <1>4, <1>8 DEF TurnsEnd
<1>. QED BY <1>9, <1>10, <1>11, <1>12 DEF ToursKept

LEMMA Retries ==
  ASSUME IncidentAssumption, ToursKept, NEW j \in Jobs, I!WaitRetry(j), saved' = saved
  PROVE  ToursKept' /\ TurnsEnd
<1>. DEFINE r == jobs[j]
            e == [r EXCEPT !.at = "post", !.attempt = r.attempt + 1]
<1>1. /\ r.at = "wait" /\ deliveries' = deliveries /\ received' = received
      /\ jobs' = [jobs EXCEPT ![j].at = "post", ![j].attempt = @ + 1]
  BY DEF I!WaitRetry, I!At
<1>2. /\ r \in Tour /\ OnTour(r, received[j], Visited(j)) /\ r # I!Free
      /\ received[j] \in [SubIds -> 0..MaxRetries] /\ r.left[1] \in SubIds /\ r.left # <<>>
  BY <1>1, AtOne
<1>3. r.attempt \in 1..MaxRetries /\ MaxRetries \in Nat /\ r.attempt < MaxRetries /\ ~r.ok /\ r.ok \in BOOLEAN
      /\ received[j][r.left[1]] <= r.attempt /\ received[j][r.left[1]] \in Nat
  BY <1>1, <1>2, TourShape DEF OnTour, IncidentAssumption
<1>4. e \in Tour /\ e.at = "post" /\ e.attempt = r.attempt + 1 /\ e.left = r.left /\ e.ok = r.ok
  <2>. DEFINE n == r.attempt + 1
  <2>1. n \in 1..MaxRetries
    BY <1>3
  <2>. HIDE DEF n
  <2>2. [r EXCEPT !.at = "post", !.attempt = n] \in Tour
    BY <1>2, <2>1 DEF Tour
  <2>3. /\ [r EXCEPT !.at = "post", !.attempt = n].at = "post"
        /\ [r EXCEPT !.at = "post", !.attempt = n].attempt = n
        /\ [r EXCEPT !.at = "post", !.attempt = n].left = r.left
        /\ [r EXCEPT !.at = "post", !.attempt = n].ok = r.ok
    BY <1>2 DEF Tour
  <2>. QED BY <2>2, <2>3 DEF n
<1>5. jobs' = [jobs EXCEPT ![j] = e]
  BY <1>1 DEF ToursKept, TourTypes
<1>. HIDE DEF e
<1>6. /\ jobs' \in [Jobs -> Tour \cup {I!Free}] /\ jobs'[j] = e
      /\ \A d \in Jobs \ {j} : jobs'[d] = jobs[d]
  BY <1>4, <1>5, OneTour DEF ToursKept, TourTypes
<1>7. OnTour(e, received[j], Visited(j))
  <2>1. received[j][e.left[1]] < e.attempt /\ ~e.ok /\ e # I!Free
    BY <1>3, <1>4, TourShape
  <2>. QED BY <1>2, <1>4, <2>1 DEF OnTour
<1>8. TourTypes'
  BY <1>1, <1>6 DEF ToursKept, TourTypes, IncidentOf
<1>9. ToursRight'
  <2>1. \A d : Visited(d)' = Visited(d)
    BY <1>1, LoggedRests
  <2>2. SUFFICES ASSUME NEW d \in Jobs PROVE OnTour(jobs'[d], received'[d], Visited(d))
    BY <2>1 DEF ToursRight, OnTour
  <2>3. CASE d = j
    BY <1>1, <1>6, <1>7, <2>3
  <2>4. CASE d # j
    BY <1>1, <1>6, <2>4 DEF ToursKept, ToursRight
  <2>. QED BY <2>3, <2>4
<1>10. AllTold'
  BY <1>1, LoggedRests DEF ToursKept, AllTold, Told
<1>11. TurnsEnd
  BY <1>4, <1>6 DEF TurnsEnd
<1>. QED BY <1>8, <1>9, <1>10, <1>11 DEF ToursKept

\* record appends and keeps the last MaxHistory records.
LEMMA RolledUp ==
  ASSUME IncidentAssumption, TourTypes, NEW d \in I!Record, saved' = saved,
         deliveries' = I!Rolled(Append(deliveries, d))
  PROVE  /\ deliveries' \in Seq(I!Record) /\ Len(deliveries') <= MaxHistory
         /\ deliveries' # <<>> /\ I!Last(deliveries') = d
         /\ Logged' \subseteq Logged \cup {d}
<1>. DEFINE n == Len(deliveries)
            s == Append(deliveries, d)
<1>1. n \in Nat /\ DOMAIN deliveries = 1..n /\ n <= MaxHistory /\ MaxHistory \in Nat \ {0}
  BY LenProperties DEF TourTypes, IncidentAssumption
<1>2. /\ s \in Seq(I!Record) /\ Len(s) = n + 1 /\ DOMAIN s = 1..(n + 1)
      /\ \A i \in 1..n : s[i] = deliveries[i]
      /\ s[n + 1] = d
  <2>1. /\ s \in Seq(I!Record) /\ Len(s) = n + 1 /\ s[n + 1] = d
        /\ \A i \in 1..n : s[i] = deliveries[i]
    BY AppendProperties DEF TourTypes
  <2>. QED BY <2>1, LenProperties
<1>. HIDE DEF s
<1>0. RecordsIn(deliveries') \subseteq Logged \cup {d} => Logged' \subseteq Logged \cup {d}
  BY DEF Logged, RecordsIn
<1>3. \A i \in 1..(n + 1) : s[i] \in Logged \cup {d} /\ s[i] \in I!Record
  <2>1. \A i \in 1..(n + 1) : i \in 1..n \/ i = n + 1
    BY <1>1
  <2>2. \A i \in 1..n : s[i] \in Logged
    BY <1>1, <1>2 DEF Logged, RecordsIn
  <2>3. \A i \in 1..(n + 1) : s[i] \in I!Record
    BY <1>2, ElementOfSeq
  <2>. QED BY <1>2, <2>1, <2>2, <2>3
<1>4. CASE n + 1 <= MaxHistory
  <2>1. deliveries' = s
    BY <1>1, <1>2, <1>4 DEF I!Rolled, s
  <2>2. Logged' \subseteq Logged \cup {d}
    BY <1>0, <1>2, <1>3, <2>1 DEF RecordsIn
  <2>3. deliveries' # <<>> /\ I!Last(deliveries') = d
    BY <1>1, <1>2, <2>1, EmptySeq DEF I!Last
  <2>. QED BY <1>2, <1>4, <2>1, <2>2, <2>3
<1>5. CASE ~(n + 1 <= MaxHistory)
  <2>. DEFINE m == n + 1 - MaxHistory + 1
  <2>1. deliveries' = SubSeq(s, m, n + 1) /\ m \in 1..(n + 1) /\ n + 1 - m + 1 = MaxHistory
        /\ m \in Int /\ n + 1 \in Int
    <3>1. m \in 1..(n + 1) /\ n + 1 - m + 1 = MaxHistory /\ m \in Int /\ n + 1 \in Int
      BY <1>1, <1>5
    <3>2. Len(s) > MaxHistory /\ Len(s) - MaxHistory + 1 = m
      BY <1>1, <1>2, <1>5
    <3>3. deliveries' = I!Rolled(s)
      BY DEF s
    <3>4. I!Rolled(s) = SubSeq(s, Len(s) - MaxHistory + 1, Len(s))
      BY <3>2 DEF I!Rolled
    <3>. QED BY <1>2, <3>1, <3>2, <3>3, <3>4
  <2>2. \A i \in m..(n + 1) : s[i] \in I!Record
    BY <1>1, <1>3, <2>1
  <2>3. /\ SubSeq(s, m, n + 1) \in Seq(I!Record)
        /\ Len(SubSeq(s, m, n + 1)) = IF m <= n + 1 THEN n + 1 - m + 1 ELSE 0
        /\ \A i \in 1..(n + 1 - m + 1) : SubSeq(s, m, n + 1)[i] = s[m + i - 1]
    <3>. HIDE DEF m
    <3>. QED BY <2>1, <2>2, SubSeqProperties
  <2>4. /\ deliveries' \in Seq(I!Record) /\ Len(deliveries') = MaxHistory
        /\ DOMAIN deliveries' = 1..MaxHistory
        /\ \A i \in 1..MaxHistory : deliveries'[i] = s[m + i - 1] /\ m + i - 1 \in 1..(n + 1)
    <3>1. deliveries' \in Seq(I!Record) /\ Len(deliveries') = MaxHistory
      BY <2>1, <2>3
    <3>2. DOMAIN deliveries' = 1..MaxHistory
      BY <3>1, LenProperties
    <3>3. \A i \in 1..MaxHistory : m + i - 1 \in 1..(n + 1)
      BY <1>1, <2>1
    <3>4. \A i \in 1..MaxHistory : deliveries'[i] = s[m + i - 1]
      BY <2>1, <2>3
    <3>. QED BY <3>1, <3>2, <3>3, <3>4
  <2>5. Logged' \subseteq Logged \cup {d}
    BY <1>0, <1>3, <2>4 DEF RecordsIn
  <2>6. MaxHistory \in 1..MaxHistory /\ m + MaxHistory - 1 = n + 1
    BY <1>1
  <2>7. deliveries' # <<>> /\ I!Last(deliveries') = d
    <3>1. deliveries'[MaxHistory] = d
      BY <1>2, <2>4, <2>6
    <3>2. I!Last(deliveries') = deliveries'[MaxHistory]
      BY <2>4 DEF I!Last
    <3>3. deliveries' # <<>>
      BY <2>4, <2>6
    <3>. QED BY <3>1, <3>2, <3>3
  <2>. QED BY <1>1, <2>4, <2>5, <2>7
<1>. QED BY <1>4, <1>5

LEMMA FewerVisited ==
  ASSUME NEW r \in Tour \cup {I!Free}, NEW q, NEW V, NEW W, OnTour(r, q, V), W \subseteq V
  PROVE  OnTour(r, q, W)
<1>1. r = I!Free => W = {} /\ \A s \in SubIds : q[s] = 0
  BY DEF OnTour
<1>2. \A n \in DOMAIN r.left : r \in Tour => r.left[n] \notin W
  BY DEF OnTour
<1>. QED BY <1>1, <1>2 DEF OnTour

LEMMA Records ==
  ASSUME IncidentAssumption, IncidentInv, NEW j \in Jobs, I!RecordOutcome(j),
         saved' = saved
  PROVE  ToursKept' /\ TurnsEnd
<1>. USE DEF IncidentInv
<1>. DEFINE r == jobs[j]
            d == [job |-> j, sub |-> Head(r.left), ok |-> r.ok, attempts |-> r.attempt]
<1>1. r.at = "record" /\ received' = received
  BY DEF I!RecordOutcome, I!At
<1>2. /\ r \in Tour /\ r # I!Free /\ r.left # <<>> /\ Head(r.left) = r.left[1] /\ r.left[1] \in SubIds
      /\ OnTour(r, received[j], Visited(j)) /\ received[j] \in [SubIds -> 0..MaxRetries]
  BY <1>1, AtOne
<1>3. CASE I!WriteFails /\ jobs' = [jobs EXCEPT ![j].at = "report"] /\ UNCHANGED deliveries
  <2>1. /\ [r EXCEPT !.at = "report"] \in Tour
        /\ [r EXCEPT !.at = "report"].at = "report" /\ [r EXCEPT !.at = "report"].left = r.left
        /\ [r EXCEPT !.at = "report"].ok = r.ok /\ [r EXCEPT !.at = "report"].attempt = r.attempt
    BY <1>2 DEF Tour
  <2>2. PICK e \in Tour : /\ jobs' = [jobs EXCEPT ![j] = e] /\ e.at = "report" /\ e.left = r.left
                          /\ e.ok = r.ok /\ e.attempt = r.attempt
    <3>1. jobs' = [jobs EXCEPT ![j] = [r EXCEPT !.at = "report"]]
      BY <1>3 DEF ToursKept, TourTypes
    <3>. QED BY <2>1, <3>1, Zenon
  <2>3. /\ jobs' \in [Jobs -> Tour \cup {I!Free}] /\ jobs'[j] = e
        /\ \A c \in Jobs \ {j} : jobs'[c] = jobs[c]
    BY <2>2, OneTour DEF ToursKept, TourTypes
  <2>4. OnTour(e, received[j], Visited(j))
    BY <1>1, <1>2, <2>2, TourShape DEF OnTour
  <2>5. TourTypes'
    BY <1>1, <1>3, <2>3 DEF ToursKept, TourTypes, IncidentOf
  <2>6. Logged' = Logged /\ \A c : Visited(c)' = Visited(c)
    BY <1>3, LoggedRests
  <2>7. ToursRight'
    <3>1. SUFFICES ASSUME NEW c \in Jobs PROVE OnTour(jobs'[c], received'[c], Visited(c))
      BY <2>6 DEF ToursRight, OnTour
    <3>2. CASE c = j
      BY <1>1, <2>3, <2>4, <3>2
    <3>3. CASE c # j
      BY <1>1, <2>3, <3>3 DEF ToursKept, ToursRight
    <3>. QED BY <3>2, <3>3
  <2>8. AllTold'
    BY <1>1, <2>6 DEF ToursKept, AllTold, Told
  <2>9. TurnsEnd
    BY <2>2, <2>3 DEF TurnsEnd
  <2>. QED BY <2>5, <2>7, <2>8, <2>9 DEF ToursKept
<1>4. CASE deliveries' = I!Rolled(Append(deliveries, d)) /\ jobs' = [jobs EXCEPT ![j] = I!NextTarget(j)]
  <2>1. /\ r.ok \in BOOLEAN /\ r.attempt \in 1..MaxRetries
        /\ received[j][r.left[1]] <= r.attempt
        /\ r.ok => received[j][r.left[1]] > 0
        /\ ~r.ok => r.attempt = MaxRetries
    BY <1>1, <1>2, TourShape DEF OnTour
  <2>2. d \in I!Record /\ d.job = j /\ d.sub = r.left[1] /\ d.ok = r.ok /\ d.attempts = r.attempt
    BY <1>2, <2>1 DEF I!Record
  <2>. HIDE DEF d
  <2>3. /\ deliveries' \in Seq(I!Record) /\ Len(deliveries') <= MaxHistory
        /\ deliveries' # <<>> /\ I!Last(deliveries') = d
        /\ Logged' \subseteq Logged \cup {d}
    BY <1>4, <2>2, RolledUp DEF ToursKept
  <2>4. AllTold'
    <3>1. Told(d)
      BY <2>1, <2>2 DEF Told
    <3>2. \A c \in Logged' : Told(c)
      BY <2>3, <3>1 DEF ToursKept, AllTold
    <3>. QED BY <1>1, <3>2 DEF AllTold, Told
  <2>5. Visited(j)' \subseteq Visited(j) \cup {Head(r.left)}
    BY <1>2, <2>2, <2>3 DEF Visited
  <2>6. \A c \in Jobs \ {j} : Visited(c)' \subseteq Visited(c)
    BY <2>2, <2>3 DEF Visited
  <2>7. I!NextTarget(j) \in Tour /\ OnTour(I!NextTarget(j), received[j], Visited(j)')
    BY <1>2, <2>5, TourGoesOn
  <2>8. /\ jobs' \in [Jobs -> Tour \cup {I!Free}] /\ jobs'[j] = I!NextTarget(j)
        /\ \A c \in Jobs \ {j} : jobs'[c] = jobs[c]
    BY <1>4, <2>7, OneTour DEF ToursKept, TourTypes
  <2>9. TourTypes'
    BY <1>1, <2>3, <2>8 DEF ToursKept, TourTypes, IncidentOf
  <2>10. ToursRight'
    <3>1. SUFFICES ASSUME NEW c \in Jobs PROVE OnTour(jobs'[c], received'[c], Visited(c)')
      BY DEF ToursRight, OnTour
    <3>2. CASE c = j
      BY <1>1, <2>7, <2>8, <3>2
    <3>3. CASE c # j
      <4>1. OnTour(jobs[c], received[c], Visited(c)) /\ jobs[c] \in Tour \cup {I!Free}
        BY DEF ToursKept, ToursRight, TourTypes
      <4>2. OnTour(jobs[c], received[c], Visited(c)')
        BY <2>6, <3>3, <4>1, FewerVisited
      <4>. QED BY <1>1, <2>8, <3>3, <4>2
    <3>. QED BY <3>2, <3>3
  <2>11. TurnsEnd
    BY <1>2, <2>2, <2>3, <2>8 DEF TurnsEnd
  <2>. QED BY <2>4, <2>9, <2>10, <2>11 DEF ToursKept
<1>. QED BY <1>3, <1>4 DEF I!RecordOutcome

LEMMA Reports ==
  ASSUME IncidentAssumption, IncidentInv, NEW j \in Jobs, I!ReportFailure(j),
         saved' = saved
  PROVE  AlarmsKept' /\ ToursKept' /\ failures' \in 0..MaxFailures /\ TurnsEnd
<1>. USE DEF IncidentInv
<1>1. /\ jobs[j].at = "report" /\ received' = received /\ deliveries' = deliveries
      /\ jobs' = [jobs EXCEPT ![j] = I!NextTarget(j)]
  BY DEF I!ReportFailure, I!At
<1>2. /\ jobs[j] \in Tour /\ jobs[j] # I!Free /\ jobs[j].left # <<>>
      /\ OnTour(jobs[j], received[j], Visited(j))
  BY <1>1, AtOne
<1>3. Logged' = Logged /\ \A c : Visited(c)' = Visited(c)
  BY <1>1, LoggedRests
<1>4. I!NextTarget(j) \in Tour /\ OnTour(I!NextTarget(j), received[j], Visited(j))
  <2>1. Visited(j) \subseteq Visited(j) \cup {Head(jobs[j].left)}
    OBVIOUS
  <2>. QED BY <1>2, <2>1, TourGoesOn
<1>5. /\ jobs' \in [Jobs -> Tour \cup {I!Free}] /\ jobs'[j] = I!NextTarget(j)
      /\ \A c \in Jobs \ {j} : jobs'[c] = jobs[c]
  BY <1>1, <1>4, OneTour DEF ToursKept, TourTypes
<1>6. TourTypes'
  BY <1>1, <1>5 DEF ToursKept, TourTypes, IncidentOf
<1>7. ToursRight'
  <2>1. SUFFICES ASSUME NEW c \in Jobs PROVE OnTour(jobs'[c], received'[c], Visited(c))
    BY <1>3 DEF ToursRight, OnTour
  <2>2. CASE c = j
    BY <1>1, <1>4, <1>5, <2>2
  <2>3. CASE c # j
    BY <1>1, <1>5, <2>3 DEF ToursKept, ToursRight
  <2>. QED BY <2>2, <2>3
<1>8. AllTold'
  BY <1>1, <1>3 DEF ToursKept, AllTold, Told
<1>9. /\ AlarmsKept' /\ failures' \in 0..MaxFailures
      /\ I!ActiveAlarms(I!Dispatcher)' # {} \/ failures' = failures + 1
  <2>1. CASE I!Raised(I!Dispatcher) /\ UNCHANGED failures
    <3>1. AlarmsKept' /\ I!ActiveAlarms(I!Dispatcher)' # {}
      BY <2>1, AlarmRaised DEF Keys
    <3>. QED BY <2>1, <3>1 DEF CallbackTypes
  <2>2. CASE I!WriteFails /\ UNCHANGED alarms
    <3>1. AlarmsKept'
      BY <2>2 DEF AlarmsKept, AlarmTypes, AlarmsApart, I!Has
    <3>. QED BY <2>2, <3>1, WritesFail
  <2>. QED BY <2>1, <2>2 DEF I!ReportFailure
<1>10. TurnsEnd
  BY <1>9 DEF TurnsEnd
<1>. QED BY <1>6, <1>7, <1>8, <1>9, <1>10 DEF ToursKept

LEMMA IncidentInit == ASSUME IncidentAssumption, I!Init, saved = {} PROVE IncidentInv
<1>1. /\ \A a \in AlarmIds : alarms[a] = None
      /\ DOMAIN alarms = AlarmIds /\ subs = <<>> /\ deliveries = <<>>
      /\ \A j \in Jobs : jobs[j] = I!Free /\ received[j] = [s \in SubIds |-> 0]
  BY DEF I!Init
<1>2. AlarmsKept
  <2>1. I!Has(alarms) = {}
    BY <1>1 DEF I!Has
  <2>. QED BY <2>1 DEF AlarmsKept, AlarmTypes, AlarmsApart, I!Init
<1>3. SubsKept
  <2>1. DOMAIN subs = {} /\ subs \in Seq(I!Sub)
    BY <1>1, EmptySeq
  <2>. QED BY <2>1 DEF SubsKept, SubTypes, SubsApart
<1>4. Logged = {}
  <2>1. DOMAIN deliveries = {}
    BY <1>1
  <2>. QED BY <2>1 DEF Logged, RecordsIn
<1>5. TourTypes
  <2>1. deliveries \in Seq(I!Record) /\ Len(deliveries) <= MaxHistory
    BY <1>1, EmptySeq DEF IncidentAssumption
  <2>2. jobs \in [Jobs -> Tour \cup {I!Free}]
    BY DEF I!Init
  <2>3. received \in [Jobs -> [SubIds -> 0..MaxRetries]]
    BY DEF I!Init, IncidentAssumption
  <2>. QED BY <2>1, <2>2, <2>3 DEF TourTypes
<1>6. ToursRight /\ AllTold
  <2>1. \A j \in Jobs : Visited(j) = {}
    BY <1>4 DEF Visited
  <2>2. \A j \in Jobs : OnTour(jobs[j], received[j], Visited(j))
    BY <1>1, <2>1, TourShape DEF OnTour
  <2>. QED BY <1>4, <2>2 DEF ToursRight, AllTold
<1>7. CallbackTypes
  BY DEF CallbackTypes, I!Init, IncidentAssumption
<1>. QED BY <1>2, <1>3, <1>5, <1>6, <1>7 DEF IncidentInv, ToursKept

LEMMA SameAlarms == ASSUME AlarmsKept, alarms' = alarms PROVE AlarmsKept'
  BY DEF AlarmsKept, AlarmTypes, AlarmsApart, I!Has
LEMMA SameSubs == ASSUME SubsKept, subs' = subs PROVE SubsKept'
  BY DEF SubsKept, SubTypes, SubsApart
LEMMA SameCallbacks ==
  ASSUME CallbackTypes, callback' = callback, incidents' = incidents, failures' = failures
  PROVE  CallbackTypes'
  BY DEF CallbackTypes

LEMMA CallbackStep ==
  ASSUME IncidentAssumption, IncidentInv, NEW k \in IncidentKinds,
         I!Incident(k) \/ I!CallbackRaises(k) \/ I!Dispatch(k), saved' = saved
  PROVE  IncidentInv' /\ TurnsEnd
<1>. USE DEF IncidentInv
<1>1. subs' = subs
  BY DEF I!Incident, I!CallbackRaises, I!Dispatch
<1>2. CASE I!Incident(k)
  <2>1. /\ alarms' = alarms /\ deliveries' = deliveries /\ jobs' = jobs /\ received' = received
        /\ failures' = failures /\ incidents < MaxIncidents /\ incidents' = incidents + 1
        /\ callback' = [callback EXCEPT ![k] = "raise"]
    BY <1>2 DEF I!Incident
  <2>2. CallbackTypes'
    BY <2>1, CallbackMoves DEF CallbackTypes, IncidentAssumption
  <2>. QED BY <1>1, <2>1, <2>2, SameAlarms, SameSubs, ToursRest
<1>3. CASE I!CallbackRaises(k)
  <2>1. /\ deliveries' = deliveries /\ jobs' = jobs /\ received' = received /\ incidents' = incidents
        /\ callback' = [callback EXCEPT ![k] = "dispatch"]
    BY <1>3 DEF I!CallbackRaises
  <2>2. AlarmsKept' /\ failures' \in 0..MaxFailures
    <3>1. CASE I!Raised(k) /\ UNCHANGED failures
      BY <3>1, AlarmRaised DEF Keys, CallbackTypes
    <3>2. CASE I!WriteFails /\ UNCHANGED alarms
      BY <3>2, SameAlarms, WritesFail
    <3>. QED BY <1>3, <3>1, <3>2 DEF I!CallbackRaises
  <2>3. CallbackTypes'
    BY <2>1, <2>2, CallbackMoves DEF CallbackTypes
  <2>. QED BY <1>1, <2>1, <2>2, <2>3, SameSubs, ToursRest
<1>4. CASE I!Dispatch(k)
  <2>1. /\ alarms' = alarms /\ failures' = failures /\ incidents' = incidents
        /\ callback' = [callback EXCEPT ![k] = "idle"]
    BY <1>4 DEF I!Dispatch
  <2>2. CallbackTypes'
    BY <2>1, CallbackMoves DEF CallbackTypes
  <2>. QED BY <1>1, <1>4, <2>1, <2>2, SameAlarms, SameSubs, Dispatches
<1>. QED BY <1>2, <1>3, <1>4

LEMMA DeliveryStep ==
  ASSUME IncidentAssumption, IncidentInv, NEW j \in Jobs, I!deliver(j),
         saved' = saved
  PROVE  IncidentInv' /\ TurnsEnd
<1>. USE DEF IncidentInv
<1>1. CASE I!Post(j)
  <2>1. subs' = subs /\ alarms' = alarms /\ callback' = callback /\ incidents' = incidents /\ failures' = failures
    BY <1>1 DEF I!Post
  <2>. QED BY <1>1, <2>1, Posts, SameAlarms, SameSubs, SameCallbacks
<1>2. CASE I!WaitRetry(j)
  <2>1. subs' = subs /\ alarms' = alarms /\ callback' = callback /\ incidents' = incidents /\ failures' = failures
    BY <1>2 DEF I!WaitRetry
  <2>. QED BY <1>2, <2>1, Retries, SameAlarms, SameSubs, SameCallbacks
<1>3. CASE I!RecordOutcome(j)
  <2>1. subs' = subs /\ alarms' = alarms /\ callback' = callback /\ incidents' = incidents
    BY <1>3 DEF I!RecordOutcome
  <2>2. failures' \in 0..MaxFailures
    BY <1>3, WritesFail DEF I!RecordOutcome, CallbackTypes
  <2>3. CallbackTypes'
    BY <2>1, <2>2 DEF CallbackTypes
  <2>. QED BY <1>3, <2>1, <2>3, Records, SameAlarms, SameSubs
<1>4. CASE I!ReportFailure(j)
  <2>1. subs' = subs /\ callback' = callback /\ incidents' = incidents
    BY <1>4 DEF I!ReportFailure
  <2>2. AlarmsKept' /\ ToursKept' /\ failures' \in 0..MaxFailures /\ TurnsEnd
    BY <1>4, Reports
  <2>3. CallbackTypes'
    BY <2>1, <2>2 DEF CallbackTypes
  <2>. QED BY <2>1, <2>2, <2>3, SameSubs
<1>. QED BY <1>1, <1>2, <1>3, <1>4 DEF I!deliver

LEMMA IncidentStep ==
  ASSUME IncidentAssumption, IncidentInv, [I!Next]_(I!incidentVars), saved' = saved
  PROVE  IncidentInv' /\ TurnsEnd
<1>. USE DEF IncidentInv
<1>1. CASE I!handleAlarm
  <2>1. UNCHANGED <<subs, deliveries, callback, jobs, received, incidents, failures>>
    BY <1>1 DEF I!handleAlarm, I!Raise, I!Resolve, I!ResolveAll, I!DeleteAlarm, I!PruneAlarms, I!RestOfAlarms
  <2>. QED BY <1>1, <2>1, AlarmEdited, SameSubs, SameCallbacks, ToursRest
<1>2. CASE I!handleWebhook
  <2>1. UNCHANGED <<alarms, deliveries, callback, jobs, received, incidents, failures>>
    BY <1>2 DEF I!handleWebhook, I!CreateSub, I!UpdateSub, I!EnableSub, I!DeleteSub, I!SetSubs
  <2>. QED BY <1>2, <2>1, SubEdited, SameAlarms, SameCallbacks, ToursRest
<1>3. CASE I!Callbacks
  BY <1>3, CallbackStep DEF I!Callbacks
<1>4. CASE I!Deliveries
  BY <1>4, DeliveryStep DEF I!Deliveries
<1>5. CASE UNCHANGED I!incidentVars
  <2>1. UNCHANGED <<alarms, subs, deliveries, callback, jobs, received, incidents, failures>>
    BY <1>5 DEF I!incidentVars
  <2>. QED BY <2>1, SameAlarms, SameSubs, SameCallbacks, ToursRest
<1>. QED BY <1>1, <1>2, <1>3, <1>4, <1>5 DEF I!Next

\* A document captured, and a document restored: no record is in either that is
\* not in one of those captured, or there already.
LEMMA IncidentCaptured ==
  ASSUME IncidentInv, ServicesRest, saved' = saved \cup {Document}
  PROVE  IncidentInv' /\ TurnsEnd
<1>. DEFINE d == Document
<1>1. d.alarms = alarms /\ d.subs = subs /\ d.deliveries = deliveries /\ saved' = saved \cup {d}
  BY Documents
<1>. HIDE DEF d
<1>2. UNCHANGED <<alarms, subs, deliveries, callback, jobs, received, incidents, failures>>
  BY DEF ServicesRest, incidentVars
<1>3. IncidentOf(d)
  BY <1>1 DEF IncidentInv, AlarmsKept, AlarmTypes, AlarmsApart, SubsKept, SubTypes, SubsApart,
              ToursKept, TourTypes, IncidentOf
<1>4. TourTypes'
  BY <1>1, <1>2, <1>3 DEF IncidentInv, ToursKept, TourTypes, IncidentOf
<1>5. Logged' = Logged /\ \A j : Visited(j)' = Visited(j)
  <2>1. Logged' = Logged
    BY <1>1, <1>2 DEF Logged, RecordsIn
  <2>. QED BY <2>1 DEF Visited
<1>6. ToursRight' /\ AllTold' /\ TurnsEnd
  BY <1>2, <1>5 DEF IncidentInv, ToursKept, ToursRight, AllTold, Told, TurnsEnd
<1>. QED BY <1>2, <1>4, <1>6, SameAlarms, SameSubs, SameCallbacks DEF IncidentInv, ToursKept

LEMMA IncidentRestored ==
  ASSUME IncidentInv, saved' = saved, NEW d \in saved, Replaced(d), UNCHANGED underWay
  PROVE  IncidentInv' /\ TurnsEnd
<1>1. /\ alarms' = d.alarms /\ subs' = d.subs /\ deliveries' = d.deliveries
      /\ UNCHANGED <<callback, jobs, received, incidents, failures>>
  BY DEF Replaced, underWay
<1>2. IncidentOf(d)
  BY DEF IncidentInv, ToursKept, TourTypes
<1>3. AlarmsKept' /\ SubsKept'
  BY <1>1, <1>2 DEF IncidentOf, AlarmsKept, AlarmTypes, AlarmsApart, SubsKept, SubTypes, SubsApart
<1>4. TourTypes'
  BY <1>1, <1>2 DEF IncidentInv, ToursKept, TourTypes, IncidentOf
<1>5. Logged' \subseteq Logged /\ \A j : Visited(j)' \subseteq Visited(j)
  <2>1. Logged' \subseteq Logged
    BY <1>1 DEF Logged, RecordsIn
  <2>. QED BY <2>1 DEF Visited
<1>6. ToursRight'
  <2>1. SUFFICES ASSUME NEW j \in Jobs PROVE OnTour(jobs[j], received[j], Visited(j)')
    BY <1>1 DEF ToursRight, OnTour
  <2>. QED BY <1>5, FewerVisited DEF IncidentInv, ToursKept, ToursRight, TourTypes
<1>7. AllTold' /\ TurnsEnd
  BY <1>1, <1>5 DEF IncidentInv, ToursKept, AllTold, Told, TurnsEnd
<1>. QED BY <1>1, <1>3, <1>4, <1>6, <1>7, SameCallbacks DEF IncidentInv, ToursKept

LEMMA IncidentGoesOn ==
  ASSUME IncidentAssumption, IncidentInv, [Next]_vars
  PROVE  IncidentInv' /\ TurnsEnd
<1>1. CASE Moves
  <2>1. [I!Next]_(I!incidentVars) /\ saved' = saved
    BY <1>1 DEF Moves, incidentVars, I!incidentVars
  <2>. QED BY <2>1, IncidentStep
<1>. QED BY <1>1, IncidentCaptured, IncidentRestored, StepIs

LEMMA IncidentsInv == ASSUME IncidentAssumption PROVE Spec => []IncidentInv
<1>1. Init => IncidentInv
  BY IncidentInit DEF Init
<1>2. IncidentInv /\ [Next]_vars => IncidentInv'
  BY IncidentGoesOn
<1>. QED BY <1>1, <1>2, PTL DEF Spec

\* Every variable of the alarms, the subscriptions and the dispatches keeps its
\* type, and the records stay within their cap (alarm.go, webhook.go).
THEOREM IncidentTypeCorrect == Spec => []I!TypeOK
<1>0. IncidentAssumption
  BY ServicesAssumption
<1>. USE <1>0
<1>1. IncidentInv => I!TypeOK
  <2>1. SUFFICES ASSUME IncidentInv PROVE I!TypeOK
    OBVIOUS
  <2>2. \A j \in Jobs : jobs[j] = I!Free \/
          /\ jobs[j].at \in {"post", "wait", "record", "report", "over"}
          /\ jobs[j].left \in Seq(SubIds) /\ jobs[j].attempt \in 1..MaxRetries
    BY <2>1, TourShape DEF IncidentInv, ToursKept, TourTypes
  <2>. QED BY <2>1, <2>2 DEF IncidentInv, AlarmsKept, AlarmTypes, SubsKept, SubTypes,
                             ToursKept, TourTypes, CallbackTypes, I!TypeOK
<1>. QED BY <1>1, IncidentsInv, PTL

\* One alarm of an incident is active, no subscriber is passed over in silence,
\* and a delivery record tells what happened, for any kinds of incident,
\* subscribers, dispatches under way and failing writes (alarm.go, webhook.go).
THEOREM IncidentsAreTold == Spec => IncidentsTold
<1>0. IncidentAssumption
  BY ServicesAssumption
<1>. USE <1>0
<1>1. IncidentInv => I!AlarmsOnce
  <2>1. SUFFICES ASSUME IncidentInv PROVE I!AlarmsOnce
    OBVIOUS
  <2>2. ASSUME NEW key PROVE Cardinality(I!ActiveAlarms(key)) <= 1
    <3>1. \A a, b \in I!ActiveAlarms(key) : a = b
      BY <2>1 DEF IncidentInv, AlarmsKept, AlarmsApart, I!ActiveAlarms
    <3>2. I!ActiveAlarms(key) = {} \/ \E a : I!ActiveAlarms(key) = {a}
      BY <3>1
    <3>3. Cardinality(I!ActiveAlarms(key)) \in {0, 1}
      BY <3>2, FS_EmptySet, FS_Singleton
    <3>. QED BY <3>3
  <2>. QED BY <2>1, <2>2, Counts DEF I!AlarmsOnce, IncidentInv, SubsKept, SubsApart
<1>2. IncidentInv => I!DeliveriesTruthful
  BY DEF IncidentInv, ToursKept, AllTold, Told, Logged, RecordsIn, I!DeliveriesTruthful
<1>3. IncidentInv /\ [Next]_vars =>
        [\A j \in Jobs :
           jobs[j] # I!Free /\ jobs'[j].left # jobs[j].left =>
             \/ /\ deliveries' # <<>>
                /\ I!Last(deliveries').job = j /\ I!Last(deliveries').sub = Head(jobs[j].left)
             \/ I!ActiveAlarms(I!Dispatcher)' # {}
             \/ failures' = failures + 1]_(I!incidentVars)
  BY IncidentGoesOn DEF TurnsEnd
<1>4. Spec => []I!AlarmsOnce /\ []I!DeliveriesTruthful
  BY <1>1, <1>2, IncidentsInv, PTL
<1>5. Spec => I!NoneSkipped
  BY <1>3, IncidentsInv, PTL DEF Spec, I!NoneSkipped
<1>. QED BY <1>4, <1>5 DEF IncidentsTold

-----------------------------------------------------------------------------
(* Timetable *)

LEMMA EarliestIs ==
  ASSUME NEW S, S \subseteq Nat, S # {}
  PROVE  T!Least(S) \in S /\ \A y \in S : T!Least(S) <= y
BY LeastIs DEF T!Least, LeastOf

\* A field has the values that the expression says.
LEMMA FieldSays ==
  ASSUME NEW parts, NEW min \in Nat, NEW max \in Nat, Fits(parts, min, max), NEW v \in min..max
  PROVE  v \in T!parseField(parts, min, max).values <=> T!Says(parts, v)
<1>1. T!parseField(parts, min, max).values =
        IF parts = {} THEN min..max ELSE UNION {T!Part(p) : p \in parts}
  BY DEF T!parseField
<1>2. CASE parts = {}
  BY <1>1, <1>2 DEF T!Says
<1>3. CASE parts # {}
  BY <1>1, <1>3 DEF T!Says, T!Part
<1>. QED BY <1>2, <1>3

LEMMA FieldBounds ==
  ASSUME NEW parts, NEW min \in Nat, NEW max \in Nat, Fits(parts, min, max)
  PROVE  T!parseField(parts, min, max).values \subseteq min..max
<1>1. T!parseField(parts, min, max).values =
        IF parts = {} THEN min..max ELSE UNION {T!Part(p) : p \in parts}
  BY DEF T!parseField
<1>2. \A p \in parts : T!Part(p) \subseteq min..max
  <2>1. SUFFICES ASSUME NEW p \in parts, NEW v \in T!Part(p) PROVE v \in min..max
    OBVIOUS
  <2>2. p.lo \in min..max /\ p.hi \in min..max /\ v \in p.lo..p.hi
    BY <2>1 DEF T!Part, Fits
  <2>. QED BY <2>2
<1>. QED BY <1>1, <1>2

\* Sunday is 0 and 7.
LEMMA WeekdaySays ==
  ASSUME NEW parts, Fits(parts, 0, 7), NEW d \in 0..6
  PROVE  d \in T!Weekday(T!parseField(parts, 0, 7)).values <=>
           \E w \in {d, d + 7} : w \in 0..7 /\ T!Says(parts, w)
<1>. DEFINE vs == T!parseField(parts, 0, 7).values
<1>1. T!Weekday(T!parseField(parts, 0, 7)).values = {v % 7 : v \in vs}
  BY DEF T!Weekday, T!parseField
<1>2. vs \subseteq 0..7
  BY FieldBounds
<1>3. \A v \in 0..7 : v \in vs <=> T!Says(parts, v)
  BY FieldSays
<1>. HIDE DEF vs
<1>4. \A v \in 0..7 : v % 7 = d <=> v = d \/ v = d + 7
  OBVIOUS
<1>. QED BY <1>1, <1>2, <1>3, <1>4

\* The parsed expression matches what the written one wants.
LEMMA MatchesWanted ==
  ASSUME NEW x, CronFits(x), NEW m \in Moment
  PROVE  T!Matches(T!ParseCron(x), m) <=> T!Wanted(x, m)
<1>1. /\ m.minute \in 0..59 /\ m.hour \in 0..23 /\ m.day \in 1..31 /\ m.month \in 1..12 /\ m.weekday \in 0..6
  BY DEF Moment
<1>2. /\ m.minute \in T!parseField(x.minute, 0, 59).values <=> T!Says(x.minute, m.minute)
      /\ m.hour \in T!parseField(x.hour, 0, 23).values <=> T!Says(x.hour, m.hour)
      /\ m.day \in T!parseField(x.dom, 1, 31).values <=> T!Says(x.dom, m.day)
      /\ m.month \in T!parseField(x.month, 1, 12).values <=> T!Says(x.month, m.month)
  BY <1>1, FieldSays DEF CronFits
<1>3. m.weekday \in T!Weekday(T!parseField(x.dow, 0, 7)).values <=>
        \E w \in {m.weekday, m.weekday + 7} : w \in 0..7 /\ T!Says(x.dow, w)
  BY <1>1, WeekdaySays DEF CronFits
<1>4. /\ T!ParseCron(x).minute = T!parseField(x.minute, 0, 59)
      /\ T!ParseCron(x).hour = T!parseField(x.hour, 0, 23)
      /\ T!ParseCron(x).dom = T!parseField(x.dom, 1, 31)
      /\ T!ParseCron(x).month = T!parseField(x.month, 1, 12)
      /\ T!ParseCron(x).dow = T!Weekday(T!parseField(x.dow, 0, 7))
  BY DEF T!ParseCron
<1>5. /\ T!parseField(x.dom, 1, 31).star <=> x.dom = {}
      /\ T!Weekday(T!parseField(x.dow, 0, 7)).star <=> x.dow = {}
  BY DEF T!parseField, T!Weekday
<1>6. x.dom = {} => T!Says(x.dom, m.day)
  BY DEF T!Says
<1>7. x.dow = {} => \E w \in {m.weekday, m.weekday + 7} : w \in 0..7 /\ T!Says(x.dow, w)
  BY <1>1 DEF T!Says
<1>8. T!matchDay(T!ParseCron(x), m) <=>
        IF x.dom # {} /\ x.dow # {}
        THEN \/ T!Says(x.dom, m.day)
             \/ \E w \in {m.weekday, m.weekday + 7} : w \in 0..7 /\ T!Says(x.dow, w)
        ELSE /\ T!Says(x.dom, m.day)
             /\ \E w \in {m.weekday, m.weekday + 7} : w \in 0..7 /\ T!Says(x.dow, w)
  BY <1>2, <1>3, <1>4, <1>5, <1>6, <1>7 DEF T!matchDay
<1>. QED BY <1>2, <1>4, <1>8 DEF T!Matches, T!Wanted

\* The next fire comes after the time it is computed from, and has come exactly
\* when the interval has passed, or a minute that the expression wants has begun.
LEMMA NextRight ==
  ASSUME TimeAssumption, NEW timing \in Timings, NEW from \in Nat, NEW at \in Nat,
         NEW n, n = T!computeNext(timing, from)
  PROVE  /\ n \in T!Opt(Nat) /\ (n # None => n > from)
         /\ n # None /\ n <= at <=> T!Elapsed(timing, from, at)
         /\ timing.type = "cron" /\ n # None /\ n <= at => T!Minute(at) > T!Minute(from)
<1>1. CASE timing.type = "interval"
  <2>1. timing.interval \in Nat \ {0} /\ n = from + timing.interval /\ n \in Nat /\ n # None
    BY <1>1 DEF TimeAssumption, T!computeNext
  <2>2. T!Elapsed(timing, from, at) <=> at >= from + timing.interval
    BY <1>1 DEF T!Elapsed
  <2>. QED BY <1>1, <2>1, <2>2 DEF T!Opt
<1>2. CASE timing.type # "interval"
  <2>. DEFINE ms == {m \in DOMAIN Calendar : m > T!Minute(from) /\ T!Matches(T!ParseCron(timing.cron), Calendar[m])}
  <2>1. timing.type = "cron" /\ CronFits(timing.cron)
    BY <1>2 DEF TimeAssumption
  <2>2. n = IF ms = {} THEN None ELSE 2 * T!Least(ms)
    BY <1>2 DEF T!computeNext, T!Next
  <2>3. /\ DOMAIN Calendar \subseteq Nat
        /\ \A m \in DOMAIN Calendar : Calendar[m] \in Moment
        /\ None \notin Nat
    BY DEF TimeAssumption
  <2>4. \A m \in DOMAIN Calendar :
          m \in ms <=> m > T!Minute(from) /\ T!Wanted(timing.cron, Calendar[m])
    BY <2>1, <2>3, MatchesWanted
  <2>5. ms \subseteq DOMAIN Calendar /\ ms \subseteq Nat
    BY <2>3
  <2>6. T!Elapsed(timing, from, at) <=> \E m \in ms : 2 * m <= at
    BY <1>2, <2>4, <2>5 DEF T!Elapsed
  <2>7. \A m \in ms : m > from \div 2
    BY DEF T!Minute
  <2>. HIDE DEF ms
  <2>8. CASE ms = {}
    BY <2>1, <2>2, <2>6, <2>8 DEF T!Opt
  <2>9. CASE ms # {}
    <3>. DEFINE l == T!Least(ms)
    <3>1. l \in ms /\ l \in Nat /\ \A m \in ms : l <= m /\ m \in Nat
      BY <2>5, <2>9, EarliestIs
    <3>. HIDE DEF l
    <3>2. n = 2 * l /\ n \in Nat /\ n # None
      BY <2>2, <2>3, <2>9, <3>1 DEF l
    <3>3. n > from
      BY <2>7, <3>1, <3>2
    <3>4. n <= at <=> \E m \in ms : 2 * m <= at
      BY <3>1, <3>2
    <3>5. n <= at => at \div 2 > from \div 2
      BY <2>7, <3>1, <3>2
    <3>. QED BY <2>6, <3>2, <3>3, <3>4, <3>5 DEF T!Opt, T!Minute
  <2>. QED BY <2>8, <2>9
<1>. QED BY <1>1, <1>2

TimeTypes ==
  /\ timedTasks \in [Tasks -> T!Opt(T!Task)] /\ now \in T!Times /\ edits \in 0..MaxEdits
  /\ ticker \in T!Opt(T!Times) /\ loop \in {"on", "stopping", "off"}
  /\ tick \in T!Opt(Ticks)
  /\ sched \in [Tasks -> T!Opt(Plan)] /\ seen \in [Tasks -> T!Opt(Mark)]
  /\ fired \in [Tasks -> T!Opt(T!Times)]
  /\ \A d \in saved : d.timedTasks \in [Tasks -> T!Opt(T!Task)]

\* A tick comes after all that fired before it.
Ordered ==
  /\ ticker # None => ticker <= now /\ (tick # None => tick.at < ticker)
  /\ tick # None => tick.at <= now
  /\ \A t \in Tasks : fired[t] # None =>
       /\ fired[t] <= now
       /\ ticker # None => fired[t] < ticker
       /\ tick # None => fired[t] < tick.at
       /\ seen[t] # None => fired[t] <= seen[t].at

\* What may be read of a task: in the document, by the tick under way, and in
\* the document when one that was captured is back in its place.
Readable(t) ==
  {x \in {timedTasks[t]} \cup (IF tick = None THEN {} ELSE {tick.tasks[t]})
         \cup {d.timedTasks[t] : d \in saved} : x # None}
\* An entry is of the time at which its task was seen, for all that may be read
\* of the task as the entry is for it.
EntryRight(vs, s, e, n) ==
  /\ \A x, y \in vs : x.updated <= n /\ (x.updated = y.updated => x.timing = y.timing)
  /\ s = None <=> e = None
  /\ s # None =>
       /\ s.updated <= n /\ s.updated = e.updated
       /\ \A x \in vs : x.updated = s.updated => s.next = T!computeNext(x.timing, e.at)
Cached == \A t \in Tasks : EntryRight(Readable(t), sched[t], seen[t], edits)
TimeInv == TimeTypes /\ Ordered /\ Cached

LEMMA TimeShape ==
  ASSUME TimeAssumption
  PROVE  /\ T!Times \subseteq Nat /\ 0 \in T!Times
         /\ \A x \in T!Task : x.timing \in Timings /\ x.updated \in 1..MaxEdits /\ x.updated \in Nat
         /\ \A x \in Mark : x.at \in T!Times /\ x.updated \in 1..MaxEdits
         /\ \A x \in Plan : x.next \in T!Opt(Nat) /\ x.updated \in 1..MaxEdits
         /\ \A x \in Ticks : x.at \in T!Times /\ x.tasks \in [Tasks -> T!Opt(T!Task)]
<1>1. T!Times \subseteq Nat /\ 0 \in T!Times
  BY DEF TimeAssumption, T!Times
<1>2. \A x \in T!Task : x.timing \in Timings /\ x.updated \in 1..MaxEdits /\ x.updated \in Nat
  BY DEF T!Task
<1>3. \A x \in Mark : x.at \in T!Times /\ x.updated \in 1..MaxEdits
  BY DEF Mark
<1>4. \A x \in Plan : x.next \in T!Opt(Nat) /\ x.updated \in 1..MaxEdits
  BY DEF Plan
<1>5. \A x \in Ticks : x.at \in T!Times /\ x.tasks \in [Tasks -> T!Opt(T!Task)]
  BY DEF Ticks
<1>. QED BY <1>1, <1>2, <1>3, <1>4, <1>5

LEMMA VersionIs ==
  ASSUME TimeAssumption, TimeTypes, NEW t \in Tasks
  PROVE  /\ \A x \in Readable(t) : x \in T!Task
         /\ timedTasks[t] # None => timedTasks[t] \in Readable(t)
         /\ tick # None /\ tick.tasks[t] # None => tick.tasks[t] \in Readable(t)
<1>1. /\ timedTasks[t] \in T!Opt(T!Task) /\ (tick # None => tick.tasks[t] \in T!Opt(T!Task))
      /\ \A d \in saved : d.timedTasks[t] \in T!Opt(T!Task)
  BY TimeShape DEF TimeTypes, T!Opt
<1>. QED BY <1>1 DEF Readable, T!Opt

LEMMA TimeInit == ASSUME TimeAssumption, T!Init, saved = {} PROVE TimeInv
<1>1. TimeTypes
  <2>1. /\ timedTasks \in [Tasks -> T!Opt(T!Task)] /\ ticker \in T!Opt(T!Times) /\ tick \in T!Opt(Ticks)
        /\ sched \in [Tasks -> T!Opt(Plan)] /\ seen \in [Tasks -> T!Opt(Mark)]
        /\ fired \in [Tasks -> T!Opt(T!Times)] /\ loop \in {"on", "stopping", "off"}
    BY DEF T!Init, T!Opt
  <2>2. now \in T!Times /\ edits \in 0..MaxEdits
    BY TimeShape DEF TimeAssumption, T!Init
  <2>. QED BY <2>1, <2>2 DEF TimeTypes
<1>2. Ordered
  BY DEF Ordered, T!Init
<1>3. Cached
  <2>1. \A t \in Tasks : Readable(t) = {} /\ sched[t] = None /\ seen[t] = None
    <3>1. tick = None /\ \A t \in Tasks : timedTasks[t] = None /\ sched[t] = None /\ seen[t] = None
      BY DEF T!Init
    <3>. QED BY <3>1 DEF Readable
  <2>. QED BY <2>1 DEF Cached, EntryRight
<1>. QED BY <1>1, <1>2, <1>3 DEF TimeInv

\* A step that reads nothing new and leaves the entries alone.
LEMMA CachedRests ==
  ASSUME Cached, sched' = sched, seen' = seen, edits' = edits,
         \A t \in Tasks : Readable(t)' \subseteq Readable(t)
  PROVE  Cached'
<1>1. \A t \in Tasks : EntryRight(Readable(t)', sched[t], seen[t], edits)
  BY DEF Cached, EntryRight
<1>. QED BY <1>1 DEF Cached, EntryRight

\* What a tick does to a task: one it meets for the first time, or as edited, is
\* entered; one whose time has come is fired and entered anew; others rest.
Entered(t, x) ==
  /\ sched'[t] = T!Entry(x, T!computeNext(x.timing, tick.at))
  /\ seen'[t] = [updated |-> x.updated, at |-> tick.at]
FirstMet(t, x) == /\ seen[t] = None \/ seen[t].updated # x.updated
                  /\ Entered(t, x) /\ fired'[t] = fired[t]
Met(t, x) == seen[t] # None /\ seen[t].updated = x.updated
Fires(t, x) == /\ Met(t, x) /\ T!Elapsed(x.timing, seen[t].at, tick.at)
               /\ x.timing.type = "cron" => T!Minute(tick.at) > T!Minute(seen[t].at)
               /\ Entered(t, x) /\ fired'[t] = tick.at
Waits(t, x) == /\ Met(t, x) /\ ~T!Elapsed(x.timing, seen[t].at, tick.at)
               /\ sched'[t] = sched[t] /\ seen'[t] = seen[t] /\ fired'[t] = fired[t]

LEMMA Evaluated ==
  ASSUME TimeAssumption, TimeInv, T!Evaluate, NEW t \in Tasks, NEW x, x = tick.tasks[t]
  PROVE  /\ x = None => sched'[t] = None /\ seen'[t] = None /\ fired'[t] = fired[t]
         /\ x # None => FirstMet(t, x) \/ Fires(t, x) \/ Waits(t, x)
<1>. DEFINE n == T!computeNext(x.timing, tick.at)
<1>1. /\ tick # None /\ tick \in Ticks /\ tick.at \in T!Times /\ tick.at \in Nat
      /\ tick.tasks \in [Tasks -> T!Opt(T!Task)]
  <2>1. tick # None
    BY DEF T!Evaluate
  <2>. QED BY <2>1, TimeShape DEF TimeInv, TimeTypes, T!Opt
<1>2. /\ sched'[t] = IF tick.tasks[t] = None THEN None
                     ELSE IF t \in T!Due THEN T!Entry(tick.tasks[t], T!computeNext(tick.tasks[t].timing, tick.at))
                     ELSE T!Current(t)
      /\ fired'[t] = IF t \in T!Due THEN tick.at ELSE fired[t]
      /\ seen'[t] = IF tick.tasks[t] = None THEN None
                    ELSE IF t \in T!Due \/ seen[t] = None \/ seen[t].updated # tick.tasks[t].updated
                         THEN [updated |-> tick.tasks[t].updated, at |-> tick.at]
                    ELSE seen[t]
  BY DEF T!Evaluate
<1>3. t \in T!Due <=> x # None /\ T!IsDue(t)
  BY <1>1 DEF T!Due, T!Has
<1>4. CASE x = None
  BY <1>2, <1>3, <1>4
<1>5. CASE x # None
  <2>1. x \in T!Task /\ x \in Readable(t) /\ x.timing \in Timings
    BY <1>1, <1>5, TimeShape, VersionIs DEF TimeInv, T!Opt
  <2>2. /\ sched[t] \in T!Opt(Plan) /\ seen[t] \in T!Opt(Mark)
        /\ EntryRight(Readable(t), sched[t], seen[t], edits)
    BY DEF TimeInv, TimeTypes, Cached
  <2>3. t \in T!Has(sched) <=> sched[t] # None
    BY DEF T!Has, TimeInv, TimeTypes
  <2>4. T!Entry(x, n).next = n
    BY DEF T!Entry
  <2>5. CASE sched[t] = None \/ sched[t].updated # x.updated
    <3>1. T!Current(t) = T!Entry(x, n)
      BY <2>3, <2>5 DEF T!Current
    <3>2. n # None => n > tick.at /\ n \in Nat
      BY <1>1, <2>1, NextRight DEF T!Opt
    <3>3. ~T!IsDue(t)
      BY <1>1, <2>4, <3>1, <3>2 DEF T!IsDue
    <3>4. seen[t] = None \/ seen[t].updated # x.updated
      BY <2>2, <2>5 DEF EntryRight
    <3>. QED BY <1>2, <1>3, <1>5, <3>1, <3>3, <3>4 DEF FirstMet, Entered
  <2>6. CASE sched[t] # None /\ sched[t].updated = x.updated
    <3>1. T!Current(t) = sched[t]
      BY <2>3, <2>6 DEF T!Current
    <3>2. Met(t, x) /\ sched[t].next = T!computeNext(x.timing, seen[t].at) /\ seen[t].at \in Nat
      BY <2>1, <2>2, <2>6, TimeShape DEF EntryRight, Met, T!Opt
    <3>3. T!IsDue(t) <=> T!Elapsed(x.timing, seen[t].at, tick.at)
      BY <1>1, <2>1, <3>1, <3>2, NextRight DEF T!IsDue
    <3>4. T!IsDue(t) /\ x.timing.type = "cron" => T!Minute(tick.at) > T!Minute(seen[t].at)
      BY <1>1, <2>1, <3>1, <3>2, NextRight DEF T!IsDue
    <3>5. CASE T!IsDue(t)
      BY <1>2, <1>3, <1>5, <3>2, <3>3, <3>4, <3>5 DEF Fires, Entered
    <3>6. CASE ~T!IsDue(t)
      <4>1. sched'[t] = sched[t] /\ fired'[t] = fired[t] /\ seen'[t] = seen[t]
        BY <1>2, <1>3, <1>5, <3>1, <3>2, <3>6 DEF Met
      <4>2. Met(t, x) /\ ~T!Elapsed(x.timing, seen[t].at, tick.at)
        BY <3>2, <3>3, <3>6, Zenon
      <4>. QED BY <1>5, <4>1, <4>2, Zenon DEF Waits
    <3>. QED BY <1>5, <3>5, <3>6
  <2>. QED BY <2>5, <2>6
<1>. QED BY <1>4, <1>5

LEMMA Evaluates == ASSUME TimeAssumption, TimeInv, T!Evaluate, saved' = saved PROVE TimeInv'
<1>1. /\ tick # None /\ tick \in Ticks /\ tick.at \in T!Times /\ tick.at \in Nat
      /\ tick.tasks \in [Tasks -> T!Opt(T!Task)]
  <2>1. tick # None
    BY DEF T!Evaluate
  <2>. QED BY <2>1, TimeShape DEF TimeInv, TimeTypes, T!Opt
<1>2. /\ timedTasks' = timedTasks /\ now' = now /\ ticker' = ticker /\ loop' = loop /\ edits' = edits
      /\ tick' = None
      /\ DOMAIN sched' = Tasks /\ DOMAIN seen' = Tasks /\ DOMAIN fired' = Tasks
      /\ sched' = [t \in Tasks |-> sched'[t]] /\ seen' = [t \in Tasks |-> seen'[t]]
      /\ fired' = [t \in Tasks |-> fired'[t]]
  BY DEF T!Evaluate
<1>3. ASSUME NEW t \in Tasks
      PROVE  /\ sched'[t] \in T!Opt(Plan) /\ seen'[t] \in T!Opt(Mark) /\ fired'[t] \in T!Opt(T!Times)
             /\ EntryRight(Readable(t)', sched'[t], seen'[t], edits)
             /\ fired'[t] # None => fired'[t] \in {fired[t], tick.at}
             /\ fired'[t] # None /\ seen'[t] # None => fired'[t] <= seen'[t].at
  <2>. DEFINE x == tick.tasks[t]
              plan == T!Entry(x, T!computeNext(x.timing, tick.at))
              mark == [updated |-> x.updated, at |-> tick.at]
  <2>1. Readable(t)' \subseteq Readable(t)
    BY <1>2 DEF Readable
  <2>2. /\ sched[t] \in T!Opt(Plan) /\ seen[t] \in T!Opt(Mark) /\ fired[t] \in T!Opt(T!Times)
        /\ EntryRight(Readable(t), sched[t], seen[t], edits)
    BY DEF TimeInv, TimeTypes, Cached
  <2>3. /\ fired[t] # None => /\ fired[t] \in Nat /\ fired[t] < tick.at
                              /\ seen[t] # None => fired[t] <= seen[t].at
    BY <1>1, <2>2, TimeShape DEF TimeInv, Ordered, T!Opt
  <2>4. CASE x = None
    <3>1. sched'[t] = None /\ seen'[t] = None /\ fired'[t] = fired[t]
      BY <2>4, Evaluated
    <3>2. EntryRight(Readable(t)', None, None, edits)
      BY <2>1, <2>2 DEF EntryRight
    <3>. QED BY <2>2, <3>1, <3>2 DEF T!Opt
  <2>5. CASE x # None
    <3>1. x \in T!Task /\ x \in Readable(t) /\ x.timing \in Timings /\ x.updated \in 1..MaxEdits
      BY <1>1, <2>5, TimeShape, VersionIs DEF TimeInv, T!Opt
    <3>2. /\ plan \in Plan /\ plan # None /\ plan.updated = x.updated
          /\ plan.next = T!computeNext(x.timing, tick.at)
          /\ mark \in Mark /\ mark # None /\ mark.updated = x.updated /\ mark.at = tick.at
      <4>1. T!computeNext(x.timing, tick.at) \in T!Opt(Nat)
        BY <1>1, <3>1, NextRight
      <4>. DEFINE n == T!computeNext(x.timing, tick.at)
      <4>. HIDE DEF n
      <4>2. /\ T!Entry(x, n) \in Plan /\ T!Entry(x, n).updated = x.updated /\ T!Entry(x, n).next = n
        BY <3>1, <4>1 DEF Plan, T!Entry, n
      <4>3. mark \in Mark /\ mark.updated = x.updated /\ mark.at = tick.at
        BY <1>1, <3>1 DEF Mark
      <4>. QED BY <4>2, <4>3 DEF TimeAssumption, n
    <3>3. EntryRight(Readable(t)', plan, mark, edits)
      <4>1. /\ \A y \in Readable(t)' : y.updated <= edits /\ (y.updated = x.updated => y.timing = x.timing)
            /\ \A y, z \in Readable(t)' : y.updated = z.updated => y.timing = z.timing
            /\ x.updated <= edits
        BY <2>1, <2>2, <3>1 DEF EntryRight
      <4>. HIDE DEF plan, mark
      <4>2. \A y \in Readable(t)' : y.updated = plan.updated => plan.next = T!computeNext(y.timing, mark.at)
        BY <3>2, <4>1
      <4>. QED BY <3>2, <4>1, <4>2 DEF EntryRight
    <3>4. EntryRight(Readable(t)', sched[t], seen[t], edits)
      BY <2>1, <2>2 DEF EntryRight
    <3>. HIDE DEF plan, mark
    <3>5. CASE FirstMet(t, x)
      <4>1. sched'[t] = plan /\ seen'[t] = mark /\ fired'[t] = fired[t]
        BY <3>5 DEF FirstMet, Entered, plan, mark
      <4>. QED BY <1>1, <2>2, <2>3, <3>2, <3>3, <4>1 DEF T!Opt
    <3>6. CASE Fires(t, x)
      <4>1. sched'[t] = plan /\ seen'[t] = mark /\ fired'[t] = tick.at
        BY <3>6 DEF Fires, Entered, plan, mark
      <4>. QED BY <1>1, <2>2, <2>3, <3>2, <3>3, <4>1 DEF T!Opt
    <3>7. CASE Waits(t, x)
      <4>1. sched'[t] = sched[t] /\ seen'[t] = seen[t] /\ fired'[t] = fired[t]
        BY <3>7 DEF Waits
      <4>. QED BY <2>2, <2>3, <3>4, <4>1
    <3>. QED BY <2>5, <3>5, <3>6, <3>7, Evaluated
  <2>. QED BY <2>4, <2>5
<1>4. TimeTypes'
  BY <1>2, <1>3 DEF TimeInv, TimeTypes, T!Opt
<1>5. Cached'
  BY <1>2, <1>3 DEF Cached, EntryRight
<1>6. Ordered'
  <2>1. ticker # None => ticker <= now /\ tick.at < ticker
    BY <1>1 DEF TimeInv, Ordered
  <2>2. tick.at <= now
    BY <1>1 DEF TimeInv, Ordered
  <2>3. ASSUME NEW t \in Tasks, fired'[t] # None
        PROVE  /\ fired'[t] <= now /\ (ticker # None => fired'[t] < ticker)
               /\ seen'[t] # None => fired'[t] <= seen'[t].at
    <3>1. CASE fired'[t] = tick.at
      BY <1>1, <1>3, <2>1, <2>2, <2>3, <3>1
    <3>2. CASE fired'[t] = fired[t]
      BY <1>3, <2>3, <3>2 DEF TimeInv, Ordered
    <3>. QED BY <1>3, <2>3, <3>1, <3>2
  <2>. QED BY <1>2, <2>1, <2>3 DEF Ordered
<1>. QED BY <1>4, <1>5, <1>6 DEF TimeInv

\* What the entry of a task is right for, it is right for when an edit of the
\* task, numbered after all there are, may be read as well.
LEMMA EntryGrows ==
  ASSUME TimeAssumption, NEW n \in Nat, NEW vs, \A x \in vs : x.updated \in Nat,
         NEW s \in T!Opt(Plan), NEW e, EntryRight(vs, s, e, n),
         NEW ws, \A x \in ws : x \in vs \/ x.updated = n + 1,
         \A x, y \in ws : x.updated = n + 1 /\ y.updated = n + 1 => x = y
  PROVE  EntryRight(ws, s, e, n + 1)
<1>1. \A x \in vs : x.updated <= n /\ x.updated # n + 1
  BY DEF EntryRight
<1>2. \A x \in ws : x.updated <= n + 1 /\ x.updated \in Nat
  BY <1>1
<1>3. \A x, y \in ws : x.updated = y.updated => x.timing = y.timing
  BY <1>1 DEF EntryRight
<1>4. s # None => s.updated \in Nat /\ s.updated <= n
  BY TimeShape DEF EntryRight, T!Opt
<1>5. s # None => \A x \in ws : x.updated = s.updated => s.next = T!computeNext(x.timing, e.at)
  BY <1>1, <1>4 DEF EntryRight
<1>. QED BY <1>2, <1>3, <1>4, <1>5 DEF EntryRight

\* Ordered depends on the ticks and the fires alone.
LEMMA OrderedRests ==
  ASSUME Ordered, UNCHANGED <<now, ticker, tick, seen>>,
         \A t \in Tasks : fired'[t] \in {fired[t], None}
  PROVE  Ordered'
BY DEF Ordered

\* An edit of a task, given the number after all there are.
LEMMA PutStep ==
  ASSUME TimeAssumption, TimeInv, NEW t \in Tasks, NEW task \in T!Task,
         T!Put(t, task), task.updated = edits + 1,
         fired' = fired \/ fired' = [fired EXCEPT ![t] = None], saved' = saved
  PROVE  TimeInv'
<1>1. /\ edits \in Nat /\ edits < MaxEdits /\ edits' = edits + 1 /\ edits' \in 0..MaxEdits
      /\ timedTasks' = [timedTasks EXCEPT ![t] = task]
      /\ timedTasks \in [Tasks -> T!Opt(T!Task)]
      /\ UNCHANGED <<now, ticker, tick, sched, loop, seen>>
  BY DEF T!Put, TimeInv, TimeTypes, TimeAssumption
<1>2. TimeTypes'
  <2>1. fired' \in [Tasks -> T!Opt(T!Times)]
    BY DEF TimeInv, TimeTypes, T!Opt
  <2>2. timedTasks' \in [Tasks -> T!Opt(T!Task)]
    BY <1>1 DEF T!Opt
  <2>. QED BY <1>1, <2>1, <2>2 DEF TimeInv, TimeTypes
<1>3. Ordered'
  <2>1. \A u \in Tasks : fired'[u] \in {fired[u], None}
    BY DEF TimeInv, TimeTypes
  <2>. QED BY <1>1, <2>1, OrderedRests DEF TimeInv
<1>4. Cached'
  <2>1. ASSUME NEW u \in Tasks PROVE EntryRight(Readable(u)', sched[u], seen[u], edits + 1)
    <3>1. EntryRight(Readable(u), sched[u], seen[u], edits) /\ sched[u] \in T!Opt(Plan)
      BY DEF TimeInv, TimeTypes, Cached
    <3>2. \A x \in Readable(u) : x.updated \in Nat
      BY TimeShape, VersionIs DEF TimeInv
    <3>3. timedTasks'[u] \in {timedTasks[u], task} /\ tick' = tick
      BY <1>1
    <3>4. \A x \in Readable(u)' : x \in Readable(u) \/ x = task
      BY <3>3 DEF Readable
    <3>5. \A x \in Readable(u) : x.updated # edits + 1
      BY <1>1, <3>1, <3>2 DEF EntryRight
    <3>6. \A x, y \in Readable(u)' : x.updated = edits + 1 /\ y.updated = edits + 1 => x = y
      BY <3>4, <3>5
    <3>7. \A x \in Readable(u)' : x \in Readable(u) \/ x.updated = edits + 1
      BY <3>4
    <3>. QED BY <1>1, <3>1, <3>2, <3>6, <3>7, EntryGrows
  <2>. QED BY <1>1, <2>1 DEF Cached
<1>. QED BY <1>2, <1>3, <1>4 DEF TimeInv

\* A step that leaves the entries and the order of ticks alone.
LEMMA TimesRest ==
  ASSUME TimeInv, TimeTypes', saved' = saved, UNCHANGED <<now, ticker, tick, sched, edits, seen, fired>>,
         \A t \in Tasks : timedTasks'[t] \in {timedTasks[t], None}
  PROVE  TimeInv'
<1>1. \A t \in Tasks : Readable(t)' \subseteq Readable(t)
  BY DEF Readable
<1>2. Ordered'
  BY DEF TimeInv, Ordered
<1>. QED BY <1>1, <1>2, CachedRests DEF TimeInv

LEMMA TasksEdited == ASSUME TimeAssumption, TimeInv, T!handleTask, saved' = saved PROVE TimeInv'
<1>1. edits \in Nat /\ timedTasks \in [Tasks -> T!Opt(T!Task)]
  BY DEF TimeInv, TimeTypes, TimeAssumption
<1>2. \A e \in Nat : e < MaxEdits => e + 1 \in 1..MaxEdits
  BY DEF TimeAssumption
<1>3. CASE T!Create
  <2>1. PICK t \in Tasks \ T!Has(timedTasks), x \in Timings, b \in BOOLEAN :
          /\ T!Put(t, [timing |-> x, enabled |-> b, updated |-> edits + 1])
          /\ fired' = [fired EXCEPT ![t] = None]
    BY <1>3 DEF T!Create
  <2>. DEFINE task == [timing |-> x, enabled |-> b, updated |-> edits + 1]
  <2>2. edits + 1 \in 1..MaxEdits
    BY <1>1, <1>2, <2>1 DEF T!Put
  <2>3. task \in T!Task /\ task.updated = edits + 1
    BY <2>2 DEF T!Task
  <2>. QED BY <2>1, <2>3, PutStep
<1>4. ASSUME NEW t \in T!Has(timedTasks), NEW x \in Timings, NEW b \in BOOLEAN,
             NEW task, task = [timedTasks[t] EXCEPT !.timing = x, !.enabled = b, !.updated = edits + 1],
             T!Put(t, task), UNCHANGED fired
      PROVE  TimeInv'
  <2>1. edits + 1 \in 1..MaxEdits
    BY <1>1, <1>2, <1>4 DEF T!Put
  <2>2. t \in Tasks /\ timedTasks[t] \in T!Task
    BY <1>1 DEF T!Has, T!Opt
  <2>3. task \in T!Task /\ task.updated = edits + 1
    BY <1>4, <2>1, <2>2 DEF T!Task
  <2>. QED BY <1>4, <2>2, <2>3, PutStep
<1>5. CASE T!Replace
  <2>1. PICK t \in T!Has(timedTasks), x \in Timings, b \in BOOLEAN :
          /\ T!Put(t, [timedTasks[t] EXCEPT !.timing = x, !.enabled = b, !.updated = edits + 1])
          /\ UNCHANGED fired
    BY <1>5, Zenon DEF T!Replace
  <2>. QED BY <1>4, <2>1, Zenon
<1>6. CASE T!SetEnabled
  <2>1. PICK t \in T!Has(timedTasks), b \in BOOLEAN :
          /\ T!Put(t, [timedTasks[t] EXCEPT !.enabled = b, !.updated = edits + 1])
          /\ UNCHANGED fired
    BY <1>6, Zenon DEF T!SetEnabled
  <2>2. t \in Tasks /\ timedTasks[t] \in T!Task
    BY <1>1 DEF T!Has, T!Opt
  <2>. DEFINE task == [timedTasks[t] EXCEPT !.enabled = b, !.updated = edits + 1]
  <2>3. edits + 1 \in 1..MaxEdits
    BY <1>1, <1>2, <2>1 DEF T!Put
  <2>4. task \in T!Task /\ task.updated = edits + 1
    BY <2>2, <2>3 DEF T!Task
  <2>. QED BY <2>1, <2>2, <2>4, PutStep
<1>7. CASE T!Delete
  <2>1. PICK t \in T!Has(timedTasks) :
          /\ timedTasks' = [timedTasks EXCEPT ![t] = None]
          /\ UNCHANGED <<now, ticker, tick, sched, loop, edits, seen, fired>>
    BY <1>7 DEF T!Delete
  <2>2. timedTasks' \in [Tasks -> T!Opt(T!Task)]
    BY <1>1, <2>1 DEF T!Opt
  <2>3. TimeTypes'
    BY <2>1, <2>2 DEF TimeInv, TimeTypes
  <2>4. \A u \in Tasks : timedTasks'[u] \in {timedTasks[u], None}
    BY <1>1, <2>1
  <2>. QED BY <2>1, <2>3, <2>4, TimesRest
<1>. QED BY <1>3, <1>5, <1>6, <1>7 DEF T!handleTask

LEMMA Passes == ASSUME TimeAssumption, TimeInv, T!Pass, saved' = saved PROVE TimeInv'
<1>1. /\ now < T!LastTime /\ now' = now + 1 /\ now \in T!Times
      /\ ticker' = IF loop # "off" /\ ticker = None THEN now + 1 ELSE ticker
      /\ UNCHANGED <<timedTasks, tick, sched, loop, edits, seen, fired>>
  BY DEF T!Pass, TimeInv, TimeTypes
<1>2. now \in Nat /\ now + 1 \in T!Times
  BY <1>1 DEF T!Times, TimeAssumption
<1>3. TimeTypes'
  BY <1>1, <1>2 DEF TimeInv, TimeTypes, T!Opt
<1>4. Ordered'
  <2>1. tick # None => tick.at \in Nat /\ tick.at <= now
    BY TimeShape DEF TimeInv, TimeTypes, Ordered, T!Opt
  <2>2. ticker # None => ticker \in Nat /\ ticker <= now /\ (tick # None => tick.at < ticker)
    BY TimeShape DEF TimeInv, TimeTypes, Ordered, T!Opt
  <2>3. ASSUME NEW t \in Tasks, fired[t] # None
        PROVE  /\ fired[t] <= now + 1 /\ fired[t] < now + 1
               /\ ticker # None => fired[t] < ticker
               /\ tick # None => fired[t] < tick.at
               /\ seen[t] # None => fired[t] <= seen[t].at
    <3>1. fired[t] \in Nat
      BY <2>3, TimeShape DEF TimeInv, TimeTypes, T!Opt
    <3>2. /\ fired[t] <= now
          /\ ticker # None => fired[t] < ticker
          /\ tick # None => fired[t] < tick.at
          /\ seen[t] # None => fired[t] <= seen[t].at
      BY <2>3 DEF TimeInv, Ordered
    <3>. QED BY <1>2, <3>1, <3>2
  <2>4. ticker' # None => ticker' <= now + 1 /\ (tick # None => tick.at < ticker')
    <3>1. CASE ticker' = now + 1
      BY <1>2, <2>1, <3>1
    <3>2. CASE ticker' = ticker
      BY <1>2, <2>2, <3>2
    <3>. QED BY <1>1, <3>1, <3>2
  <2>5. ASSUME NEW t \in Tasks, fired[t] # None, ticker' # None PROVE fired[t] < ticker'
    BY <1>1, <2>3, <2>5
  <2>6. tick # None => tick.at <= now + 1
    BY <1>2, <2>1
  <2>. QED BY <1>1, <2>3, <2>4, <2>5, <2>6 DEF Ordered
<1>5. \A t \in Tasks : Readable(t)' \subseteq Readable(t)
  BY <1>1 DEF Readable
<1>. QED BY <1>1, <1>3, <1>4, <1>5, CachedRests DEF TimeInv

LEMMA TickReads == ASSUME TimeAssumption, TimeInv, T!enabledTasks, saved' = saved PROVE TimeInv'
<1>. DEFINE read == [t \in Tasks |-> IF t \in T!Has(timedTasks) /\ timedTasks[t].enabled
                                     THEN timedTasks[t] ELSE None]
            begun == [at |-> ticker, tasks |-> read]
<1>1. /\ tick = None /\ ticker # None /\ ticker' = None /\ tick' = begun
      /\ UNCHANGED <<timedTasks, now, sched, loop, edits, seen, fired>>
  BY DEF T!enabledTasks
<1>2. timedTasks \in [Tasks -> T!Opt(T!Task)] /\ ticker \in T!Times
  BY <1>1 DEF TimeInv, TimeTypes, T!Opt
<1>3. read \in [Tasks -> T!Opt(T!Task)] /\ \A t \in Tasks : read[t] \in {timedTasks[t], None}
  BY <1>2 DEF T!Opt
<1>4. begun.at = ticker /\ begun.tasks = read
  OBVIOUS
<1>. HIDE DEF read
<1>5. begun \in Ticks /\ begun # None
  BY <1>2, <1>3 DEF Ticks, TimeAssumption
<1>. HIDE DEF begun
<1>6. TimeTypes'
  BY <1>1, <1>5 DEF TimeInv, TimeTypes, T!Opt
<1>7. Ordered'
  BY <1>1, <1>4, <1>5 DEF TimeInv, Ordered
<1>8. \A t \in Tasks : Readable(t)' \subseteq Readable(t)
  BY <1>1, <1>3, <1>4 DEF Readable
<1>. QED BY <1>1, <1>6, <1>7, <1>8, CachedRests DEF TimeInv

LEMMA ProgramSteps ==
  ASSUME TimeAssumption, TimeInv, T!Stop \/ T!Exit \/ T!Start \/ T!Restart, saved' = saved
  PROVE  TimeInv'
<1>1. CASE T!Stop \/ T!Start
  <2>1. UNCHANGED <<timedTasks, now, ticker, tick, sched, edits, seen, fired>> /\ loop' \in {"on", "stopping", "off"}
    BY <1>1 DEF T!Stop, T!Start
  <2>2. TimeTypes'
    BY <2>1 DEF TimeInv, TimeTypes
  <2>. QED BY <2>1, <2>2, TimesRest
<1>2. CASE T!Exit
  <2>1. UNCHANGED <<timedTasks, now, tick, sched, edits, seen, fired>> /\ loop' = "off" /\ ticker' = None
    BY <1>2 DEF T!Exit
  <2>2. TimeTypes'
    BY <2>1 DEF TimeInv, TimeTypes, T!Opt
  <2>3. Ordered'
    BY <2>1 DEF TimeInv, Ordered
  <2>4. \A t \in Tasks : Readable(t)' \subseteq Readable(t)
    BY <2>1 DEF Readable
  <2>. QED BY <2>1, <2>2, <2>3, <2>4, CachedRests DEF TimeInv
<1>3. CASE T!Restart
  <2>1. /\ UNCHANGED <<timedTasks, now, edits, fired>> /\ loop' = "on" /\ ticker' = None /\ tick' = None
        /\ sched' = [t \in Tasks |-> None] /\ seen' = [t \in Tasks |-> None]
    BY <1>3 DEF T!Restart
  <2>2. TimeTypes'
    BY <2>1 DEF TimeInv, TimeTypes, T!Opt
  <2>3. Ordered'
    BY <2>1 DEF TimeInv, Ordered
  <2>4. ASSUME NEW t \in Tasks PROVE EntryRight(Readable(t)', None, None, edits)
    <3>1. Readable(t)' \subseteq Readable(t)
      BY <2>1 DEF Readable
    <3>2. EntryRight(Readable(t), sched[t], seen[t], edits)
      BY DEF TimeInv, Cached
    <3>. QED BY <3>1, <3>2 DEF EntryRight
  <2>5. Cached'
    BY <2>1, <2>4 DEF Cached
  <2>. QED BY <2>2, <2>3, <2>5 DEF TimeInv
<1>. QED BY <1>1, <1>2, <1>3

LEMMA TimeSteps ==
  ASSUME TimeAssumption, TimeInv, [T!Moves]_(T!timeVars), saved' = saved PROVE TimeInv'
<1>1. CASE UNCHANGED T!timeVars
  <2>1. UNCHANGED <<timedTasks, now, ticker, tick, sched, loop, edits, seen, fired>>
    BY <1>1 DEF T!timeVars
  <2>2. TimeTypes'
    BY <2>1 DEF TimeInv, TimeTypes
  <2>. QED BY <2>1, <2>2, TimesRest
<1>. QED BY <1>1, TasksEdited, Passes, TickReads, Evaluates, ProgramSteps DEF T!Moves

\* A document captured, and one restored: no task is read that could not be.
LEMMA TimeCaptured ==
  ASSUME TimeInv, ServicesRest, saved' = saved \cup {Document}
  PROVE  TimeInv'
<1>. DEFINE d == Document
<1>1. d.timedTasks = timedTasks /\ saved' = saved \cup {d}
  BY Documents
<1>. HIDE DEF d
<1>2. UNCHANGED <<timedTasks, now, ticker, tick, sched, loop, edits, seen, fired>>
  BY DEF ServicesRest, timeVars
<1>3. TimeTypes'
  BY <1>1, <1>2 DEF TimeInv, TimeTypes
<1>4. \A t \in Tasks : Readable(t)' \subseteq Readable(t)
  BY <1>1, <1>2 DEF Readable
<1>5. Ordered'
  BY <1>2 DEF TimeInv, Ordered
<1>. QED BY <1>2, <1>3, <1>4, <1>5, CachedRests DEF TimeInv

LEMMA TimeRestored ==
  ASSUME TimeInv, saved' = saved, NEW d \in saved, Replaced(d), UNCHANGED underWay
  PROVE  TimeInv'
<1>1. /\ timedTasks' = d.timedTasks
      /\ UNCHANGED <<now, ticker, tick, sched, loop, edits, seen, fired>>
  BY DEF Replaced, underWay
<1>2. TimeTypes'
  BY <1>1 DEF TimeInv, TimeTypes
<1>3. \A t \in Tasks : Readable(t)' \subseteq Readable(t)
  BY <1>1 DEF Readable
<1>4. Ordered'
  BY <1>1 DEF TimeInv, Ordered
<1>. QED BY <1>1, <1>2, <1>3, <1>4, CachedRests DEF TimeInv

LEMMA TimesInv == ASSUME TimeAssumption PROVE Spec => []TimeInv
<1>1. Init => TimeInv
  BY TimeInit DEF Init
<1>2. TimeInv /\ [Next]_vars => TimeInv'
  <2>1. ASSUME TimeInv, Moves PROVE TimeInv'
    <3>1. [T!Moves]_(T!timeVars) /\ saved' = saved
      BY <2>1 DEF Moves, timeVars, T!timeVars
    <3>. QED BY <2>1, <3>1, TimeSteps
  <2>. QED BY <2>1, TimeCaptured, TimeRestored, StepIs
<1>. QED BY <1>1, <1>2, PTL DEF Spec

\* Every variable of the timetable keeps its type: an entry is of an edit there
\* has been, and a next fire a time or none (scheduler.go, cron.go).
THEOREM TimeTypeCorrect == Spec => []T!TypeOK
<1>0. TimeAssumption
  BY ServicesAssumption
<1>. USE <1>0
<1>1. TimeInv => T!TypeOK
  <2>1. SUFFICES ASSUME TimeInv PROVE T!TypeOK
    OBVIOUS
  <2>2. tick # None => tick.at \in T!Times /\ tick.tasks \in [Tasks -> T!Opt(T!Task)]
    BY <2>1, TimeShape DEF TimeInv, TimeTypes, T!Opt
  <2>3. \A t \in T!Has(sched) : sched[t].updated \in 1..MaxEdits /\ sched[t].next \in T!Opt(Nat)
    BY <2>1, TimeShape DEF TimeInv, TimeTypes, T!Opt, T!Has
  <2>. QED BY <2>1, <2>2, <2>3 DEF TimeInv, TimeTypes, T!TypeOK
<1>. QED BY <1>1, TimesInv, PTL

\* What a tick fires is what was due, and comes in a later minute than what the
\* task fired before.
FiresRight == \A t \in Tasks :
  T!Evaluate /\ tick.tasks[t] # None =>
    ((fired'[t] = tick.at) <=>
       /\ seen[t] # None /\ seen[t].updated = tick.tasks[t].updated
       /\ T!Elapsed(tick.tasks[t].timing, seen[t].at, tick.at))
FiresOnce == \A t \in Tasks :
  fired'[t] # fired[t] /\ fired[t] # None /\ fired'[t] # None
    /\ tick.tasks[t].timing.type = "cron" => T!Minute(fired'[t]) > T!Minute(fired[t])

LEMMA TickFires ==
  ASSUME TimeAssumption, TimeInv, T!Evaluate PROVE FiresRight /\ FiresOnce
<1>1. tick # None /\ tick \in Ticks /\ tick.at \in Nat
  BY TimeShape DEF T!Evaluate, TimeInv, TimeTypes, T!Opt
<1>2. ASSUME NEW t \in Tasks
      PROVE  /\ fired[t] # None => fired[t] \in Nat /\ fired[t] < tick.at
             /\ fired[t] # None /\ seen[t] # None => fired[t] <= seen[t].at
             /\ seen[t] # None => seen[t].at \in Nat
  <2>1. fired[t] \in T!Opt(T!Times) /\ seen[t] \in T!Opt(Mark)
    BY DEF TimeInv, TimeTypes
  <2>2. fired[t] # None => fired[t] \in Nat
    BY <2>1, TimeShape DEF T!Opt
  <2>3. seen[t] # None => seen[t].at \in Nat
    BY <2>1, TimeShape DEF T!Opt
  <2>4. fired[t] # None => fired[t] < tick.at /\ (seen[t] # None => fired[t] <= seen[t].at)
    BY <1>1 DEF TimeInv, Ordered
  <2>. QED BY <2>2, <2>3, <2>4
<1>3. ASSUME NEW t \in Tasks, NEW x, x = tick.tasks[t], x # None
      PROVE  (fired'[t] = tick.at) <=> (Met(t, x) /\ T!Elapsed(x.timing, seen[t].at, tick.at))
  <2>1. fired[t] # tick.at
    BY <1>1, <1>2 DEF TimeAssumption
  <2>2. CASE FirstMet(t, x)
    BY <2>1, <2>2 DEF FirstMet, Met
  <2>3. CASE Fires(t, x)
    BY <2>3 DEF Fires
  <2>4. CASE Waits(t, x)
    BY <2>1, <2>4 DEF Waits
  <2>. QED BY <1>3, <2>2, <2>3, <2>4, Evaluated
<1>4. ASSUME NEW t \in Tasks, NEW x, x = tick.tasks[t], fired'[t] # fired[t], fired[t] # None,
             fired'[t] # None, x.timing.type = "cron"
      PROVE  T!Minute(fired'[t]) > T!Minute(fired[t])
  <2>1. Fires(t, x)
    BY <1>4, Evaluated DEF FirstMet, Waits
  <2>2. T!Minute(tick.at) > T!Minute(seen[t].at) /\ seen[t] # None /\ fired'[t] = tick.at
    BY <1>4, <2>1 DEF Fires, Met
  <2>3. \A a, b, n \in Nat : T!Minute(n) > T!Minute(b) /\ a <= b => T!Minute(n) > T!Minute(a)
    BY DEF T!Minute
  <2>4. fired[t] \in Nat /\ seen[t].at \in Nat /\ fired[t] <= seen[t].at
    BY <1>2, <1>4, <2>2
  <2>5. T!Minute(tick.at) > T!Minute(fired[t])
    BY <1>1, <2>2, <2>3, <2>4
  <2>. QED BY <2>2, <2>5
<1>. QED BY <1>3, <1>4 DEF FiresRight, FiresOnce, Met

LEMMA OthersFireNone ==
  ASSUME TimeInv, [T!Moves]_(T!timeVars), ~T!Evaluate PROVE FiresRight /\ FiresOnce
<1>1. \A t \in Tasks : fired'[t] \in {fired[t], None}
  <2>1. CASE T!handleTask
    <3>1. fired' = fired \/ \E t \in Tasks : fired' = [fired EXCEPT ![t] = None]
      BY <2>1, Zenon DEF T!handleTask, T!Create, T!Replace, T!SetEnabled, T!Delete
    <3>. QED BY <3>1 DEF TimeInv, TimeTypes
  <2>2. CASE T!Pass \/ T!enabledTasks \/ T!Stop \/ T!Exit \/ T!Start \/ T!Restart
    BY <2>2 DEF T!Pass, T!enabledTasks, T!Stop, T!Exit, T!Start, T!Restart
  <2>3. CASE UNCHANGED T!timeVars
    BY <2>3 DEF T!timeVars
  <2>. QED BY <2>1, <2>2, <2>3 DEF T!Moves
<1>. QED BY <1>1 DEF FiresRight, FiresOnce

LEMMA FiresAlways ==
  ASSUME TimeAssumption, TimeInv, [Next]_vars PROVE FiresRight /\ FiresOnce
<1>1. CASE Moves
  <2>1. [T!Moves]_(T!timeVars)
    BY <1>1 DEF Moves, timeVars, T!timeVars
  <2>. QED BY <2>1, TickFires, OthersFireNone
<1>2. ASSUME tick' = tick, fired' = fired PROVE FiresRight /\ FiresOnce
  BY <1>2 DEF FiresRight, FiresOnce, T!Evaluate
<1>3. ASSUME ServicesRest PROVE tick' = tick /\ fired' = fired
  BY <1>3 DEF ServicesRest, timeVars
<1>4. ASSUME UNCHANGED underWay PROVE tick' = tick /\ fired' = fired
  BY <1>4 DEF underWay
<1>. QED BY <1>1, <1>2, <1>3, <1>4, StepIs

\* A tick fires exactly the tasks that were due since it saw them first or fired
\* them last, and an expression once in a minute, for any tasks, expressions and
\* calendar, whatever edits, stops and restarts come between (tick, computeNext).
THEOREM FiresAsDue == Spec => FiresWhenDue
<1>0. TimeAssumption
  BY ServicesAssumption
<1>. USE <1>0
<1>1. TimeInv /\ [Next]_vars =>
        [\A t \in Tasks :
           T!Evaluate /\ tick.tasks[t] # None =>
             ((fired'[t] = tick.at) <=>
                /\ seen[t] # None /\ seen[t].updated = tick.tasks[t].updated
                /\ T!Elapsed(tick.tasks[t].timing, seen[t].at, tick.at))]_(T!timeVars)
  BY FiresAlways DEF FiresRight
<1>2. TimeInv /\ [Next]_vars =>
        [\A t \in Tasks :
           fired'[t] # fired[t] /\ fired[t] # None /\ fired'[t] # None
             /\ tick.tasks[t].timing.type = "cron" => T!Minute(fired'[t]) > T!Minute(fired[t])]_(T!timeVars)
  BY FiresAlways DEF FiresOnce
<1>3. Spec => T!FiresWhenDue
  BY <1>1, TimesInv, PTL DEF Spec, T!FiresWhenDue
<1>4. Spec => T!OncePerMinute
  BY <1>2, TimesInv, PTL DEF Spec, T!OncePerMinute
<1>. QED BY <1>3, <1>4 DEF FiresWhenDue

-----------------------------------------------------------------------------
(* The services together *)

\* Every variable of every service keeps its type, and the records of each
\* collection stay apart, whatever requests interleave in any of them,
\* whichever part moves and whichever document a restore brings back.
THEOREM ServicesTypes == Spec => []TypesOK
<1>1. ASSUME L!TypeOK /\ L!LibraryConsistent, C!TypeOK, N!TypeOK, U!TypeOK /\ U!AccountsConsistent,
             G!RegistriesConsistent, E!TypeOK, Q!TypeOK, I!TypeOK, R!TypeOK, T!TypeOK
      PROVE  TypesOK
  BY <1>1, Zenon DEF TypesOK
<1>. QED BY <1>1, LibraryTypeCorrect, SnapshotTypeCorrect, FleetTypeCorrect, AccountTypeCorrect,
            RegistriesHold, LedgerTypeCorrect, ProgramTypeCorrect, IncidentTypeCorrect,
            ResourceTypeCorrect, TimeTypeCorrect, OthersApart, PTL

\* What is computed is what its definition says, whichever part moves and
\* whatever a restore brings back: the fallback that is played, the generated
\* and the recommended programme, the figures, the outputs of a group.
THEOREM ComputedRight == Spec => []ResultsRight
<1>1. L!FallbackNearest /\ Q!GenerateKeepsFirst /\ E!RecommendFull /\ E!FiguresAgree
        /\ G!NormalizeKeepsOrder => ResultsRight
  BY Zenon DEF ResultsRight
<1>. QED BY <1>1, FallsBackNearest, GeneratesInOrder, FiguresRight, NormalizesInOrder, PTL
===============================================================================
