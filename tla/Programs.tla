------------------------------- MODULE Programs -------------------------------
(***************************************************************************)
(* Programs made for the operator: industry templates and their deployment *)
(* (src/management/industry_template.go, deploy.go), smart rules and what  *)
(* is generated from them (smart_rule.go, smart_generate.go), suggestions  *)
(* and their review (suggestion.go).                                       *)
(*                                                                         *)
(* An update of the store is one step (AtomicStore); a deployment and a    *)
(* generation are several, and other requests come between.  Media are     *)
(* numbered in the order of the library.  Names of templates are the only  *)
(* ones that matter, because a deployed scene is named after its template. *)
(***************************************************************************)
EXTENDS Naturals, Sequences, FiniteSets

CONSTANTS Media,          \* identifiers, in library order: 1..n
          TagsOf, Duration, \* of a media; duration 0 is unknown
          Tags, Kinds, TemplateIds, TemplateNames, RuleIds, SuggestionIds,
          PlaylistIds, TaskIds, Callers, Key, None

VARIABLES library, playlists, tasks, scenes, templates, rules, suggestions,
          request         \* per caller: a deployment or generation under way

programVars == <<library, playlists, tasks, scenes, templates, rules, suggestions, request>>

Has(f) == {x \in DOMAIN f : f[x] # None}
Opt(S) == S \cup {None}
Idle == [at |-> "idle"]
Template == [name : TemplateNames, entries : SUBSET (Media \cup {Key}),
             kinds : SUBSET Kinds, task : BOOLEAN]
Rule == [tags : SUBSET Tags, cap : {0, 1}, avoid : BOOLEAN, max : {0, 1}, open : BOOLEAN]
Suggestion == [media : Opt(Media), status : {"pending", "applied", "rejected"},
               playlist : Opt(PlaylistIds)]

TypeOK ==
  /\ library \subseteq Media /\ scenes \subseteq TemplateNames \X Kinds
  /\ playlists \in [PlaylistIds -> Opt(SUBSET Media)]
  /\ tasks \in [TaskIds -> Opt(PlaylistIds)]
  /\ templates \in [TemplateIds -> Opt(Template)]
  /\ rules \in [RuleIds -> Opt(Rule)]
  /\ suggestions \in [SuggestionIds -> Opt(Suggestion)]
  /\ \A c \in Callers : request[c].at \in {"idle", "template", "checked", "deploying", "rule", "generated"}

Init ==
  /\ library = {} /\ scenes = {}
  /\ playlists = [p \in PlaylistIds |-> None] /\ tasks = [t \in TaskIds |-> None]
  /\ templates = [t \in TemplateIds |-> None] /\ rules = [r \in RuleIds |-> None]
  /\ suggestions = [s \in SuggestionIds |-> None]
  /\ request = [c \in Callers |-> Idle]

-----------------------------------------------------------------------------
(* The requests of others that matter here (Library) *)

AddMedia == \E m \in Media \ library :
  /\ library' = library \cup {m}
  /\ UNCHANGED <<playlists, tasks, scenes, templates, rules, suggestions, request>>
DeleteMedia == \E m \in library :
  /\ \A p \in Has(playlists) : m \notin playlists[p]
  /\ library' = library \ {m}
  /\ UNCHANGED <<playlists, tasks, scenes, templates, rules, suggestions, request>>
DeletePlaylist == \E p \in Has(playlists) :
  /\ \A t \in Has(tasks) : tasks[t] # p
  /\ playlists' = [playlists EXCEPT ![p] = None]
  /\ UNCHANGED <<library, tasks, scenes, templates, rules, suggestions, request>>
DeleteTask == \E t \in Has(tasks) :
  /\ tasks' = [tasks EXCEPT ![t] = None]
  /\ UNCHANGED <<library, playlists, scenes, templates, rules, suggestions, request>>
DeleteScene == \E s \in scenes :
  /\ scenes' = scenes \ {s}
  /\ UNCHANGED <<library, playlists, tasks, templates, rules, suggestions, request>>

\* PlaylistService.Create: every item must be in the library.
CreatePlaylist(p, items) == /\ items \subseteq library
                            /\ playlists' = [playlists EXCEPT ![p] = items]
Step(c, r) == request' = [request EXCEPT ![c] = r]

-----------------------------------------------------------------------------
(* Industry templates *)

TemplateNamed(n, t) == \E o \in Has(templates) \ {t} : templates[o].name = n
SetTemplate(t, r) ==
  /\ templates' = [templates EXCEPT ![t] = r]
  /\ UNCHANGED <<library, playlists, tasks, scenes, rules, suggestions, request>>
CreateTemplate == \E t \in TemplateIds \ Has(templates), r \in Template :
  ~TemplateNamed(r.name, t) /\ SetTemplate(t, r)
UpdateTemplate == \E t \in Has(templates), r \in Template :
  ~TemplateNamed(r.name, t) /\ SetTemplate(t, r)
DeleteTemplate == \E t \in Has(templates) : SetTemplate(t, None)

\* expandPlaceholders: literal entries stand for themselves; a placeholder
\* for the parameter, which the caller may have left out.
Expand(entries, param) == (entries \ {Key}) \cup (IF Key \in entries THEN {param} ELSE {})

\* A deploy request reads the template once, enabled or not.
GetTemplate(c) == \E t \in Has(templates) :
  /\ request[c] = Idle
  /\ Step(c, [at |-> "template", template |-> templates[t]])
  /\ UNCHANGED <<library, playlists, tasks, scenes, templates, rules, suggestions>>

\* Deploy expands the entries and checks them against the library,
CheckMedia(c) == \E param \in Opt(Media) :
  /\ request[c].at = "template"
  /\ LET items == Expand(request[c].template.entries, param)
     IN Step(c, IF items \subseteq library
                THEN [at |-> "checked", template |-> request[c].template, items |-> items]
                ELSE Idle)
  /\ UNCHANGED <<library, playlists, tasks, scenes, templates, rules, suggestions>>

\* creates the playlist,
Deploying(t, p, left) == [at |-> "deploying", template |-> t, playlist |-> p, left |-> left]
\* Mutant of DeployPlaylist.
DeployPlaylist_Trusts(c) == \E p \in PlaylistIds \ Has(playlists) :
  /\ request[c].at = "checked"
  /\ playlists' = [playlists EXCEPT ![p] = request[c].items]
  /\ Step(c, Deploying(request[c].template, p, request[c].template.kinds))
  /\ UNCHANGED <<library, tasks, scenes, templates, rules, suggestions>>
DeployPlaylist(c) == \E p \in PlaylistIds \ Has(playlists) :
  /\ request[c].at = "checked"
  /\ CreatePlaylist(p, request[c].items)
  /\ Step(c, Deploying(request[c].template, p, request[c].template.kinds))
  /\ UNCHANGED <<library, tasks, scenes, templates, rules, suggestions>>

\* one scene per kind, named after the template and unique,
DeployScene(c) ==
  /\ request[c].at = "deploying"
  /\ \E k \in request[c].left :
       LET scene == <<request[c].template.name, k>> IN
       /\ scene \notin scenes
       /\ scenes' = scenes \cup {scene}
       /\ Step(c, [request[c] EXCEPT !.left = @ \ {k}])
  /\ UNCHANGED <<library, playlists, tasks, templates, rules, suggestions>>

\* and the task, which must find the playlist still there.
DeployTask(c) == \E t \in TaskIds \ Has(tasks) :
  /\ request[c].at = "deploying" /\ request[c].left = {} /\ request[c].template.task
  /\ request[c].playlist \in Has(playlists)
  /\ tasks' = [tasks EXCEPT ![t] = request[c].playlist]
  /\ Step(c, Idle)
  /\ UNCHANGED <<library, playlists, scenes, templates, rules, suggestions>>

DeployDone(c) ==
  /\ request[c].at = "deploying" /\ request[c].left = {} /\ ~request[c].template.task
  /\ Step(c, Idle)
  /\ UNCHANGED <<library, playlists, tasks, scenes, templates, rules, suggestions>>

\* A step that is refused, or whose write fails, ends the deployment; what
\* it has created stays.
DeployFails(c) ==
  /\ request[c].at \in {"checked", "deploying"}
  /\ Step(c, Idle)
  /\ UNCHANGED <<library, playlists, tasks, scenes, templates, rules, suggestions>>

handleIndustryTemplate ==
  \/ CreateTemplate \/ UpdateTemplate \/ DeleteTemplate
  \/ \E c \in Callers : \/ GetTemplate(c) \/ CheckMedia(c) \/ DeployPlaylist(c)
                        \/ DeployScene(c) \/ DeployTask(c) \/ DeployDone(c) \/ DeployFails(c)

-----------------------------------------------------------------------------
(* Smart rules *)

SetRule(r, v) ==
  /\ rules' = [rules EXCEPT ![r] = v]
  /\ UNCHANGED <<library, playlists, tasks, scenes, templates, suggestions, request>>
CreateRule == \E r \in RuleIds \ Has(rules), v \in Rule : SetRule(r, v)
UpdateRule == \E r \in Has(rules), v \in Rule : SetRule(r, v)
DeleteRule == \E r \in Has(rules) : SetRule(r, None)

\* matchesTags, knownDuration and inRecent (over the last defaultRepeatLookback).
MatchesTags(rule, m) == rule.tags = {} \/ rule.tags \cap TagsOf[m] # {}
TooLong(rule, m) == rule.cap > 0 /\ Duration[m] > 0 /\ Duration[m] > rule.cap
Repeats(rule, m, recent) == rule.avoid /\ m \in recent

\* GeneratePlaylist: one pass over the library that stops when the list is
\* full.  Here the default cap is more than the library holds.
Cap(rule) == IF rule.max = 0 THEN Cardinality(Media) ELSE rule.max
\* Mutant of Generate.
Generate_CutFirst(rule, lib, recent) ==
  {m \in lib : /\ rule.open /\ MatchesTags(rule, m) /\ ~TooLong(rule, m)
               /\ ~Repeats(rule, m, recent)
               /\ Cardinality({o \in lib : o < m}) < Cap(rule)}
Generate(rule, lib, recent) ==
  LET pass[m \in 0..Cardinality(Media)] ==
        IF m = 0 THEN {}
        ELSE LET out == pass[m - 1] IN
             IF \/ m \notin lib \/ ~MatchesTags(rule, m) \/ TooLong(rule, m)
                \/ Repeats(rule, m, recent) \/ Cardinality(out) >= Cap(rule)
             THEN out ELSE out \cup {m}
  IN IF rule.open THEN pass[Cardinality(Media)] ELSE {}

\* generate-and-apply reads the rule, without asking whether it is enabled,
GetRule(c) == \E r \in Has(rules) :
  /\ request[c] = Idle
  /\ Step(c, [at |-> "rule", rule |-> rules[r]])
  /\ UNCHANGED <<library, playlists, tasks, scenes, templates, rules, suggestions>>

\* generates from the library as it is now; an empty list is refused,
GeneratePlaylist(c) == \E recent \in SUBSET Media :
  /\ request[c].at = "rule"
  /\ LET items == Generate(request[c].rule, library, recent)
     IN Step(c, IF items = {} THEN Idle ELSE [at |-> "generated", items |-> items])
  /\ UNCHANGED <<library, playlists, tasks, scenes, templates, rules, suggestions>>

\* and creates the playlist, or fails when the library has moved on.
ApplyGenerated(c) ==
  /\ request[c].at = "generated"
  /\ \/ \E p \in PlaylistIds \ Has(playlists) : CreatePlaylist(p, request[c].items)
     \/ UNCHANGED playlists
  /\ Step(c, Idle)
  /\ UNCHANGED <<library, tasks, scenes, templates, rules, suggestions>>

handleSmartRule == \/ CreateRule \/ UpdateRule \/ DeleteRule
                   \/ \E c \in Callers : GetRule(c) \/ GeneratePlaylist(c) \/ ApplyGenerated(c)

-----------------------------------------------------------------------------
(* Suggestions *)

CreateSuggestion == \E s \in SuggestionIds \ Has(suggestions), m \in Opt(Media) :
  /\ suggestions' = [suggestions EXCEPT ![s] =
                       [media |-> m, status |-> "pending", playlist |-> None]]
  /\ UNCHANGED <<library, playlists, tasks, scenes, templates, rules, request>>

\* Mutant of Approve.
Approve_Again == \E s \in Has(suggestions), p \in PlaylistIds \ Has(playlists) :
  /\ suggestions[s].status # "rejected" /\ suggestions[s].media # None
  /\ CreatePlaylist(p, {suggestions[s].media})
  /\ suggestions' = [suggestions EXCEPT ![s] = [@ EXCEPT !.status = "applied", !.playlist = p]]
  /\ UNCHANGED <<library, tasks, scenes, templates, rules, request>>
\* The decision and the playlist are one update.
Approve == \E s \in Has(suggestions), p \in PlaylistIds \ Has(playlists) :
  /\ suggestions[s].status = "pending" /\ suggestions[s].media # None
  /\ CreatePlaylist(p, {suggestions[s].media})
  /\ suggestions' = [suggestions EXCEPT ![s] = [@ EXCEPT !.status = "applied", !.playlist = p]]
  /\ UNCHANGED <<library, tasks, scenes, templates, rules, request>>

Reject == \E s \in Has(suggestions) :
  /\ suggestions[s].status = "pending"
  /\ suggestions' = [suggestions EXCEPT ![s] = [@ EXCEPT !.status = "rejected"]]
  /\ UNCHANGED <<library, playlists, tasks, scenes, templates, rules, request>>

handleSuggestion == CreateSuggestion \/ Approve \/ Reject

Next ==
  \/ AddMedia \/ DeleteMedia \/ DeletePlaylist \/ DeleteTask \/ DeleteScene
  \/ handleIndustryTemplate \/ handleSmartRule \/ handleSuggestion

Spec == Init /\ [][Next]_programVars

-----------------------------------------------------------------------------
(* Properties *)

\* However a deployment, a generation or an approval is overtaken by deletes
\* between its steps, it leaves no item without its media and no task without
\* its playlist ("a missing media fails without creating anything",
\* deploy.go:31), and names stay unique.
ProgramsResolve ==
  /\ \A p \in Has(playlists) : playlists[p] \subseteq library
  /\ \A t \in Has(tasks) : tasks[t] \in Has(playlists)
  /\ \A t \in Has(templates) : ~TemplateNamed(templates[t].name, t)

\* What is generated is the start, in library order, of what the rule allows:
\* a filter never costs a later media its place (GeneratePlaylist).
GenerateKeepsFirst == \A r \in Has(rules), recent \in SUBSET Media :
  LET rule == rules[r]
      allowed == {m \in library : rule.open /\ MatchesTags(rule, m) /\ ~TooLong(rule, m)
                                  /\ ~Repeats(rule, m, recent)}
  IN Generate(rule, library, recent) =
       {m \in allowed : Cardinality({o \in allowed : o < m}) < Cap(rule)}

\* In a step of this service a review decision is final, and an approval makes
\* its one playlist in the same update: it is never half done and never done
\* twice (suggestion.go:149).
DecisionsFinal == \A s \in Has(suggestions) :
  /\ suggestions'[s] # None
  /\ suggestions[s].status # "pending" => suggestions'[s] = suggestions[s]
  /\ suggestions'[s].status = "applied" /\ suggestions[s].status = "pending" =>
       /\ playlists[suggestions'[s].playlist] = None
       /\ playlists'[suggestions'[s].playlist] = {suggestions[s].media}
=============================================================================
