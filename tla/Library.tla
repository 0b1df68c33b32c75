------------------------------- MODULE Library -------------------------------
(***************************************************************************)
(* What is played and when: media, playlists, schedule tasks, cache tasks  *)
(* and scene templates (src/management/media.go, playlist.go, schedule.go, *)
(* cache_task.go, scene_template.go), and the playlist requests of the     *)
(* management API, which make several updates of the store.                *)
(*                                                                         *)
(* A collection is a function from identifiers to records or None.  An     *)
(* update of the store is one step (AtomicStore).  The order and the       *)
(* repetitions of playlist items are left out: references are a set.       *)
(* A scene's name is the number of " (copy)" it ends in.                   *)
(***************************************************************************)
EXTENDS Naturals, FiniteSets

CONSTANTS MediaIds, Paths, PlaylistIds, TaskIds, CacheIds, SceneIds,
          Editors,        \* playlist requests of the API under way
          MaxDepth,       \* maxFallbackDepth
          MaxCopies,      \* bounds the names of duplicated scenes
          None

VARIABLES media, playlists, tasks, caches, scenes,
          edit,           \* per editor: the request and its next update
          stale           \* history: items a request wrote after their media had gone

libVars == <<media, playlists, tasks, caches, scenes, edit, stale>>

Has(f) == {x \in DOMAIN f : f[x] # None}
Opt(S) == S \cup {None}
Playlist == [items : SUBSET MediaIds, fallback : Opt(PlaylistIds)]
Task == [action : {"play", "stop"}, playlist : Opt(PlaylistIds),
         media : Opt(MediaIds), scene : Opt(SceneIds)]
Cache == [media : MediaIds, status : {"pending", "running", "done", "failed"},
          completed : BOOLEAN]
Keep == "keep"            \* a PUT without items
Idle == [at |-> "idle"]

TypeOK ==
  /\ media \in [MediaIds -> Opt(Paths)]
  /\ playlists \in [PlaylistIds -> Opt(Playlist)]
  /\ tasks \in [TaskIds -> Opt(Task)]
  /\ caches \in [CacheIds -> Opt(Cache)]
  /\ scenes \in [SceneIds -> Opt(0..MaxCopies)]
  /\ stale \subseteq PlaylistIds \X MediaIds
  /\ \A c \in Editors :
       \/ edit[c] = Idle
       \/ /\ edit[c].at \in {"resolved", "updated"} /\ edit[c].p \in PlaylistIds
          /\ edit[c].fallback \in Opt(PlaylistIds)
          /\ edit[c].at = "resolved" => edit[c].items \in (SUBSET MediaIds) \cup {{Keep}}

Init ==
  /\ media = [m \in MediaIds |-> None]
  /\ playlists = [p \in PlaylistIds |-> None]
  /\ tasks = [t \in TaskIds |-> None]
  /\ caches = [c \in CacheIds |-> None]
  /\ scenes = [s \in SceneIds |-> None]
  /\ edit = [c \in Editors |-> Idle]
  /\ stale = {}

-----------------------------------------------------------------------------
(* Media *)

Known == {media[m] : m \in Has(media)}

\* Each path becomes an entry with an identifier of its own.
Insert(paths) ==
  \E id \in [paths -> MediaIds \ Has(media)] :
    /\ \A a, b \in paths : id[a] = id[b] => a = b
    /\ media' = [m \in MediaIds |-> IF \E a \in paths : id[a] = m
                                    THEN CHOOSE a \in paths : id[a] = m
                                    ELSE media[m]]

\* addMany: a path that is known, or twice in the batch, rejects the batch.
AddMedia == \E batch \in SUBSET Paths \ {{}} :
  /\ batch \cap Known = {}
  /\ Insert(batch)
  /\ UNCHANGED <<playlists, tasks, caches, scenes, edit, stale>>

\* Scan merges what the walk of the directory found: known paths are
\* refreshed in place, the others added.
Scan == \E found \in SUBSET Paths :
  /\ found \ Known # {}
  /\ Insert(found \ Known)
  /\ UNCHANGED <<playlists, tasks, caches, scenes, edit, stale>>

MediaInUse(m) == \/ \E p \in Has(playlists) : m \in playlists[p].items
                 \/ \E t \in Has(tasks) : tasks[t].media = m

\* Cache tasks may refer to media that is gone.
DeleteMedia == \E m \in Has(media) :
  /\ ~MediaInUse(m)
  /\ media' = [media EXCEPT ![m] = None]
  /\ UNCHANGED <<playlists, tasks, caches, scenes, edit, stale>>

-----------------------------------------------------------------------------
(* Playlists *)

\* validateFallbackRef.
FallbackOK(p, f) == f = None \/ (f # p /\ f \in Has(playlists))

SetPlaylist(p, r) == /\ playlists' = [playlists EXCEPT ![p] = r]
                     /\ stale' = stale \ ({p} \X (MediaIds \ (IF r = None THEN {} ELSE r.items)))
                     /\ UNCHANGED <<media, tasks, caches, scenes>>

\* Create checks its items; a fallback is attached by a second update.
PostPlaylist(c) == \E p \in PlaylistIds \ Has(playlists), items \in SUBSET Has(media),
                      f \in Opt(PlaylistIds) :
  /\ edit[c] = Idle
  /\ SetPlaylist(p, [items |-> items, fallback |-> None])
  /\ edit' = IF f = None THEN edit
             ELSE [edit EXCEPT ![c] = [at |-> "updated", p |-> p, fallback |-> f]]

\* PUT resolves its items against a snapshot of the document first,
resolvePlaylistItems == SUBSET Has(media)
PutPlaylist(c) == \E p \in PlaylistIds, items \in resolvePlaylistItems \cup {{Keep}},
                     f \in Opt(PlaylistIds) :
  /\ edit[c] = Idle
  /\ edit' = [edit EXCEPT ![c] = [at |-> "resolved", p |-> p, items |-> items, fallback |-> f]]
  /\ UNCHANGED <<media, playlists, tasks, caches, scenes, stale>>

\* stores them as they were resolved,
UpdatePlaylist(c) ==
  /\ edit[c].at = "resolved"
  /\ edit[c].p \in Has(playlists)
  /\ LET p == edit[c].p
         items == IF edit[c].items = {Keep} THEN playlists[p].items ELSE edit[c].items
     IN /\ FallbackOK(p, playlists[p].fallback)
        /\ playlists' = [playlists EXCEPT ![p].items = items]
        /\ stale' = (stale \ ({p} \X MediaIds)) \cup ({p} \X (items \ Has(media)))
        /\ edit' = [edit EXCEPT ![c] = [at |-> "updated", p |-> p, fallback |-> @.fallback]]
  /\ UNCHANGED <<media, tasks, caches, scenes>>

\* and replaces the fallback in a third step.
SetFallback(c) ==
  /\ edit[c].at = "updated"
  /\ edit[c].p \in Has(playlists)
  /\ FallbackOK(edit[c].p, edit[c].fallback)
  /\ SetPlaylist(edit[c].p, [playlists[edit[c].p] EXCEPT !.fallback = edit[c].fallback])
  /\ edit' = [edit EXCEPT ![c] = Idle]

\* An update that is rejected ends the request; the ones before it stand.
EditFails(c) ==
  /\ edit[c] # Idle
  /\ \/ edit[c].p \notin Has(playlists)
     \/ edit[c].at = "updated" /\ ~FallbackOK(edit[c].p, edit[c].fallback)
  /\ edit' = [edit EXCEPT ![c] = Idle]
  /\ UNCHANGED <<media, playlists, tasks, caches, scenes, stale>>

AddItem == \E p \in Has(playlists), m \in Has(media) :
  /\ m \notin playlists[p].items
  /\ SetPlaylist(p, [playlists[p] EXCEPT !.items = @ \cup {m}])
  /\ UNCHANGED edit

RemoveItem == \E p \in Has(playlists) : \E m \in playlists[p].items :
  /\ FallbackOK(p, playlists[p].fallback)
  /\ SetPlaylist(p, [playlists[p] EXCEPT !.items = @ \ {m}])
  /\ UNCHANGED edit

\* SetItems, and ClearItems with no items.
SetItems == \E p \in Has(playlists), items \in SUBSET Has(media) :
  /\ FallbackOK(p, playlists[p].fallback)
  /\ SetPlaylist(p, [playlists[p] EXCEPT !.items = items])
  /\ UNCHANGED edit

\* Mutant of PlaylistInUse.
PlaylistInUse_TasksOnly(p) == \E t \in Has(tasks) : tasks[t].playlist = p
PlaylistInUse(p) == \/ \E t \in Has(tasks) : tasks[t].playlist = p
                    \/ \E o \in Has(playlists) : playlists[o].fallback = p

DeletePlaylist == \E p \in Has(playlists) :
  /\ ~PlaylistInUse(p)
  /\ SetPlaylist(p, None)
  /\ UNCHANGED edit

-----------------------------------------------------------------------------
(* Resolution *)

Unresolved(p) == playlists[p].items \ Has(media)

\* ResolveWithFallback, from playlist cur on: the playlist whose items are
\* played, or why there is none.
Result(kind, p) == [kind |-> kind, from |-> p]
\* The playlist a walk is at, after how many hops, and those it has been at.
Hop == [hops : 0..MaxDepth, seen : SUBSET PlaylistIds, cur : PlaylistIds]
Onward(h, next) == [hops |-> h.hops + 1, seen |-> h.seen \cup {h.cur}, cur |-> next]
\* Mutant of Walk.
Walk_Eager(p) ==
  LET step[h \in Hop] ==
    LET cur == h.cur
        next == playlists[cur].fallback
    IN IF cur \notin Has(playlists) THEN Result("not found", cur)
       ELSE IF Unresolved(cur) = {} /\ playlists[cur].items # {} THEN Result("items", cur)
       ELSE IF h.hops >= MaxDepth THEN Result("too deep", cur)
       ELSE IF next = None THEN Result("empty", cur)
       ELSE step[Onward(h, cur)]
  IN step[[hops |-> 0, seen |-> {}, cur |-> p]]
Walk(p) ==
  LET step[h \in Hop] ==
    LET cur == h.cur
        next == playlists[cur].fallback
    IN IF cur \in h.seen THEN Result("cycle", cur)
       ELSE IF cur \notin Has(playlists) THEN Result("not found", cur)
       ELSE IF Unresolved(cur) = {} /\ playlists[cur].items # {} THEN Result("items", cur)
       ELSE IF next = None
            THEN Result(IF Unresolved(cur) = {} THEN "empty" ELSE "missing media", cur)
       ELSE IF h.hops >= MaxDepth THEN Result("too deep", cur)
       ELSE step[Onward(h, next)]
  IN step[[hops |-> 0, seen |-> {}, cur |-> p]]

-----------------------------------------------------------------------------
(* Schedule tasks *)

\* validateTaskSpec and validateTaskRefs.
ValidSpec(s) == IF s.action = "stop" THEN s.playlist = None /\ s.media = None
                ELSE (s.playlist = None) # (s.media = None)
RefsOK(t) == /\ t.playlist \in Opt(Has(playlists)) /\ t.media \in Opt(Has(media))
             /\ t.scene \in Opt(Has(scenes))
SetTask(t, r) == /\ tasks' = [tasks EXCEPT ![t] = r]
                 /\ UNCHANGED <<media, playlists, caches, scenes, edit, stale>>

CreateTask == \E t \in TaskIds \ Has(tasks), s \in Task :
  ValidSpec(s) /\ RefsOK(s) /\ SetTask(t, s)

\* Replace keeps the stored action, whatever the request says it is.
ReplaceTask == \E t \in Has(tasks), s \in Task :
  ValidSpec(s) /\ RefsOK(s) /\ SetTask(t, [s EXCEPT !.action = tasks[t].action])

DeleteTask == \E t \in Has(tasks) : SetTask(t, None)

-----------------------------------------------------------------------------
(* Cache tasks and scene templates *)

Terminal == {"done", "failed"}
SetCache(c, r) == /\ caches' = [caches EXCEPT ![c] = r]
                  /\ UNCHANGED <<media, playlists, tasks, scenes, edit, stale>>

\* syncCacheCompletedAt: a terminal status has a time of completion.
Synced(m, s) == [media |-> m, status |-> s, completed |-> s \in Terminal]
CreateCache == \E c \in CacheIds \ Has(caches), m \in Has(media), r \in Cache :
  SetCache(c, Synced(m, r.status))
UpdateCache == \E c \in Has(caches), m \in Has(media), r \in Cache :
  SetCache(c, Synced(m, r.status))
\* Mutant of MarkRunning.
MarkRunning_KeepsTime == \E c \in Has(caches) :
  SetCache(c, [caches[c] EXCEPT !.status = "running"])
MarkRunning == \E c \in Has(caches) :
  SetCache(c, [caches[c] EXCEPT !.status = "running", !.completed = FALSE])
MarkDone == \E c \in Has(caches) :
  SetCache(c, [caches[c] EXCEPT !.status = "done", !.completed = TRUE])
MarkFailed == \E c \in Has(caches) :
  SetCache(c, [caches[c] EXCEPT !.status = "failed", !.completed = TRUE])
DeleteCache == \E c \in Has(caches) : SetCache(c, None)

SceneNamed(n, s) == \E o \in Has(scenes) \ {s} : scenes[o] = n
SetScene(s, n) == /\ scenes' = [scenes EXCEPT ![s] = n]
                  /\ UNCHANGED <<media, playlists, tasks, caches, edit, stale>>
CreateScene == \E s \in SceneIds \ Has(scenes), n \in 0..MaxCopies :
  ~SceneNamed(n, s) /\ SetScene(s, n)
UpdateScene == \E s \in Has(scenes), n \in 0..MaxCopies :
  ~SceneNamed(n, s) /\ SetScene(s, n)
Duplicate == \E o \in Has(scenes), s \in SceneIds \ Has(scenes) :
  scenes[o] < MaxCopies /\ ~SceneNamed(scenes[o] + 1, s) /\ SetScene(s, scenes[o] + 1)

\* Unguarded: a task may refer to a template that is gone.
DeleteScene == \E s \in Has(scenes) : SetScene(s, None)

-----------------------------------------------------------------------------
(* The requests of the management API *)

handleMedia == AddMedia \/ Scan \/ DeleteMedia
handlePlaylist == \/ \E c \in Editors : \/ PostPlaylist(c) \/ PutPlaylist(c) \/ UpdatePlaylist(c)
                                        \/ SetFallback(c) \/ EditFails(c)
                  \/ AddItem \/ RemoveItem \/ DeletePlaylist
handleTask == CreateTask \/ ReplaceTask \/ DeleteTask
handleCacheTask == CreateCache \/ UpdateCache \/ MarkRunning \/ MarkDone \/ MarkFailed \/ DeleteCache
handleSceneTemplate == CreateScene \/ UpdateScene \/ Duplicate \/ DeleteScene

Next == \/ handleMedia \/ handlePlaylist \/ SetItems
        \/ handleTask \/ handleCacheTask \/ handleSceneTemplate

Spec == Init /\ [][Next]_libVars

-----------------------------------------------------------------------------
(* Properties *)

\* What a playlist item, a fallback or a task refers to can be played: the
\* guards of the deletes and the checks of the updates leave no reference
\* behind, except the items a request resolved before their media was gone,
\* deleted or not in the document a restore put in place.
ReferencesResolve ==
  /\ \A p \in Has(playlists) :
       /\ FallbackOK(p, playlists[p].fallback)
       /\ \A m \in Unresolved(p) : <<p, m>> \in stale
  /\ \A t \in Has(tasks) :
       tasks[t].playlist \in Opt(Has(playlists)) /\ tasks[t].media \in Opt(Has(media))

\* "Media still referenced by any playlist item cannot be deleted"
\* (media.go:194): no item is without its media. No run has this: a request
\* resolves its items before the update that stores them.
ItemsResolve == \A p \in Has(playlists) : Unresolved(p) = {}

\* "A play action needs exactly one target; a stop action needs none"
\* (schedule.go:280): what validation demands of a task is true of it. No run
\* has this: Replace validates the new record and keeps the stored action.
TasksValid == \A t \in Has(tasks) : ValidSpec(tasks[t])

\* The fallback chain plays the nearest playlist that can be played and is no
\* farther than MaxDepth, and otherwise none: no cycle hides one or loops.
FallbackNearest ==
  LET chain(p) == LET at[i \in 0..MaxDepth] ==
                        IF i = 0 THEN p ELSE IF at[i - 1] \in Has(playlists)
                                             THEN playlists[at[i - 1]].fallback ELSE None
                  IN at
      plays(q) == q \in Has(playlists) /\ playlists[q].items # {} /\ Unresolved(q) = {}
  IN \A p \in PlaylistIds :
       LET at == chain(p)
           near == {i \in 0..MaxDepth : plays(at[i]) /\ \A j \in 0..(i - 1) : ~plays(at[j])}
       IN IF near = {} THEN Walk(p).kind # "items"
          ELSE Walk(p) = Result("items", at[CHOOSE i \in near : TRUE])

\* A path is in the library once, whatever scans and additions come together,
\* and a cache task is completed exactly when its status is final.
LibraryConsistent ==
  /\ \A a, b \in Has(media) : media[a] = media[b] => a = b
  /\ \A a, b \in Has(scenes) : scenes[a] = scenes[b] => a = b
  /\ \A c \in Has(caches) : caches[c].completed = (caches[c].status \in Terminal)
=============================================================================
