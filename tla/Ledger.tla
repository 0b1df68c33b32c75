-------------------------------- MODULE Ledger --------------------------------
(***************************************************************************)
(* The playback log and what is read from it (src/management/play_event.go, *)
(* metrics.go, suggestion_gen.go) and the audit log (audit.go).            *)
(*                                                                         *)
(* A log is a sequence in document order.  Record takes the time of an     *)
(* entry before the update that appends it, so that order need not be that *)
(* of the times; listing and pruning go by time.  Only the scheduler       *)
(* records plays, and nothing in the program records audit entries or      *)
(* prunes the playback log: those are the operations of the two services.  *)
(***************************************************************************)
EXTENDS Naturals, Sequences, FiniteSets, SequencesExt, Lists

CONSTANTS MediaIds,       \* numbered in the order of the identifiers
          MaxEvents,      \* bounds the times of plays and of audit entries
          Limits,         \* what a caller asks a list to be cut to
          NoMedia         \* a play of a playlist that names no media

VARIABLES events,         \* the playback log
          audit,          \* the audit log
          drafts, auditDrafts, \* stamped and not yet appended
          clock           \* the times of the last play and the last audit entry

ledgerVars == <<events, audit, drafts, auditDrafts, clock>>

Event == [time : 1..MaxEvents, media : MediaIds \cup {NoMedia}, ok : BOOLEAN]
Entry == [time : 1..MaxEvents, ok : BOOLEAN]

TypeOK ==
  /\ events \in Seq(Event) /\ drafts \subseteq Event
  /\ audit \in Seq(Entry) /\ auditDrafts \subseteq Entry
  /\ clock \in (0..MaxEvents) \X (0..MaxEvents)

Init == events = <<>> /\ audit = <<>> /\ drafts = {} /\ auditDrafts = {} /\ clock = <<0, 0>>

-----------------------------------------------------------------------------
(* Recording and pruning *)

StampEvent == \E m \in MediaIds \cup {NoMedia}, ok \in BOOLEAN :
  /\ clock[1] < MaxEvents
  /\ clock' = [clock EXCEPT ![1] = @ + 1]
  /\ drafts' = drafts \cup {[time |-> clock[1] + 1, media |-> m, ok |-> ok]}
  /\ UNCHANGED <<events, audit, auditDrafts>>

\* The play is appended, or lost when the write fails.
RecordEvent == \E e \in drafts :
  /\ drafts' = drafts \ {e}
  /\ events' = Append(events, e) \/ UNCHANGED events
  /\ UNCHANGED <<audit, auditDrafts, clock>>

\* The entries of log that are among the newest max, in document order.
\* Mutant of Newest.
Newest_Last(log, max) == SubSeq(log, (IF Len(log) > max THEN Len(log) - max + 1 ELSE 1), Len(log))
Newest(log, max) ==
  Among(log, {i \in DOMAIN log : Cardinality({k \in DOMAIN log : log[k].time > log[i].time}) < max})

PruneEvents == \E max \in Limits :
  /\ Len(events) > max
  /\ events' = Newest(events, max)
  /\ UNCHANGED <<audit, drafts, auditDrafts, clock>>

StampAudit == \E ok \in BOOLEAN :
  /\ clock[2] < MaxEvents
  /\ clock' = [clock EXCEPT ![2] = @ + 1]
  /\ auditDrafts' = auditDrafts \cup {[time |-> clock[2] + 1, ok |-> ok]}
  /\ UNCHANGED <<events, audit, drafts>>

RecordAudit == \E e \in auditDrafts :
  /\ auditDrafts' = auditDrafts \ {e}
  /\ audit' = Append(audit, e) \/ UNCHANGED audit
  /\ UNCHANGED <<events, drafts, clock>>

PruneAudit == \E max \in Limits :
  /\ Len(audit) > max
  /\ audit' = Newest(audit, max)
  /\ UNCHANGED <<events, drafts, auditDrafts, clock>>

Playback == StampEvent \/ RecordEvent \/ PruneEvents
handleAudit == StampAudit \/ RecordAudit \/ PruneAudit
Next == Playback \/ handleAudit

Spec == Init /\ [][Next]_ledgerVars

-----------------------------------------------------------------------------
(* What is read *)

Of(media) == {k \in DOMAIN events : events[k].media = media}
Plays(media) == Cardinality(Of(media))
CountByResult(ok) == Cardinality({k \in DOMAIN events : events[k].ok = ok})

\* MediaFailureRate: the rate is failures over plays.
\* Mutant of Failures.
Failures_Named(media) == Cardinality({k \in Of(media) : ~events[k].ok /\ media # NoMedia})
Failures(media) == Cardinality({k \in Of(media) : ~events[k].ok})

\* PlaybackSummary.
Summary == [total |-> Len(events), successes |-> CountByResult(TRUE), failures |-> CountByResult(FALSE)]

\* By plays, most first, and then by identifier: a media comes after as many as
\* go before it.
Before(a, b) == Plays(a) > Plays(b) \/ (Plays(a) = Plays(b) /\ a < b)
Ranked(S) ==
  [n \in 1..Cardinality(S) |-> CHOOSE m \in S : Cardinality({o \in S : Before(o, m)}) = n - 1]
Played == {m \in MediaIds : Plays(m) > 0}
TopMedia(n) == LET all == Ranked(Played) IN IF Len(all) > n THEN SubSeq(all, 1, n) ELSE all

\* RecommendMedia: what was played last is left out before the ranking.
\* Mutant of Recommend.
Recommend_ExcludeLast(recent, limit) ==
  SelectSeq(TopMedia(limit), LAMBDA m : m \notin recent)
Recommend(recent, limit) ==
  LET all == Ranked(Played \ recent) IN IF Len(all) > limit THEN SubSeq(all, 1, limit) ELSE all

-----------------------------------------------------------------------------
(* Properties *)

\* In a step of these services no entry changes or moves, and those that go
\* are pruned: no older one stays, as many as may stay do, and in the order of
\* the document, although entries are not appended in the order of their times
\* (Prune).
Pruned(old, new) ==
  IF Len(new) >= Len(old) THEN \A i \in DOMAIN old : i \in DOMAIN new /\ new[i] = old[i]
  ELSE /\ \A a \in ToSet(old) \ ToSet(new), b \in ToSet(old) :
            b.time < a.time => b \notin ToSet(new)
       /\ new = Among(old, {i \in DOMAIN old : old[i] \in ToSet(new)})
       /\ Len(new) \in Limits
PruneKeepsNewest == Pruned(events, events') /\ Pruned(audit, audit')

\* A recommendation is full: a media that is played, was not played just now
\* and is not recommended ranks below all that are, and only when the list is
\* as long as was asked ("the result stays full", suggestion_gen.go:46).
RecommendFull == \A recent \in SUBSET MediaIds, limit \in Limits \ {0} :
  LET out == Recommend(recent, limit) IN
  /\ ToSet(out) \subseteq Played \ recent
  /\ \A m \in (Played \ recent) \ ToSet(out) :
       Len(out) = limit /\ \A o \in ToSet(out) : Before(o, m)
  /\ \A i, j \in DOMAIN out : i < j => Before(out[i], out[j])

\* The figures that are read from the log in different ways agree: the
\* failures of the media and of the plays without one make up the summary.
FiguresAgree ==
  LET sum[n \in 0..Cardinality(MediaIds)] ==
        IF n = 0 THEN Failures(NoMedia) ELSE sum[n - 1] + Failures(n)
  IN /\ sum[Cardinality(MediaIds)] = Summary.failures
     /\ Summary.total = Summary.successes + Summary.failures
     /\ TopMedia(Cardinality(MediaIds)) = Recommend({}, Cardinality(MediaIds))
=============================================================================
