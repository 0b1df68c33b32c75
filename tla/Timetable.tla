------------------------------- MODULE Timetable -------------------------------
(***************************************************************************)
(* When tasks fire: the tick of the scheduler (src/management/scheduler.go *)
(* tick, computeNext), the cron expressions it evaluates (cron.go) and the *)
(* edits of the tasks meanwhile (schedule.go).  What a fire does with the  *)
(* playback slot is in Scheduler, the loop's start and stop in RunLoop.    *)
(*                                                                         *)
(* The time is in half minutes.  The ticker's channel keeps one tick, so   *)
(* a tick may be handled late, with the time at which it was sent.         *)
(***************************************************************************)
EXTENDS Naturals, FiniteSets

CONSTANTS Tasks,
          Timings,        \* what a task may say: an interval or an expression
          Calendar,       \* the fields of each minute: minute, hour, day, month, weekday
          MaxEdits,       \* bounds the edits, numbered by their UpdatedAt
          None

VARIABLES tasks,          \* the tasks of the document
          now,
          ticker,         \* the tick in the ticker's channel
          tick,           \* the tick under way: its time and the tasks it has read
          sched,          \* per task: the next fire and the UpdatedAt it is for
          loop,           \* "on", "stopping" once Stop has closed done, "off"
          edits,
          seen,           \* history: the tick a task was first seen at or last due
          fired           \* history: the tick a task was last due, in this program or one before

timeVars == <<tasks, now, ticker, tick, sched, loop, edits, seen, fired>>

-----------------------------------------------------------------------------
(* Cron expressions *)

Least(S) == CHOOSE x \in S : \A y \in S : x <= y

\* A field of an expression is a set of parts lo-hi/step; it is empty for a
\* bare star, the only field that is not a restriction. Sunday is 0 and 7.
Part(p) == {v \in p.lo..p.hi : (v - p.lo) % p.step = 0}
parseField(parts, min, max) ==
  [values |-> IF parts = {} THEN min..max ELSE UNION {Part(p) : p \in parts},
   star |-> parts = {}]
Weekday(f) == [f EXCEPT !.values = {v % 7 : v \in @}]
ParseCron(x) ==
  [minute |-> parseField(x.minute, 0, 59), hour |-> parseField(x.hour, 0, 23),
   dom |-> parseField(x.dom, 1, 31), month |-> parseField(x.month, 1, 12),
   dow |-> Weekday(parseField(x.dow, 0, 7))]

\* When day and weekday are both restricted, either will do.
matchDay(c, m) ==
  LET day == m.day \in c.dom.values
      weekday == m.weekday \in c.dow.values
  IN CASE ~c.dom.star /\ ~c.dow.star -> day \/ weekday
       [] ~c.dom.star /\ c.dow.star -> day
       [] c.dom.star /\ ~c.dow.star -> weekday
       [] OTHER -> TRUE
Matches(c, m) == /\ m.minute \in c.minute.values /\ m.hour \in c.hour.values
                 /\ matchDay(c, m) /\ m.month \in c.month.values

Minute(t) == t \div 2
LastTime == 2 * Cardinality(DOMAIN Calendar) - 1

\* Mutant of Next.
Next_Again(c, from) ==
  LET ms == {m \in DOMAIN Calendar : m >= Minute(from) /\ Matches(c, Calendar[m])}
  IN IF ms = {} THEN None ELSE 2 * Least(ms)
\* The start of the first minute after from's that matches. The calendar
\* stands for the five years the code looks ahead.
Next(c, from) ==
  LET ms == {m \in DOMAIN Calendar : m > Minute(from) /\ Matches(c, Calendar[m])}
  IN IF ms = {} THEN None ELSE 2 * Least(ms)

computeNext(timing, from) ==
  IF timing.type = "interval" THEN from + timing.interval ELSE Next(ParseCron(timing.cron), from)

-----------------------------------------------------------------------------
(* The tasks *)

Has(f) == {x \in DOMAIN f : f[x] # None}
Times == 0..LastTime
Opt(S) == S \cup {None}
Task == [timing : Timings, enabled : BOOLEAN, updated : 1..MaxEdits]

TypeOK ==
  /\ tasks \in [Tasks -> Opt(Task)] /\ now \in Times /\ edits \in 0..MaxEdits
  /\ ticker \in Opt(Times) /\ loop \in {"on", "stopping", "off"}
  /\ tick # None => tick.at \in Times /\ tick.tasks \in [Tasks -> Opt(Task)]
  /\ \A t \in Has(sched) : sched[t].updated \in 1..MaxEdits /\ sched[t].next \in Opt(Nat)
  /\ fired \in [Tasks -> Opt(Times)]

Init == /\ tasks = [t \in Tasks |-> None] /\ now = 0 /\ ticker = None /\ tick = None
        /\ sched = [t \in Tasks |-> None] /\ loop = "on" /\ edits = 0
        /\ seen = [t \in Tasks |-> None] /\ fired = [t \in Tasks |-> None]

\* Every edit is an update of the store with a new UpdatedAt.
Put(t, task) == /\ edits < MaxEdits /\ edits' = edits + 1
                /\ tasks' = [tasks EXCEPT ![t] = task]
                /\ UNCHANGED <<now, ticker, tick, sched, loop, seen>>

\* Create takes a new id: never one of the tick under way.
Create == \E t \in Tasks \ Has(tasks), x \in Timings, e \in BOOLEAN :
  /\ tick # None => tick.tasks[t] = None
  /\ Put(t, [timing |-> x, enabled |-> e, updated |-> edits + 1])
  /\ fired' = [fired EXCEPT ![t] = None]
Replace == \E t \in Has(tasks), x \in Timings, e \in BOOLEAN :
  /\ Put(t, [tasks[t] EXCEPT !.timing = x, !.enabled = e, !.updated = edits + 1])
  /\ UNCHANGED fired
SetEnabled == \E t \in Has(tasks), e \in BOOLEAN :
  /\ Put(t, [tasks[t] EXCEPT !.enabled = e, !.updated = edits + 1])
  /\ UNCHANGED fired
Delete == \E t \in Has(tasks) :
  /\ tasks' = [tasks EXCEPT ![t] = None]
  /\ UNCHANGED <<now, ticker, tick, sched, loop, edits, seen, fired>>

handleTask == Create \/ Replace \/ SetEnabled \/ Delete

-----------------------------------------------------------------------------
(* The tick *)

Pass == /\ now < LastTime /\ now' = now + 1
        /\ ticker' = IF loop # "off" /\ ticker = None THEN now + 1 ELSE ticker
        /\ UNCHANGED <<tasks, tick, sched, loop, edits, seen, fired>>

\* tick reads the enabled tasks before it takes s.mu,
enabledTasks ==
  /\ loop # "off" /\ tick = None /\ ticker # None
  /\ tick' = [at |-> ticker,
              tasks |-> [t \in Tasks |-> IF t \in Has(tasks) /\ tasks[t].enabled
                                         THEN tasks[t] ELSE None]]
  /\ ticker' = None
  /\ UNCHANGED <<tasks, now, sched, loop, edits, seen, fired>>

\* and under it renews the entries of new and edited tasks, and fires what is
\* due, as the tick read it. The LastRun that a fire writes is only shown.
Entry(task, next) == [updated |-> task.updated, next |-> next]
\* Mutant of Current.
Current_Kept(t) ==
  IF t \in Has(sched) THEN sched[t]
  ELSE Entry(tick.tasks[t], computeNext(tick.tasks[t].timing, tick.at))
Current(t) ==
  IF t \in Has(sched) /\ sched[t].updated = tick.tasks[t].updated THEN sched[t]
  ELSE Entry(tick.tasks[t], computeNext(tick.tasks[t].timing, tick.at))
IsDue(t) == Current(t).next # None /\ Current(t).next <= tick.at
Due == {t \in Has(tick.tasks) : IsDue(t)}
Evaluate ==
  /\ tick # None
  /\ sched' = [t \in Tasks |->
       IF tick.tasks[t] = None THEN None
       ELSE IF t \in Due THEN Entry(tick.tasks[t], computeNext(tick.tasks[t].timing, tick.at))
       ELSE Current(t)]
  /\ fired' = [t \in Tasks |-> IF t \in Due THEN tick.at ELSE fired[t]]
  /\ seen' = [t \in Tasks |->
       IF tick.tasks[t] = None THEN None
       ELSE IF t \in Due \/ seen[t] = None \/ seen[t].updated # tick.tasks[t].updated
            THEN [updated |-> tick.tasks[t].updated, at |-> tick.at]
       ELSE seen[t]]
  /\ tick' = None
  /\ UNCHANGED <<tasks, now, ticker, loop, edits>>

-----------------------------------------------------------------------------
(* The program *)

\* Stop may come in the middle of a tick, and one more may follow it, as the
\* loop picks at random among what is ready. The entries stay.
Stop == /\ loop = "on" /\ loop' = "stopping"
        /\ UNCHANGED <<tasks, now, ticker, tick, sched, edits, seen, fired>>
Exit == /\ loop = "stopping" /\ tick = None
        /\ loop' = "off" /\ ticker' = None
        /\ UNCHANGED <<tasks, now, tick, sched, edits, seen, fired>>
\* A Start before the Stop under way has returned is in RunLoop.
Start == /\ loop = "off" /\ loop' = "on"
         /\ UNCHANGED <<tasks, now, ticker, tick, sched, edits, seen, fired>>

\* The program ends at any step, is started again, and starts its scheduler.
Restart == /\ loop' = "on" /\ ticker' = None /\ tick' = None
           /\ sched' = [t \in Tasks |-> None] /\ seen' = [t \in Tasks |-> None]
           /\ UNCHANGED <<tasks, now, edits, fired>>

Moves == handleTask \/ Pass \/ enabledTasks \/ Evaluate \/ Stop \/ Exit \/ Start \/ Restart

Spec == Init /\ [][Moves]_timeVars

-----------------------------------------------------------------------------
(* Properties *)

\* What an expression says of a minute, in the words of cron.go:9-24.
Says(parts, v) == parts = {} \/ \E p \in parts : v \in p.lo..p.hi /\ (v - p.lo) % p.step = 0
Wanted(x, m) ==
  LET day == Says(x.dom, m.day)
      weekday == \E w \in {m.weekday, m.weekday + 7} : w \in 0..7 /\ Says(x.dow, w)
  IN /\ Says(x.minute, m.minute) /\ Says(x.hour, m.hour) /\ Says(x.month, m.month)
     /\ IF x.dom # {} /\ x.dow # {} THEN day \/ weekday ELSE day /\ weekday

\* Since the tick at which it was first seen, or last fired, a minute that the
\* expression wants has begun, or the interval has passed.
Elapsed(timing, from, at) ==
  IF timing.type = "interval" THEN at >= from + timing.interval
  ELSE \E m \in DOMAIN Calendar : 2 * m <= at /\ m > Minute(from) /\ Wanted(timing.cron, Calendar[m])

\* A tick fires exactly the tasks that were due since it saw them first or
\* fired them last, as the tick has read them: no cached next fire survives an
\* edit, none is lost to ticks that come late or to a stop, and none comes
\* twice (tick, computeNext).
FiresWhenDue == [][\A t \in Tasks :
  Evaluate /\ tick.tasks[t] # None =>
    ((fired'[t] = tick.at) <=>
       /\ seen[t] # None /\ seen[t].updated = tick.tasks[t].updated
       /\ Elapsed(tick.tasks[t].timing, seen[t].at, tick.at))]_timeVars

\* A task with an expression fires at most once in a minute, whatever edits,
\* stops and restarts of the program come within it (Next is strictly after).
OncePerMinute == [][\A t \in Tasks :
  fired'[t] # fired[t] /\ fired[t] # None /\ fired'[t] # None
    /\ tick.tasks[t].timing.type = "cron" => Minute(fired'[t]) > Minute(fired[t])]_timeVars
=============================================================================
