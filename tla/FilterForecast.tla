--------------------------- MODULE FilterForecast ---------------------------
(***************************************************************************)
(* The due state of one filter: what the coordinator reads of the fan's    *)
(* runtime, when it judges it anew, and what it may claim in between       *)
(* (filter_runtime, filter_forecast, coordinator).                         *)
(*                                                                         *)
(* Time is counted in units.  Step units make a slot, the source's five    *)
(* minutes; Day units make a local day.  The fan runs in whole units.  The *)
(* source reports finished slots in any order, each once; a daily summary  *)
(* counts the reported slots of its day and adds their runtime.            *)
(* Malformed, deleted and corrected rows, other time zones, baselines of   *)
(* finalized boundaries and the projected dates are left out.              *)
(***************************************************************************)
EXTENDS Integers, FiniteSets, FiniteSetsExt

CONSTANTS
  Step, Day,
  Reread,       \* the cache of change days is renewed after so much time
  Lifetime,     \* filter_lifetime_runtime_hours
  MaxAge,       \* filter_max_age_days
  Fan,          \* the units in which the fan runs
  Start,        \* when the integration is set up
  MaxTime,      \* bound: units
  MaxChanges,   \* bound: filter changes recorded
  None

VARIABLES
  now,
  reported,     \* slots the source has
  changed,      \* the filter change on record: [at, exact], or None
  cache,        \* _filter_day_cache: [key, rows], or None
  task,         \* the refresh: where it is and what it has read
  data,         \* the published projection and the rows it is made of
  timer,        \* the deadline of the next projection
  changes

vars == <<now, reported, changed, cache, task, data, timer, changes>>

DayOf(t)   == t \div Day
Floor(t)   == (t \div Step) * Step
Ceil(t)    == Floor(t + Step - 1)
SlotsOf(d) == {k \in 0..MaxTime : DayOf(k * Step) = d}
Ran(slots) == Cardinality({u \in Fan : u \div Step \in slots})
Above0(n)  == IF n > 0 THEN n ELSE 0

Idle   == [pc |-> "idle", changed |-> None, end |-> None, summary |-> {}, at |-> 0]
NoData == [changed |-> None, end |-> None, summary |-> {}, at |-> 0, seen |-> None]

----------------------------------------------------------------------------
(* Observed runtime.                                                       *)

\* What has been reported ends here: end is the last reported slot.
Horizon(end) == IF end = None THEN now ELSE Min({now, (end + 1) * Step})

\* assess_change_day
ChangeDay(c, rows, end) ==
  LET horizon == Min({(DayOf(c.at) + 1) * Day, Horizon(end)})
      first   == Ceil(c.at)
      slots   == {k \in rows : first <= k * Step /\ k * Step < Floor(horizon)}
      gap     == Above0(Floor(horizon) - first) - Step * Cardinality(slots)
  IN  [observed |-> IF slots = {} THEN None ELSE Ran(slots),
       unknown  |-> Above0(gap) + Above0(Min({first - c.at, horizon - c.at}))]

\* _boundary_observation: of a change known by its date the day is unknown.
Boundary(c, cached, end) ==
  IF ~c.exact THEN [observed |-> None, unknown |-> Day]
  ELSE IF cached = None \/ cached.key.at # c.at THEN [observed |-> None, unknown |-> None]
  ELSE ChangeDay(c, cached.rows, end)

\* _daily_runtime: the summary of a day of which so many units have passed.
Daily(d, summary, units) ==
  LET slots == summary \cap SlotsOf(d)
      missing == units - Step * Cardinality(slots)
  IN  [observed |-> IF slots = {} THEN None ELSE Ran(slots),
       unknown  |-> IF missing < 0 THEN None ELSE missing]

\* _daily_observations
Days(c, end, summary) ==
  LET horizon == Floor(Horizon(end))
      units(d) == Floor(Above0(Min({(d + 1) * Day, horizon}) - d * Day))
  IN  {[day |-> d, got |-> Daily(d, summary, units(d))] :
         d \in {d \in DayOf(c.at) + 1 .. DayOf(horizon) : units(d) > 0}}

Known(parts) == {p \in parts : p.got.observed # None}

\* Time since the horizon: nothing of it has been reported.
Tail(c, end) ==
  LET since == IF c.exact THEN c.at ELSE (DayOf(c.at) + 1) * Day
  IN  Above0(now - Max({Floor(Horizon(end)), since}))

\* build_filter_runtime_observation
Observation(c, cached, end, summary) ==
  LET parts == Days(c, end, summary)
                 \cup {[day |-> DayOf(c.at), got |-> Boundary(c, cached, end)]}
      Sum(f(_)) == FoldSet(LAMBDA p, n : n + f(p), 0, parts)
      observed(p) == IF p.got.observed = None THEN 0 ELSE p.got.observed
      unknown(p)  == p.got.unknown
  IN  IF c = None \/ DayOf(c.at) > DayOf(now) THEN [observed |-> None, unknown |-> None]
      ELSE [observed |-> IF Known(parts) = {} THEN None ELSE Sum(observed),
            unknown  |-> IF end = None \/ \E p \in parts : p.got.unknown = None
                         THEN None ELSE Sum(unknown) + Tail(c, end)]

\* threshold_reached
Reached(o) ==
  IF o.observed = None THEN None
  ELSE IF o.observed >= Lifetime THEN TRUE
  ELSE IF o.unknown # None /\ o.observed + o.unknown < Lifetime THEN FALSE
  ELSE None

\* build_filter_forecast: the calendar's deadline, or the observed runtime.
Due(c, o, today) ==
  IF c # None /\ DayOf(c.at) + MaxAge <= today THEN TRUE ELSE Reached(o)

\* What the filter's entity shows: the due state on the day of the projection.
Shown == Due(data.changed, data.seen, DayOf(data.at))

----------------------------------------------------------------------------
(* Projection.                                                             *)

\* Mutant: what has not been reported cannot make the filter due.
LeftObserved(o) == Lifetime - o.observed
Left(o) == Lifetime - (o.observed + o.unknown)

\* next_filter_uncertainty_deadline: how long "not due" stays proven.
UncertainAt(o) == IF Reached(o) = FALSE THEN {now + Left(o)} ELSE {}

\* _next_projection_deadline
Deadline(o) == Min({(DayOf(now) + 1) * Day} \cup UncertainAt(o))

\* _build_runtime_data, async_set_updated_data
Publish(c, cached, end, summary) ==
  LET o == Observation(c, cached, end, summary)
  IN  /\ data' = [changed |-> c, end |-> end, summary |-> summary, at |-> now, seen |-> o]
      /\ timer' = Deadline(o)

\* async_rebuild_runtime_from_cached_rows after a change of the options, and
\* _async_rebuild_projection_from_cached at the deadline.
Rebuild ==
  /\ data # NoData
  /\ data.changed # changed \/ timer <= now
  /\ Publish(changed, cache, data.end, data.summary)
  /\ UNCHANGED <<now, reported, changed, cache, task, changes>>

----------------------------------------------------------------------------
(* The refresh.                                                            *)

\* The thermostat's row names the last slot the source has.
ReadRows ==
  /\ task = Idle
  /\ task' = [pc |-> "summary", changed |-> changed, summary |-> {}, at |-> 0,
              end |-> IF reported = {} THEN None ELSE Max(reported)]
  /\ UNCHANGED <<now, reported, changed, cache, data, timer, changes>>

\* What makes the cached rows of a change day stale, at a moment.
Key(c, end, summary, t) ==
  LET slots == summary \cap SlotsOf(DayOf(c.at))
  IN  [at    |-> c.at,
       print |-> <<Cardinality(slots), Ran(slots)>>,
       end   |-> IF DayOf(c.at) = DayOf(t) THEN end ELSE None,
       age   |-> t \div Reread]

Exact(c) == c # None /\ c.exact

\* Without an exact change, or with its day in the cache, that is all.
ReadSummary ==
  /\ task.pc = "summary"
  /\ LET c == task.changed
         hit == Exact(c) /\ cache # None /\ cache.key = Key(c, task.end, reported, now)
     IN  IF Exact(c) /\ ~hit
         THEN /\ task' = [task EXCEPT !.pc = "points", !.summary = reported, !.at = now]
              /\ cache' = None
              /\ UNCHANGED <<data, timer>>
         ELSE /\ task' = Idle
              /\ cache' = IF hit THEN cache ELSE None
              /\ Publish(changed, cache', task.end, reported)
  /\ UNCHANGED <<now, reported, changed, changes>>

\* The rows of the change day up to the moment of the request arrive, or the
\* read fails; rows of a change that is no longer on record are dropped.
ReadPoints ==
  /\ task.pc = "points"
  /\ task' = Idle
  /\ LET c == task.changed
         rows == {k \in reported \cap SlotsOf(DayOf(c.at)) : k * Step <= task.at}
         key  == Key(c, task.end, task.summary, task.at)
     IN  \/ cache' = IF changed = c THEN [key |-> key, rows |-> rows] ELSE None
         \/ cache' = None
  /\ Publish(changed, cache', task.end, task.summary)
  /\ UNCHANGED <<now, reported, changed, changes>>

----------------------------------------------------------------------------
(* The world.                                                              *)

Init ==
  /\ now = Start
  /\ reported = 0..(Start \div Step) - 1
  /\ changed \in {None, [at |-> now, exact |-> TRUE], [at |-> -Day, exact |-> FALSE]}
  /\ cache = None
  /\ task = Idle
  /\ data = NoData
  /\ timer = 0
  /\ changes = 0

\* A timer that is due fires before the next unit begins.
Tick ==
  /\ now < MaxTime
  /\ data = NoData \/ now < timer
  /\ now' = now + 1
  /\ UNCHANGED <<reported, changed, cache, task, data, timer, changes>>

Report(k) ==
  /\ k \notin reported /\ (k + 1) * Step <= now
  /\ reported' = reported \cup {k}
  /\ UNCHANGED <<now, changed, cache, task, data, timer, changes>>

\* A replacement recorded as it happens, or the date of one.
Change ==
  /\ changes < MaxChanges
  /\ changes' = changes + 1
  /\ \/ changed' = [at |-> now, exact |-> TRUE]
     \/ \E d \in 0..DayOf(now) : changed' = [at |-> d * Day, exact |-> FALSE]
  /\ UNCHANGED <<now, reported, cache, task, data, timer>>

Next ==
  \/ Tick \/ Change \/ Rebuild \/ ReadRows \/ ReadSummary \/ ReadPoints
  \/ \E k \in 0..(MaxTime \div Step) : Report(k)

Spec == Init /\ [][Next]_vars

----------------------------------------------------------------------------
(***************************************************************************)
(* "True when the calendar deadline has arrived or observed exposure       *)
(* reaches the threshold, false only when the observed amount plus bounded *)
(* unknown exposure still proves the threshold has not been reached".      *)
(* Until the deadline the coordinator set itself, a published due state is *)
(* true of the filter on record at any moment, whatever has run or passed  *)
(* since it was projected.  A filter known by its date may have been       *)
(* installed at any moment of that day.                                    *)
(***************************************************************************)
Exposure(from) == Cardinality({u \in Fan : from <= u /\ u < now})
Aged(c) == DayOf(c.at) + MaxAge <= DayOf(now)

DueStateProven ==
  LET c == data.changed
  IN  c # None /\ now < timer =>
        /\ Shown = TRUE =>
             \/ Aged(c)
             \/ Exposure(IF c.exact THEN c.at ELSE (DayOf(c.at) + 1) * Day) >= Lifetime
        /\ Shown = FALSE => Exposure(c.at) < Lifetime
        /\ Aged(c) => Shown = TRUE
=============================================================================
