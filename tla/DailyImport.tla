---------------------------- MODULE DailyImport ----------------------------
(***************************************************************************)
(* The daily writer of one config entry: an import pass of                 *)
(* BeestatStatisticsImporter from the entry lock to Recorder's queue, for  *)
(* the cumulative statistics that hourly history has not adopted.          *)
(*                                                                         *)
(* A pass reads configuration, ownership, time zone, Recorder and the      *)
(* provider at different awaits.  Beside it the provider corrects days and *)
(* adds new ones, the user reconfigures and moves the time zone, other     *)
(* refreshes replace the coordinator's snapshot, and Recorder works on its *)
(* queue, which an earlier pass or runtime may have filled.                *)
(*                                                                         *)
(* A row stands at the instant of its day's midnight in the zone of the    *)
(* pass that wrote it.  Zones differ in where midnight falls; a change of  *)
(* the length of a day, as daylight saving brings, is left out.            *)
(*                                                                         *)
(* One statistic stands for the cumulative series of one thermostat, a     *)
(* Stage for a stage or accessory that has a series only once its hardware *)
(* was seen running.  Point statistics are left out: they have no seeds    *)
(* and are written in the same step.                                       *)
(***************************************************************************)
EXTENDS Integers, Sequences, FiniteSetsExt, SequencesExt

CONSTANTS
  Ids,           \* cumulative statistics
  Stages,        \* those that exist only once observed
  Configs,       \* configurations: sets of configured statistics
  LastDay,       \* bound: days of source history
  Values,        \* a day's increment
  NewDays,       \* increments a new day may bring
  Overlap,       \* DEFAULT_SUMMARY_OVERLAP_DAYS
  MaxAttempts,   \* _IMPORT_TEMPORAL_CONTEXT_ATTEMPTS
  MaxChanges,    \* bound: provider corrections
  MaxMoves,      \* bound: rebuilds, reconfigurations and time zone changes
  MaxQueue,      \* bound: Recorder tasks outstanding when a pass fences
  Zones,         \* time zones: the instant at which day 0 begins in each
  DayLength,     \* instants of a day
  Marker         \* Recorder's SynchronizeTask

ASSUME FiniteAssumption == IsFiniteSet(Ids)
ASSUME IdsAssumption    == Stages \subseteq Ids /\ Configs \subseteq SUBSET Ids
ASSUME MarkerAssumption == Marker \notin Ids
ASSUME DaysAssumption   == LastDay \in Nat \ {0} /\ Overlap \in Nat
ASSUME BoundsAssumption == {MaxAttempts, MaxChanges, MaxMoves, MaxQueue} \subseteq Nat
ASSUME ZonesAssumption  == Zones \subseteq Int /\ DayLength \in Nat \ {0}
ASSUME ValuesAssumption == /\ Values \subseteq Nat /\ 0 \in Values
                           /\ NewDays \subseteq [Ids -> Values]

Day == 1..LastDay

VARIABLES
  source,    \* source[id][d]: the increment the provider reports, 0 after today
  today,     \* the provider's latest day
  db,        \* db[id][t]: Recorder's rows; day, inc and cut say where a row came from
  queue,     \* Recorder's queue
  cfg,       \* the configuration in coordinator.data
  data,      \* its summary rows, as the latest refresh during the pass left them
  adopted,   \* quantities hourly history owns
  zone,      \* the coordinator's time zone
  revision,  \* ... and its revision
  pc,        \* the await at which the pass under the entry lock stands
  job,       \* what it was asked for
  runtime,   \* its runtime_data: the rows
  config,    \* ... and the configuration
  allowed,   \* its allowed_legacy_ids
  attempt,   \* preparations begun
  plan,      \* what it has prepared
  changes, moves   \* bounded so far

world == <<source, today, changes>>
context == <<cfg, adopted, zone, revision, moves>>
pass == <<job, runtime, config, allowed, attempt, plan>>
vars == <<source, today, db, queue, cfg, data, adopted, zone, revision, pc, job, runtime,
          config, allowed, attempt, plan, changes, moves>>

PC == {"idle", "refresh", "partition", "capture", "fence", "latest", "seeds",
       "window", "full", "points", "compare"}

NoDays   == [id \in Ids |-> [d \in Day |-> 0]]
NoData   == [full |-> FALSE, last |-> 0, running |-> {}, rows |-> NoDays]
NoSeeds  == [id \in {} |-> 0]
NoPlan   == [revision |-> 0, zone |-> 0, existing |-> {}, ids |-> {}, first |-> 1,
             last |-> 0, seeds |-> NoSeeds, rows |-> NoDays, owned |-> {}]
\* from: first day to write, 1 without a rebuild; only: the thermostats asked for.
Routine  == [force |-> FALSE, from |-> 1, only |-> Ids]

(***************************************************************************)
(* Days and instants                                                       *)
(***************************************************************************)
\* _local_midnight, and the local day of an instant.
Midnight(d, z) == DayLength * d + z
DayOf(t, z) == (t - z) \div DayLength

\* Rows by the day at whose midnight they stand in a zone.
ByDay(rows, z) ==
  [d \in {d \in Day : Midnight(d, z) \in DOMAIN rows} |-> rows[Midnight(d, z)]]

(***************************************************************************)
(* Snapshots and inventory                                                 *)
(***************************************************************************)
\* Stages with runtime in the given days.
Running(rows, first, last) ==
  {id \in Stages : \E d \in (first..last) \cap Day : rows[id][d] > 0}

Between(rows, first, last) ==
  [id \in Ids |-> [d \in Day |-> IF d \in first..last THEN rows[id][d] ELSE 0]]

\* The summary rows of a refresh.  A partial read is only asked for its last day
\* and for the stages it shows running.
Snapshot(full, first) ==
  [full |-> full, last |-> today, running |-> Running(source, first, today),
   rows |-> IF full THEN source ELSE NoDays]

\* cumulative_statistic_ids
Cumulative(configured, running, existing) ==
  {id \in configured : id \notin Stages \/ id \in running \/ id \in existing}

LegacyIds == cfg \ adopted

Init ==
  /\ today = 1
  /\ \E first \in NewDays :
       source = [id \in Ids |-> [d \in Day |-> IF d = 1 THEN first[id] ELSE 0]]
  /\ db = [id \in Ids |-> [t \in {} |-> 0]]
  /\ queue = <<>>
  /\ cfg \in Configs
  /\ data = NoData
  /\ adopted = {}
  /\ zone \in Zones
  /\ revision = 0
  /\ pc = "idle"
  /\ job = Routine
  /\ runtime = NoData
  /\ config = {}
  /\ allowed = {}
  /\ attempt = 0
  /\ plan = NoPlan
  /\ changes = 0
  /\ moves = 0

(***************************************************************************)
(* The pass                                                                *)
(***************************************************************************)
\* The pass is over; nothing it prepared is used again, and the next one starts
\* with a refresh of its own.
EndPass ==
  /\ pc' = "idle"
  /\ job' = Routine
  /\ data' = NoData
  /\ runtime' = NoData
  /\ config' = {}
  /\ allowed' = {}
  /\ attempt' = 0
  /\ plan' = NoPlan

Begin ==
  /\ pc = "idle"
  /\ pc' = "refresh"
  /\ job' = Routine
  /\ UNCHANGED <<world, context, data, db, queue, runtime, config, allowed, attempt, plan>>

\* rebuild_statistics: always the full baseline, written from a first day on.
BeginRebuild(from, only) ==
  /\ pc = "idle"
  /\ moves < MaxMoves
  /\ moves' = moves + 1
  /\ pc' = "refresh"
  /\ job' = [force |-> TRUE, from |-> from, only |-> only]
  /\ UNCHANGED <<world, cfg, adopted, zone, revision, data, db, queue, runtime, config, allowed, attempt, plan>>

\* The windowed read may have fallen back to a full one.  An unknown thermostat
\* ends the pass.
Refresh(full, first) ==
  /\ pc = "refresh"
  /\ job.force => full
  /\ full => first = 1
  /\ IF job.only = Ids \/ job.only \subseteq cfg
     THEN data' = Snapshot(full, first) /\ pc' = "partition" /\ UNCHANGED pass
     ELSE EndPass
  /\ UNCHANGED <<world, context, db, queue>>

\* After the history refresh: settings may have changed during its awaits.
Partition ==
  /\ pc = "partition"
  /\ IF LegacyIds = {}
     THEN EndPass
     ELSE /\ runtime' = data
          /\ config' = cfg
          /\ allowed' = LegacyIds
          /\ attempt' = 1
          /\ pc' = "capture"
          /\ UNCHANGED <<job, data, plan>>
  /\ UNCHANGED <<world, context, db, queue>>

\* Mutant: cumulative seeds are read without waiting for Recorder.
CaptureUnfenced ==
  /\ pc = "capture"
  /\ plan' = [NoPlan EXCEPT !.revision = revision, !.zone = zone]
  /\ pc' = "fence"
  /\ UNCHANGED <<world, context, data, db, queue, job, runtime, config, allowed, attempt>>

Capture ==
  /\ pc = "capture"
  /\ Len(queue) < MaxQueue
  /\ plan' = [NoPlan EXCEPT !.revision = revision, !.zone = zone]
  /\ queue' = Append(queue, [id |-> Marker, rows |-> <<>>])
  /\ pc' = "fence"
  /\ UNCHANGED <<world, context, data, db, job, runtime, config, allowed, attempt>>

Fenced == \A i \in 1..Len(queue) : queue[i].id # Marker

\* Once Recorder has answered: which stages have been imported before.
Inventory ==
  /\ pc = "fence"
  /\ Fenced
  /\ LET existing == {id \in Stages \cap config \cap allowed : DOMAIN db[id] # {}}
     IN  plan' = [plan EXCEPT !.existing = existing,
                              !.ids = allowed \cap
                                Cumulative(config, runtime.running, existing)]
  /\ pc' = IF job.force THEN "full" ELSE "latest"
  /\ UNCHANGED <<world, context, data, db, queue, job, runtime, config, allowed, attempt>>

\* What a fallback to the full baseline keeps.
NoPlanYet == [NoPlan EXCEPT !.revision = plan.revision, !.zone = plan.zone,
                            !.existing = plan.existing]

WindowStart == Min({DayOf(Max(DOMAIN db[id]), plan.zone) : id \in plan.ids}) - Overlap

\* _cumulative_seeds_during_period reads the rows of a period and takes its last one.
RowsBetween(id, first, last) ==
  {t \in DOMAIN db[id] : Midnight(first, plan.zone) <= t /\ t < Midnight(last, plan.zone)}
LastTotal(id, rows) == db[id][Max(rows)].cum

\* The day before the window.
SeedRows(id) == RowsBetween(id, plan.first - 1, plan.first)

Latest ==
  /\ pc = "latest"
  /\ IF plan.ids = {}
     THEN pc' = "points" /\ UNCHANGED plan
     ELSE IF (\E id \in plan.ids : DOMAIN db[id] = {}) \/ WindowStart > runtime.last
     THEN plan' = NoPlanYet /\ pc' = "full"
     ELSE /\ plan' = [plan EXCEPT !.first = WindowStart, !.last = runtime.last]
          /\ pc' = "seeds"
  /\ UNCHANGED <<world, context, data, db, queue, job, runtime, config, allowed, attempt>>

\* Mutant: the period from which the seed is taken includes the window's first day.
SeedsInclusive ==
  /\ pc = "seeds"
  /\ LET rows(id) == RowsBetween(id, plan.first - 1, plan.first + 1)
     IN  IF \A id \in plan.ids : rows(id) # {}
         THEN /\ plan' = [plan EXCEPT !.seeds = [id \in plan.ids |-> LastTotal(id, rows(id))]]
              /\ pc' = "window"
         ELSE plan' = NoPlanYet /\ pc' = "full"
  /\ UNCHANGED <<world, context, data, db, queue, job, runtime, config, allowed, attempt>>

Seeds ==
  /\ pc = "seeds"
  /\ IF \A id \in plan.ids : SeedRows(id) # {}
     THEN /\ plan' = [plan EXCEPT !.seeds =
                        [id \in plan.ids |-> LastTotal(id, SeedRows(id))]]
          /\ pc' = "window"
     ELSE plan' = NoPlanYet /\ pc' = "full"
  /\ UNCHANGED <<world, context, data, db, queue, job, runtime, config, allowed, attempt>>

\* The statistics a set of rows would build.
Built(rows) ==
  allowed \cap Cumulative(config, Running(rows, plan.first, plan.last), plan.existing)

\* Mutant: only the cached inventory was checked.
SeedsCoverCached(rows) == plan.ids \subseteq DOMAIN plan.seeds
\* Every series the window builds must have a seed.
SeedsCover(rows) == Built(rows) \subseteq DOMAIN plan.seeds

ReadWindow ==
  /\ pc = "window"
  /\ LET rows == Between(source, plan.first, plan.last)
     IN  IF SeedsCover(rows)
         THEN plan' = [plan EXCEPT !.rows = rows] /\ pc' = "points"
         ELSE plan' = NoPlanYet /\ pc' = "full"
  /\ UNCHANGED <<world, context, data, db, queue, job, runtime, config, allowed, attempt>>

WindowFails ==
  /\ pc = "window"
  /\ plan' = NoPlanYet
  /\ pc' = "full"
  /\ UNCHANGED <<world, context, data, db, queue, job, runtime, config, allowed, attempt>>

\* A full snapshot serves as it is; otherwise the complete baseline is read now.
ReadFull ==
  /\ pc = "full"
  /\ plan' = [plan EXCEPT !.last = IF runtime.full THEN runtime.last ELSE today,
                !.rows = IF runtime.full THEN runtime.rows ELSE source]
  /\ pc' = "points"
  /\ UNCHANGED <<world, context, data, db, queue, job, runtime, config, allowed, attempt>>

\* The point windows are read, then the partition is asked for again.
Recheck ==
  /\ pc = "points"
  /\ plan' = [plan EXCEPT !.owned = LegacyIds]
  /\ pc' = "compare"
  /\ UNCHANGED <<world, context, data, db, queue, job, runtime, config, allowed, attempt>>

\* _build_cumulative_runtime_series: the total carried from day to day.
Totals(inc, first, last) ==
  LET total[d \in first..last] == (IF d = first THEN 0 ELSE total[d - 1]) + inc[d]
  IN  total

\* The rows of one series for the given days, the seed carried on, each at its
\* day's midnight.
RowsOf(id, days) ==
  LET seed  == IF id \in DOMAIN plan.seeds THEN plan.seeds[id] ELSE 0
      total == Totals(plan.rows[id], Max({1, plan.first}), plan.last)
  IN  [t \in {Midnight(d, plan.zone) : d \in days} |->
         LET d == DayOf(t, plan.zone)
         IN  [cum |-> seed + total[d],
              inc |-> plan.rows[id][d],
              day |-> d,
              cut |-> d = job.from /\ d > plan.first]]

\* Mutant: a rebuild ends where the user asked, as point statistics do.
RowsEndEarly(id) ==
  RowsOf(id, Max({plan.first, job.from})..(IF job.force THEN job.from ELSE plan.last))

\* A rebuild leaves out its first days.
Rows(id) == RowsOf(id, Max({plan.first, job.from})..plan.last)

\* One Recorder import per series that has rows.
Batch ==
  LET ids == {id \in Built(plan.rows) \cap job.only : DOMAIN Rows(id) # {}}
  IN  SetToSeq({[id |-> id, rows |-> Rows(id)] : id \in ids})

\* Mutant: the time zone is not looked at again.
StillCurrentAnyZone ==
  /\ config = cfg
  /\ allowed = plan.owned

\* Nothing of what the preparation rests on changed meanwhile.
StillCurrent ==
  /\ revision = plan.revision
  /\ config = cfg
  /\ allowed = plan.owned

Write ==
  /\ pc = "compare"
  /\ StillCurrent
  /\ queue' = queue \o Batch
  /\ EndPass
  /\ UNCHANGED <<world, context, db>>

Retry ==
  /\ pc = "compare"
  /\ ~StillCurrent
  /\ IF attempt < MaxAttempts
     THEN /\ runtime' = data
          /\ config' = cfg
          /\ allowed' = plan.owned
          /\ attempt' = attempt + 1
          /\ plan' = NoPlan
          /\ pc' = "capture"
          /\ UNCHANGED <<job, data>>
     ELSE EndPass
  /\ UNCHANGED <<world, context, db, queue>>

\* A request failed, or the entry was unloaded under the pass.
Abort ==
  /\ pc # "idle"
  /\ EndPass
  /\ UNCHANGED <<world, context, db, queue>>

(***************************************************************************)
(* Everybody else                                                          *)
(***************************************************************************)
Merge(new, old) ==
  [t \in DOMAIN new \union DOMAIN old |-> IF t \in DOMAIN new THEN new[t] ELSE old[t]]

RecorderRuns ==
  /\ queue # <<>>
  /\ queue' = Tail(queue)
  /\ LET t == Head(queue)
     IN  db' = IF t.id = Marker THEN db
               ELSE [db EXCEPT ![t.id] = Merge(t.rows, @)]
  /\ UNCHANGED <<world, context, data, pc, pass>>

\* The process dies, and Recorder's queue with it.
Crash ==
  /\ queue' = <<>>
  /\ EndPass
  /\ UNCHANGED <<world, context, db>>

\* A refresh that is not the pass's own, while its rows may still be used: the
\* button, the boundary retry.
OtherRefresh(full, first) ==
  /\ pc \notin {"idle", "refresh"}
  /\ full => first = 1
  /\ data' = Snapshot(full, first)
  /\ UNCHANGED <<world, context, db, queue, pc, pass>>

\* async_rebuild_runtime_from_cached_rows after an option or registry change.
Reconfigure(new) ==
  /\ moves < MaxMoves
  /\ new # cfg
  /\ moves' = moves + 1
  /\ cfg' = new
  /\ UNCHANGED <<world, data, adopted, zone, revision, db, queue, pc, pass>>

\* async_update_local_timezone: what is in Recorder stays where it stands.
MoveTimeZone(new) ==
  /\ moves < MaxMoves
  /\ new # zone
  /\ moves' = moves + 1
  /\ zone' = new
  /\ revision' = revision + 1
  /\ UNCHANGED <<world, cfg, data, adopted, db, queue, pc, pass>>

\* Accepting an hourly plan needs the entry lock.
Adopt(id) ==
  /\ pc = "idle"
  /\ id \in LegacyIds
  /\ adopted' = adopted \union {id}
  /\ UNCHANGED <<world, cfg, data, zone, revision, moves, db, queue, pc, pass>>

NewDay(inc) ==
  /\ today < LastDay
  /\ today' = today + 1
  /\ source' = [id \in Ids |-> [source[id] EXCEPT ![today + 1] = inc[id]]]
  /\ UNCHANGED <<changes, context, data, db, queue, pc, pass>>

Correct(id, d, v) ==
  /\ changes < MaxChanges
  /\ changes' = changes + 1
  /\ v # source[id][d]
  /\ source' = [source EXCEPT ![id][d] = v]
  /\ UNCHANGED <<today, context, data, db, queue, pc, pass>>

PassStep ==
  \/ \E full \in BOOLEAN, first \in 1..today : Refresh(full, first)
  \/ Partition \/ Capture \/ Inventory \/ Latest \/ Seeds
  \/ ReadWindow \/ ReadFull \/ Recheck \/ Write \/ Retry

Next ==
  \/ Begin
  \/ \E from \in 1..today, only \in {Ids} \union {{id} : id \in Ids} : BeginRebuild(from, only)
  \/ PassStep
  \/ WindowFails
  \/ Abort
  \/ RecorderRuns
  \/ Crash
  \/ \E full \in BOOLEAN, first \in 1..today : OtherRefresh(full, first)
  \/ \E new \in Configs : Reconfigure(new)
  \/ \E new \in Zones : MoveTimeZone(new)
  \/ \E id \in Ids : Adopt(id)
  \/ \E inc \in NewDays : NewDay(inc)
  \/ \E id \in Ids, d \in 1..today, v \in Values : Correct(id, d, v)

Spec == Init /\ [][Next]_vars

(***************************************************************************)
(* Properties                                                              *)
(***************************************************************************)
\* While the time zone has not moved, the totals of consecutive days differ by the
\* increment imported for the later one, whatever was queued, corrected, retried,
\* reconfigured, lost or interrupted; only a rebuild's first day may step.
TotalsAddUp ==
  revision = 0 =>
    \A id \in Ids : LET rows == ByDay(db[id], zone) IN \A d \in DOMAIN rows :
      ~rows[d].cut =>
        /\ d = 1 => rows[d].cum = rows[d].inc
        /\ d - 1 \in DOMAIN rows => rows[d].cum = rows[d - 1].cum + rows[d].inc

\* Nor does a total start in the middle of the history: a stage discovered late is
\* imported from the first source day.
TotalsFromTheStart ==
  revision = 0 =>
    \A id \in Ids : LET rows == ByDay(db[id], zone) IN \A d \in DOMAIN rows :
      d = 1 \/ d - 1 \in DOMAIN rows \/ rows[d].cut

\* From the fence to the write Recorder owes nothing, and the seeds of the pass
\* are what Recorder holds last of the day before its window, in the pass's zone.
SeedsCurrent ==
  pc \in {"latest", "seeds", "window", "full", "points", "compare"} =>
    /\ queue = <<>>
    /\ \A id \in DOMAIN plan.seeds :
         SeedRows(id) # {} /\ plan.seeds[id] = LastTotal(id, SeedRows(id))

\* What a pass submits belongs to the daily writer at that moment, was prepared
\* for the current configuration and time zone, and stands where that zone has the
\* midnights of its days.
WritesOwnedAndCurrent ==
  [][\A i \in 1..Len(queue') :
       Len(queue') > Len(queue) /\ i > Len(queue) /\ queue'[i].id # Marker =>
         /\ queue'[i].id \in LegacyIds
         /\ plan.revision = revision
         /\ config = cfg
         /\ \A t \in DOMAIN queue'[i].rows :
              t = Midnight(queue'[i].rows[t].day, zone)]_vars

\* The documentation's claim: a window is seeded from the total immediately before
\* it, the total of a day that the window does not import again.  It fails after
\* the zone has moved west: the old row of the window's first day then falls on the
\* day before, and the pass adds that day to a total that has it.
SeedsBeforeWindow ==
  \A id \in DOMAIN plan.seeds : db[id][Max(SeedRows(id))].day < plan.first
=============================================================================
