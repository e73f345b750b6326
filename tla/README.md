# Verification of Beestat Statistics

TLA+ models of the Home Assistant integration in `custom_components/beestat_statistics/`, the TLC
configurations that check them and the TLAPS proofs about them. File names below without a path are in
that directory.

## The system

One config entry owns an API client, a coordinator, an importer and one hourly history journal, all on one
asyncio event loop. Four things run beside the loop and outlive what started them: executor jobs, Recorder's
import queue, Home Assistant's delayed config-entry store, and tasks kept in `hass.data`.

| component | state it keeps | operations | what is hard |
|---|---|---|---|
| history journal: `hourly_history_writer.py`, `hourly_import.py` | the durable root (phase, operation, cursor, intent, proofs, holds), the manager's cached root, tracked save tasks, the entry marker | plan, accept, advance, save, load, hold, query | crash between any two durable steps; saves that outlive cancelled callers and reloads; queued Recorder rows; failed verification of a save that landed |
| object store: `hourly_storage.py`, `backup.py` | immutable objects by digest, the running sweep, the backup pause | write, read, collect, pause, resume | a sweep in a thread against writers, a replaced manager and a backup |
| Recorder adapter: `hourly_recorder.py` | none of its own | fenced snapshot, submit | the queue is asynchronous and lost with the process |
| routine refresh: `hourly_history_runtime.py`, `hourly_history_delta.py`, `hourly_sources.py` | staged sources, their revision | capture, delta, stage, merge, retire superseded deltas | precedence of overlapping acquisitions must survive compaction |
| queries: `hourly_history_query.py`, `hourly_history_legacy.py`, `hourly_history_values.py` | none; lock-free reads of root and objects | read, page | a view that changes between reads or pages; retired daily rows beside points |
| importer: `importer.py`, `import_support.py` | the entry lock, the worker task | import pass, worker loop, window bisection | partition, context and seeds read before awaits and used after them |
| scheduling: `task_coalescer.py`, `__init__.py` | one pending flag, one drain task | schedule | a request made while the drain ends or fails |
| coordinator: `coordinator.py` | the runtime snapshot, timers, last errors | refresh, project, retry, record errors | refreshes superseded by option changes; timers against refreshes |
| filter state: `entry_options.py`, `filter_action.py`, `filter_runtime.py`, `filter_forecast.py` | filter boundary and receipt in entry options | mark changed, set date, reconcile, forecast | duplicate requests, stale boundaries, rollback after a failed refresh |
| API client: `api.py` | none | request with retries | budgets, auth against transient failures |
| configuration: `config_flow.py`, `config_model.py`, ... | entry data and options | forms, matching of resources to local devices | saves based on a stale entry; ambiguous matches |
| tracking: `tracking.py`, `issues.py` | watched entities and devices | registry events, reconciliation | a change that nothing watched |
| projections, services | none that matters here | | stateless |

How they interact: the coalescer starts import passes; a pass takes the entry lock, asks the journal for the
writer partition, refreshes the coordinator, refreshes the hourly history (stage, accept, advance, collect) and
runs the daily writer for what the journal does not own. Services accept plans under the same lock; the worker
advances an accepted operation under it. Queries do not take it. A reload closes the manager but does not wait
for its coroutines, its save task, its sweep or its queued rows; the next manager meets all of them.

## Modules

| module | role |
|---|---|
| `HistoryJournal` | accept, advance, save, load and worker of the journal, with the save task, Recorder, the entry store, reloads and crashes as owners of their own |
| `HistoryLedger` | what the journal promises a reader of hourly history |
| `HistoryJournalInvariant` | the inductive invariant, its second layer, the refinement mapping to `HistoryLedger` |
| `HistoryJournalProofs` | TLAPS proofs, the refinement of `HistoryLedger` among them |
| `HistoryQuery`, `HistoryQueryProofs` | a query without a lock beside accept, advance, holds and invalidation fences |
| `HistoryPages` | what a query answers: reasons, daily totals, legacy days, view tokens and pages |
| `SourceMerge` | how acquisitions become one history and which of them no slot needs |
| `HistoryEvidence`, `HistoryEvidenceProofs` | passes of routine refreshes and reviewed plans over a changing provider |
| `ObjectCollection`, `ObjectCollectionProofs` | the object store: writes, sweeps, retirement, backups |
| `TaskCoalescer`, `TaskCoalescerProofs` | requests for import passes, the scheduler's drain, the entry lock |
| `DailyImport`, `DailyImportProofs` | an import pass and its daily writer: partition, seeds, window, recheck, write |
| `PointReads` | the windows of an import's point reads, retries, bisection, failure budget |
| `EntryLifecycle`, `EntryLifecycleProofs` | entry options, filter actions, boundary reconciliation, the coordinator's refreshes and timers |
| `FilterForecast` | what the coordinator may claim of a filter until it looks again |
| `DeviceLinks` | local devices and entities of the resources, and the registry listeners |
| `Parts`, `PartsProofs` | `DeviceLinks`, `PointReads`, `FilterForecast` and `HistoryPages` side by side, and the proofs about each |
| `MC...` | instances for TLC |

How they compose: `HistoryLedger` is instantiated over `HistoryJournal`; `HistoryEvidence` extends `SourceMerge`.
`HistoryQuery` takes from `HistoryJournal` what its saves make durable and adds holds, fences and the reader.
`HistoryEvidence` takes a pass as one step because `HistoryJournal` shows that an operation is; `HistoryPages` takes
an answer as one step because `HistoryQuery` shows that it is one root's. `Parts` instantiates `PointReads`,
`FilterForecast` and `HistoryPages` and extends `DeviceLinks`; the four share no state, so a behaviour is one of one
of them (`part` says which) and nothing is lost by exploring them one at a time. The constants of the instances are
constants of `Parts`, with the assumptions that the proofs need; `MCParts` gives them small values.

### HistoryJournal

Every action runs from one await of the coroutine to the next; `pc[m]` is the await at which manager `m`'s
coroutine under the entry lock stands.

| model | code |
|---|---|
| `disk` | the journal file, as `_verify_data` reads it |
| `task` | the task in `hass.data[_SAVES]`; `StartSave`, `SaveLands`, `SaveFails` are `_save` and `HourlyStore.async_save` |
| `cache`, `loaded` | `HourlyImportManager._state`, `_loaded` |
| `marker`, `markerDisk` | the entry's `hourly_import_contract` marker in memory and as last flushed |
| `native`, `queue` | Recorder's rows and its queued imports |
| `plan[o]` | the `before` rows in the sealed batches of operation `o` |
| `Seal`, `Install`, `Adopt`, `Replay` | `HistoryWriter.plan`, `accept`, `finish_accept` |
| `Advance` ... `Publish`, `Fail` | `HistoryWriter.advance` and its failure handler |
| `Partition` | `async_writer_partition`, which loads a cold cache on every import pass |
| `Cancel`, `Abandon`, `Unload`, `SetUp`, `Crash` | cancellation, `close` and `_admit`, setup, the process |

A cell stands for the native rows of one quantity/month batch and an operation's rows are its number: the
properties only ask whose rows a cell holds. A root's revision only tells successive roots apart and is left
out. `SaveFails` may or may not have replaced the file, since the verification runs after the write. The
snapshot before a plan, an intent and a readback is fenced behind Recorder's queue, so these actions require an
empty queue.

Properties (run `journal`): `WriteAhead` (what Recorder may still apply is named by the durable intent),
`ProofMatchesNative` (what a reader is shown is what Recorder holds), `WarmCacheIsDurable`, `IntentSurvives`,
`ProofNeedsIntent`, `OperationRunsToCompletion`, and that the journal implements `HistoryLedger`: a window is hidden
from the acceptance of an operation until its rows are verified, and rows that a later operation replaced are never
shown again. Under fairness `OperationSettles`: an accepted operation completes, or is durably blocked.

Two states are worth knowing when reading the model. After a save that landed but could not be verified, the
failure handler journals the older cached root as blocked, so the published coverage may step back: the ledger
allows it as `Withdraw`, and the properties show that no intent, operation or proof is lost that way. And an
operation interrupted while prepared and then blocked needs two replays, one to make it hourly and one to resume.

Bounds: two cells (an operation with one batch, with two, and one that leaves a cell alone), two operations
(superseding), two managers (a reload or restart that meets its predecessor's leftovers). The first manager may meet two
faults, one hitting the handling of the other, and after a reload there may be one in all: faults and generations share
the bound. A crash is not a fault and may happen in any state, as often as there are generations. Larger runs found
nothing else, with two faults anywhere (1,059,742 states, all properties) and with three operations and three faults (the
safety properties), and the proofs hold for any number.

Fairness (`FairSpec`): the worker and the import cadence keep calling the journal (`_ensure_history_worker` runs
on every pass), the event loop resumes awaiting coroutines, the executor ends a save it was given, Recorder ends
an import it was given, and Home Assistant sets the entry up again. Nobody is obliged to plan, replay, cancel,
unload or fail, and `Fail` is not assumed not to happen.

Finding (`journal_adoption`): `finish_accept` sets the marker in memory only, then makes the hourly root durable.
A crash before Home Assistant writes its entries leaves a root that no restart admits
(`history_marker_mismatch`), although docs/architecture.md:122-123 promises that prepared adoption survives
interruption.

### ObjectCollection

`files` are the names in the object directories; a `Begin` stages at most one integration delta, writes every object its
root will name and saves that root. `work[m]` are the names still to be written and `Turn` their order: an original
before its manifest, both before the objects, which the code writes in an order that no property depends on. `Submit`
hands one write to the executor; a job knows its manager and operation, since only their coroutine waits for it.
`Publish` moves a proof from `owed` to `keep`. `Collect` and `StartSweep` are the two halves of
`HistoryWriter.collect` (the root is read again between them); the sweep then works in the executor, `SweepPick` and
`SweepUnlink` being the two sides of the gap between `stop()` and `unlink`. What it retires are steps, a manifest `<<d, d>>`
or, before it, `<<d, original[d]>>`; `Due` are those whose turn it may be, in any order of the manifests. Write jobs and
sweeps survive `Cancel` and `Unload`. A closed manager's write waits for whatever sweep it met, then proceeds without
noticing the close: `Write` has no `open = m`.

Left out: temporary files, symlink checks, the disk reserve, staged archive originals (never candidates),
invalidation records (kept by prefix; their meaning is in `HistoryQuery`), `Collect`'s further requirement that the manager's
cached root equals the durable one (the model collects in more states than the code).

Run `objects`: `ReachablePresent`, `OriginalsNamed`, `BackupSeesOneGeneration`. Bounds: two objects, three deltas
of which two share their content, two operations, two managers, one fault; crashes anywhere. Objects are symmetric, and
so are the two deltas that share an original: no definition chooses among them. The theorems hold without these bounds.

`OriginalsNamed` is what `hourly_storage.py:154-156` promises of an interrupted pass, that a manifest still names what it
left. The history variable `lone` holds the originals it is not said of, and both ways into it are worth knowing:

- A write that puts an original on disk whose manifest has not followed (yet). That is the ordinary order of staging, and
  for good when the staging ends in between. It also happens late: a cancelled or closed caller's write runs on, and if its
  delta was staged, superseded and collected meanwhile, it brings the retired original back with nothing to name it.
- A power cut may undo unlinks whose directory was not synced yet (an action of its own). The directories are synced
  after all retired names, manifests first (`hourly_storage.py:288-289`), so a cut between the two syncs brings an
  original back whose manifest stays deleted.

Either way the original takes up space and nothing else: what the root reaches is never touched.

### TaskCoalescer

`pending` and `task` are the fields of `CoalescingTaskScheduler`; `holder` and `waiters` are the importer's
`asyncio.Lock`, whose queue `asyncio` serves in order. `Turn` is one turn of `_async_drain`'s loop up to the pass's
first await. A pass is a task of its own that the drain awaits, so `PassEnds` releases the lock (and hands it on)
before `DrainResumes`. Tasks start eagerly: a pass may raise before its first await (an ambiguous sensor parent in
`_writer_identity`), and then the drain is over before `schedule()` has stored its task, which leaves a finished
task in `_task`; `task = "done"` is that state, and `Live` is why it does no harm. `asked`, `seen` and `begun` are
history counters: requests, requests made before the latest scheduled pass began, scheduled passes. `Coalesced` says that
a scheduled pass begins only for a request that no earlier one had seen: a pass answers all that were made until it
begins, so a burst during a pass costs one follow-up, not one each.

Run `coalescer` (four requests, one startup import, one service caller, reloads anywhere): `RequestRetained`,
`Coalesced`, `OnePass`, and under fairness `EveryRequestServed`. Four requests are enough for one to start a pass, one
to raise the flag, one to find it raised and one to meet the ended drain. Fairness is on `DrainResumes` (the event
loop) and `PassEnds` (each request of a pass has a timeout and Recorder answers its marker); nobody need ask, call,
unload or set up. A second `schedule()` from inside the drain's eager segment is not modelled: nothing a pass does
before its first await calls back into the scheduler. The startup import of a new setup answers what the old
scheduler was still asked for.

### DailyImport

`pc` is the await at which the pass under the entry lock stands. A pass refreshes the coordinator (`Refresh`), takes
its partition (`Partition`), and up to three times prepares: `Capture` the time zone revision and queue Recorder's
marker, `Inventory` once it is answered, `Latest`, `Seeds`, `ReadWindow` or, for any of five reasons, `ReadFull`;
then `Recheck` asks for the partition again and `Write` or `Retry` compares it with what the preparation assumed.

| model | code |
|---|---|
| `source`, `today` | what the provider would answer |
| `db`, `queue` | Recorder's rows by the instant at which they stand, and its queue, the marker among the imports |
| `zone`, `revision` | the coordinator's time zone, as the instant at which day 0 begins, and its revision |
| `data`, `cfg` | the coordinator's snapshot: rows and configuration |
| `adopted`, `LegacyIds` | hourly selections; `WriterPartition.legacy_statistic_ids` |
| `runtime`, `config`, `allowed` | `runtime_data` and `allowed_legacy_ids` as the pass first read them |
| `plan` | `TemporalContext`, `SummaryImportPlan`, the second partition |

Beside the pass the provider corrects days and adds new ones (`Correct`, `NewDay`), other refreshes replace the
snapshot (`OtherRefresh`), the user reconfigures, moves the time zone or adopts a quantity, Recorder works on its
queue, and the process may die with that queue. Two fields of a row are not Recorder's: `inc`, the increment it was
built from, `day`, the day it was built for, and `cut`, set on the first day of a rebuild that leaves earlier days
alone. `Totals` is the total that `Rows` carries along.

A row stands at its day's midnight in the zone of the pass that wrote it (`Midnight`), and stays there when the zone
moves. The next pass dates the rows it finds by its own zone: `DayOf` for the latest row, two midnights for the rows of
the day before the window (`SeedRows`), of which the last one seeds it. While the zone stays these are the day's own row.

- `daily_import` (three days, overlap one, a plain statistic and a stage that a correction may show, a configuration with
  both and one without any, two zones half a day apart, two attempts, one correction, and one rebuild from any day for all or
  one statistic, reconfiguration or move of the zone): `WritesOwnedAndCurrent`, `SeedsCurrent`, `TotalsAddUp`,
  `TotalsFromTheStart`. Three days are the least history with a seed, a window and a later day. The user does one thing
  in a behaviour, as a rebuild beside a move takes the same steps as a routine pass beside it. A rebuild ends at the last
  source day for totals, whatever end date was asked for.
- `daily_zone` (the same history, one move): the finding below.

Finding (`daily_zone`, `SeedsBeforeWindow`): after a move west the row of the window's first day stands, by the new
midnights, on the day before the window. It is the last row of that day, so it seeds the window, and the window adds the
same day again: the total counts it twice from then on. docs/architecture.md:73 and the docstring at
`statistics_builder.py:55` say that the seed is the total immediately before the window. After a move east the seed is
a total of the right day, but the old rows stay between the new ones, and a later pass may seed from an old row of a day
that was corrected since. `TotalsAddUp` and `TotalsFromTheStart` therefore speak of an entry whose zone has not moved
(`revision = 0`); `SeedsCurrent` and `WritesOwnedAndCurrent` hold in any zone.

Crashes and aborted passes may happen anywhere and are not bounded; recorder tasks outstanding when a pass fences are
bounded by two: one may be left in the queue when the marker joins it.

Left out: point and mean statistics (no seeds, same step); series that end early at a missing or non-finite counter;
the local day; a change of the length of a day (`DayLength` is constant, so daylight saving moves no midnight). `WindowFails` and a failed refresh stand for every provider error. The model takes Home
Assistant's day and the thermostat's latest summary day as one: if Home Assistant's is behind, a window ends a day
early and Recorder's last day keeps its old total until a later pass reaches it (see the hazards).

### HistoryQuery

A query reads the root, holds, proofs, rows and fences without the entry lock, so `query` advances one await at a time
beside `writer`, the coroutine that has the lock, and `task`, the one save or fence of `hass.data`. Fields of `manager`
that a writer replaces by a new Python object are compared by identity in `check_material`; `kept` holds those the
query has seen unreplaced. `BeginHold` ... `SaveHeld` are `save_holds`: the fence of the predecessor's token, the entry
marker of the new one, and the held root become durable in this order. `Fenced`, `Snapshot` and `Enqueued` are the
Recorder adapter.

Run `query` (two cells, one operation, two holds, two failures, cancellations, reloads, crashes or foreign edits):
`ServedIsCurrent` (an answer is what one durable root said, at a moment of the query), `DisputedNotServed` (an hour whose
conflict was found is not served from a root that did not know of it, also when the process died between the three
durable steps), `ReadyIsNative` (a ready hour is what Recorder held). Two cells let a query read one before and one after
a change. A journal whose marker was lost is blocked and stays so; deadlock is therefore not checked.

### HistoryPages

`View` is all that an answer is computed from, and `Token` its digest. `Reason`, `HourBucket`, `DayBucket`, `Series`
and `Page` are the functions of `hourly_history_query.py`, `EligibleDays` and `LegacyDays` those of
`hourly_history_legacy.py`; `Ask` and `More` are the caller's requests. Hours have powers of two as amounts, so a total
names its hours. An answer is one step (see `HistoryQuery`), and so is the writer's replacement of an hour.

Part `pages` of run `parts` (days of two hours that begin at even or odd hours, adoption amid a day, two changes of
evidence, rows, clock or zone): `PagesAreOneView` (joined pages are the beginning of the one answer there was, or the
caller is told that the view changed) and `TotalsTrue` (a total called complete is the amount of all its hours, each
once, none pending or in conflict). Two-hour days give every mixture of a whole day, a cut day, a proven hour and an
unproven one. The world stops changing once the caller has its answer.

A legacy day is asked to be true only where the daily writer's last import had seen the day to its end. The code does
not know that: the row of the day before adoption may have been written while the day was in progress, and nothing
updates it after adoption, yet it is answered as complete (`hourly_history_legacy.py:74`).

### SourceMerge and HistoryEvidence

`SourceMerge` has the pure part: the supersession relation and its contraction (`Ancestors`, `Nearest`, `Contracted`), the
merged observation of a slot (`Slot`), the whole resolution with its horizon, and what `source_redundancy` keeps
(`Needed`, `Witnesses`). An acquisition is named by its place in the log. Supersession is a recursive function, not a
recursive operator, so that theorems can be stated about it.

`HistoryEvidence` adds the provider (`Publish`, `Summarise`, `Correct`), the routine pass (`Refresh`: capture, delta with
compacted days, hold or acceptance, retirement) and reviewed plans (`Plan`, `Review`, `Admit`). A pass is one step. A view
retires all that is redundant, or nothing where the answer would change without it; which of the acquisitions that reach
the horizon is kept as its witness is open. A first publication has the usual value (the first value of a slot has no meaning of its own); a
gap, a lag, a correction, a deletion or a withdrawal is irregular, and those are bounded. A reviewed plan takes the
point's hour, the month or one hour without a new source.

Run `evidence` (two days of one hour of two slots, a lookback of one hour, five acquisitions, two irregularities, one
review): `RetirementInvisible`, `RoutineFollowsProvider`, `ClosedDaysConverge`. The window slides past the first day while
its evidence can still be corrected, which is the case that makes retirement hard: an acquisition is then needed for
points that the window does not show. Deadlock is not checked, as the month ends.

Left out: the order in which equal deltas are listed, rows without a usable timestamp, misaligned samples, several
resources in one acquisition, lineage inside proofs. An original outside a reviewed window leaves older hours unassessed
until a plan covers them: that is the code's design.

### EntryLifecycle

The options of one entry and all who write them, and the coordinator that refreshes and publishes meanwhile. `task[o]` is
the refresh of owner `o` (an import, the retry timer, or the filter action of a slot); `queue` is the refresh lock;
`proj` and `retry` are the two timers. `PressButton`, `Repair`, `SetDate`, `Capture` and `Record` are the ways to record a
change, `Dismissed`, `ActionFails` what follows; `SaveOptions` and the account flow are the config flow's saves. A
refresh of the lifecycle reads the rows, the summary and then the points of every exact boundary, each an await.

The source is a row of versions. `Covering` says in which of them the points of a day reach a boundary in a zone, so
coverage may be lost as well as gained, and `Assess` then clears the baseline, as `_filter_boundary_changes` does.
`Fingerprint` is what the summary shows of a version: the code keeps the points of a day (`cache`, `_filter_day_cache`)
under a key with that, the boundary and the zone, and takes them again while the key is the same (`Held`), though the day
may have changed since with an equal count and sum. Both constants are any such relation. The rest of the key, the data
end and a bucket of six hours, only makes the code read more often: the model may read again at any time. The code takes a
day held without an await; in the model other steps may come between, which adds behaviours and takes none away.

Run `lifecycle` (one thermostat, two requests of which one comes from a client that retries, two slots, two versions of
the source, one failed read, one save): `BaselineMatchesBoundary`, `RequestAppliedOnce`, `ReceiptsOwned`, `NeverOlder`,
`ProjectionScheduled`, `RetryArmed`. Two slots are the least number for a rollback to meet another action.

Run `lifecycle_baseline` (two thermostats, one slot, two requests, two zones, three versions, one failed read):
`BaselineNeverOlder`, `CorrectionsReachBaselines`.
The first version reaches the early boundary only, the second has lost points and has a summary of its own, the third
reaches both boundaries under the first one's summary. `BaselineNeverOlder`: while a boundary stays, what replaces or clears its
baseline was read of a version at least as new; points held from before cannot bring back what was withdrawn.
A day held is older than the summary beside it at times, so no more can be said of versions than that. What the key is
for is `CorrectionsReachBaselines`: after a refresh that could read every day, each baseline was measured on, or after, a
version whose summary is the one published.

Symmetry is over thermostats, slots, requests that no service repeats, and zones: no property tells them apart, and
neither `Covering` nor `Fingerprint` names them.

Finding (`lifecycle_retry`, `PendingIsRetried`): a date edit clears an exact boundary, a refresh of somebody else sees
nothing pending and cancels the retry timer, the edit's own refresh fails, and the rollback
(`entry_options.py:278-284`) restores the boundary without arming the timer, although docs/usage.md:248-249 promises
retries every 15 minutes. `RetryArmed` states what does hold: without a failed read the timer is right.

### PointReads, FilterForecast, DeviceLinks

`PointReads`: `todo` are the windows still to read, `streak` the consecutive failures, `outcome` what was returned or
recorded as skipped. A day is 16 units, because windows are halved below a day. Windows of 30 days, three attempts and a
budget of eight are the code's values; one outage, failure or refusal beside the bad interval. A failed request is
repeated by the client (`Retry`) unless its rows are malformed, which is found after the client's attempts (`GiveUp`).
`Accounted`: every moment of every resource's window is returned, skipped or still to be read, once; windows are compared
as sets, so a gap or an overlap is seen and a second read of exactly the same window is not. `BudgetFits`: an outage ends the pass after (budget + 1) requests
with their retries, and one bad day does not end it; a budget of six breaks the second half, seven and eight do not,
which is what the comment at the constant says.

`FilterForecast`: two units make a slot of the source, two slots a day. The source reports finished slots in any order;
a refresh asks for rows, the summary and the points of the change day one after another; timers fire within their
unit. `DueStateProven`: until the deadline the coordinator set, a published due state is true of the filter on record,
at any moment, whatever has run since. One pattern of the fan is enough: it runs in half a slot, across a change, not at
all for a while, and then always. A projection equal to the published one is published again in the model, which nobody
can tell. The 30-day window of the summary, malformed, deleted or corrected rows, time zones and baselines are left out.

`DeviceLinks`: `at` and `dev` are the registries, `data` the published links, `entities` and `devices` what
`tracking.py` watches. A change and the delivery of its event are two steps, and `HearEntity` watches a new identity source
before it judges the event. Two thermostats, a built-in and a room sensor, two HomeKit devices, two cloud probes with one
serial and two changes: enough for a probe to lose its proof by another device's change. `DevicesNotShared` and
`MixedClaimsProven`. The automatic match of a room sensor may show the temperature entity that a built-in sensor shows
because its thermostat's user selected it (`config_model.py:761`); the code rejects shared devices only where they are
matched or selected, so the property says no more. A change to a HomeKit device that no link uses is heard by nobody; it
becomes a match with the next refresh.

`CHECK_DEADLOCK FALSE` in `MCParts.cfg`: time, reads and changes end.

## Proofs

Every theorem is for all values of the constants that the named assumptions of its module admit: any number of cells,
operations, generations, requests, days or deltas, and any number of faults. TLC checks the same properties, and found the
counterexamples to earlier versions of them, on the instances above.

**`HistoryJournalProofs`** (`CellsAssumption`, `BoundsAssumption`, `ForeignAssumption`) proves `Spec => []Inv`.
`WriteAhead` alone is not inductive: that Recorder's leftovers are named by the durable intent depends on which root may
replace it. `Inv` adds that every cached root and every root on its way to disk carries the durable intent or its proof
(`CacheKeepsIntent`, `TaskIntentIsCached`, `TaskKeepsIntent`), that only finished operations are replaced
(`UnfinishedKeepsPlace`), what each await relies on when it resumes (`WaitersOK`), well-formedness of roots (`RootsOK`)
and that unused managers have done nothing. The step proofs share three lemmas for the three ways a coroutine moves: it
starts a save, it goes on without one, or it fails. From `Inv` follow `TypeOK`, `WriteAhead`, `WarmCacheIsDurable`, the
action properties `IntentSurvives` and `OperationRunsToCompletion`, and `OneSaveAtATime` (an unfinished save keeps its
place), which no run needs to repeat. Two layers stand on it:

- `SoundRoots`: every root that is durable, on its way, or cached by the open manager agrees with Recorder outside the
  windows it suppresses. It gives `ProofMatchesNative`.
- `Lineage`: the roots that may still become durable descend from the durable one, so their proofs are of its operation
  or earlier and none returns that was replaced. It gives `ProofNeedsIntent`, and `LedgerImplemented`: the initial state
  maps to one of `HistoryLedger`, and each step maps to a step of the ledger or changes nothing a reader sees.

**`ObjectCollectionProofs`** (`NamesAssumption`, `BoundsAssumption`) proves `ReachablePresent`, `OriginalsNamed` and
`BackupSeesOneGeneration`. The heart is `SweepOK`: whatever a sweep still means to unlink is outside the reach of the
root, whoever's root that is by now, and its delta is not `Fresh` (listed by the root or built on its revision, so that
a later operation may yet admit it). That the root cannot move while a sweep runs is `Writes`: an operation that began
before the sweep has written nothing it needs, since each of its writes waits. For `OriginalsNamed` a manifest is only
unlinked once a fresh manifest names its original (`Spare`) or the original is gone (`Gone`).

**`HistoryQueryProofs`** (`CellsAssumption`, `BoundsAssumption`, `NoneAssumption`) proves `ServedIsCurrent`, `DisputedNotServed` and `ReadyIsNative`. `SoundRoot` says that the
durable root, and each root that may replace it, is behind Recorder only in the windows it suppresses; `Guarded` that
whatever is disputed is held by the durable root or fenced, if only by a fence on its way; `TaskOK` and `WriterOK` what the
tracked task and the coroutine under the lock may still do. `QueryOK` is why reading without the lock is right: while
the objects that the query saw are the ones in place, at most one proof can have been published, and the root it read
still stood at some moment of the query.

**`EntryLifecycleProofs`** (`OwnersAssumption`, `BoundsAssumption`) proves all eight safety properties of `lifecycle` and
`lifecycle_baseline`. Its `Inv` has three parts. `Core` relates who holds the refresh lock, the first refresh that is alone,
the rows (each of an accepted request, of the past, of versions seen), the options that a date edit keeps for its rollback,
the snapshot's age and the days still to be read. `HeldOK` says that a day held is as new as every baseline it could
replace, those that a rollback may restore included (`Standing`), and at least as new as some version with the summary
of its key; `ReadOK` that a refresh is as new as the baselines whose days it has yet to read, and that those it has read have seen what
its summary shows. Two facts carry them: refreshes are alone under their lock, so no other read comes between a
summary and its days, and a filter action only ever writes rows without a baseline or gives back one that was standing.
`Core` gives `BaselineMatchesBoundary`, `ProjectionScheduled` and the action properties `NeverOlder` and
`ReceiptsOwned`; with the other two it gives `BaselineNeverOlder` and `CorrectionsReachBaselines`.
`RequestAppliedOnce` needs a layer of its own, `NoReplay`: of all the boundaries that a chain of pending rollbacks can bring back, none is the one a repeated service request was answered for, so the
repetition is recognised. `RetryArmed` needs another, `Covered`: a pending boundary has the timer, a refresh that will see
it, or a failed action whose outcome is still outstanding.

**`TaskCoalescerProofs`** (`CallersAssumption`, `RequestsAssumption`) proves `RequestRetained`, `OnePass` and
`Coalesced` from one invariant: the lock's hand-over and its queue get a lemma each, since `OnePass` quantifies over
places in the queue that every step shifts. (`Coalesced` is an action property: a drain resumes with its flag up only if a
request is newer than its last pass.)

**`DailyImportProofs`** (`FiniteAssumption`, `IdsAssumption`, `DaysAssumption`,
`ZonesAssumption`, `ValuesAssumption`) proves `SeedsCurrent` and
`WritesOwnedAndCurrent`, for any zones and moves. The argument is the one the code's comment hints at: the pass's marker stays the last task of
Recorder's queue until it is answered (`MarkerLast`), because whoever else would queue an import needs the entry lock; so
the queue is empty at `Inventory` and stays empty until `Write`. Ownership rests on `OwnedByDaily`: adoption needs the
same lock, and settings are compared in the step that writes. `TotalsInv` on top holds while the zone has not moved
(`WhileUnmoved`; the run `daily_zone` shows why it ends there) and gives `TotalsAddUp` and `TotalsFromTheStart`: rows and
plans then stand at midnights of one zone, what is queued joins on what Recorder holds (`QueueJoins`), nothing imported is later than the
snapshot a plan was made from (`Snapshots`), and a plan that does not start with the history has a seed for every series
it builds (`PlanOK`). `Totals` is a recursive function; that it is defined, and adds each increment once, is proved by
induction in a first-order form (`NatSetInduction`: the days for which the fact holds are all days).

**`HistoryEvidenceProofs`** (`SizesAssumption`, `ValuesAssumption`) proves the three properties of
`evidence`. Its `Inv` is small: a lineage supersedes only earlier acquisitions, a row lies within its manifest's window,
no source ends after the provider's data end, a delta has a row. The work is in the operators, in four layers:

- Lineage. `Ancestors` and the recursion in `Contracted` are defined for every lineage and unique (`AncestorsUnique`,
  by induction over sets of naturals); `_nearest` keeps what is reached (`NearestKeeps`), and contraction leaves among
  the kept exactly what was there (`ContractedKeeps`).
- Retirement. A maximal winner is needed, every other winner observed the same and supersedes no more than it, so the
  winners of the kept observe what the winners of all did; where there is no winner, or an archive disagrees, all are
  needed (`RetiringKeepsSlot`). With the horizon's witness the whole resolution stays (`RetiringKeepsResolution`), also for
  acquisitions outside the window: `RetirementInvisible`, so the check after `source_redundancy` never refuses.
- Following. The newest acquisition decides every slot it has a row for or disputes it (`NewestDecides`); a slot it has
  no row for stays as the baseline had it, which is what the feed has: `RoutineFollowsProvider`.
- Converging. The delta supersedes what the baseline keeps, and so, through maximal winners, every other winner of its
  slots (`WinnersSuperseded`); where nothing is disputed it alone is needed (`ChangedNeeds`). A point of a carried day that
  it lacks has no provider row (`DayUnchanged`). So one acquisition wins the day, and what else has rows only there is
  retired: `ClosedDaysConverge`. The exception for held deltas is necessary: one that an hour held in conflict when
  the pass began is protected from retirement by that pass although no slot needs it, and goes with a
  later one. TLC finds the case with seven acquisitions and three irregularities, more than the run explores.

**`PartsProofs`, links** (`ResourcesAssumption`, `EntriesAssumption`, `RegistriesAssumption`): both properties of
`DeviceLinks`, for any registries and any number of changes. `DevicesNotShared` is about the links as they are computed:
the strongest claim to a device wins alone (`WonOnce`); two thermostats that select one entity conflict, and one that
selects an entity outranks a match of its device by name (`SelectedAlone`, `ThermostatsApart`); a built-in sensor is
compared through what its thermostat stands on (`StandsOnDevice`, `SensorsApart`).
`MixedClaimsProven` needs `LinksInv` besides: every climate and probe that exists is watched and so is its device, except
by the change that is being delivered (`Watched`), and the mixed claims hold until a change is pending that the listeners
will hear (`SoundUntilHeard`). A claim rests on climates, probes, the devices that carry them and the serials of these
(`MixedRestsOn`), so a change that nobody listens to cannot end it. The assumptions say that resources, entries and
devices have different names, that there are finitely many devices, and that the registries at setup are well formed.

**`PartsProofs`, reads** (`ReadsAssumption`, `ReadsBudget`). `Accounted`, for any resources, days, windows, budgets and
faults: the windows still to be read and those told of, read or skipped, tile the window of each resource (`Tiling`); halves tile
what a failed window did, and a skipped one keeps its place. `BudgetFits` has two halves. That a silent source is asked at most
`(Budget + 1) * Retries` times is a count: `silent` is at most the failed windows in a row times `Retries` and the
requests of the present one. That one bad day ends no pass needs more than the tiling, and the width of 30 days, a budget of at least 8
(`ReadsBudget`, the values of the code) and days that halve four times. A full window is then 32 leaves of 15/16 of a day, and every
window in the queue is a piece of it: `2^l` leaves from one that is a multiple of `2^l` (`Piece`, `Chained`). `StreakFits` says how many failures in a row
a piece may meet before it is read, by where it lies to the bad day: on the way down to the day's first leaf at most one for
each halving, and after a skipped leaf one for each halving since. A day amid one full
window takes up to 7, as the comment in `import_evidence.py` counts (6 levels, and one more when the day spans two leaves);
one that begins where a full window ends takes the spare eighth, because the last leaf of that window, which ends with
the day's first moment, fails as well. So 8 is needed when a resource has more than one window. The claim is of full windows: a resource whose data ends where the
pass starts has a window of one moment, and enough of those could fail one after the other.

**`PartsProofs`, filter** (`FilterAssumption`: a day is a number of slots, the fan runs in finitely many units).
`DueStateProven`, for any fan, any order of reports, any changes and any age of the cache. `FilterInv` says that all rows
that were read were over when they were read (`Finished`), that the change on record is not in the future, and that what is
published was `Honest` when it was: what it observed is runtime since the filter was surely in, and with what it calls unknown it
bounds all runtime since the change. `HonestObservation` is the argument about `build_filter_runtime_observation`. Each part
of an observation, the change day and every day after it, knows some slots (`Knows`): of its own day, after the change, over by now. So no slot is
counted twice (`Parted`), and observed runtime is a part of all runtime (`ObservedRan`). A unit of the fan since the change is one of a
known slot, or one of those that a part or the tail counts as unknown: `UnknownCovers` counts the units rather than the fan, which is why the gap of
a day may be given as time without saying which time it is. Between projections runtime grows by at most the time
that passes (`ExposedGrows`), and the deadline leaves no more of it than was missing; the deadline at the end of the day
keeps the calendar's verdict.

**`PartsProofs`, pages** (`PagesAssumption`, `PagesTime`). `PagesAreOneView`: what a caller has joined is the beginning of the
answer of the view it saw first (`PagesInv`), because a page is cut from the series joined together, though it is built series by
series (`FlattenCut`, by induction over the quantities), and a page of another view is refused.
`TotalsTrue`: a proof that is not pending is the amount of its hour, and a row of the retired series is the sum of the hours
before it (`TruthInv`). The buckets of an answer tile the request (`HoursTile`, `DaysTile`), days of any
length and hours of them cut off at either end included, so that the totals of the buckets add up to the total of the
hours (`CompleteIsSum`, `SumSpans`). The amounts, zones, adoptions and imports are any.

`OfParts` joins the inductive invariants of reads, filter and pages to one of `PartsSpec`, the specification that the run
checks; the theorems state the very invariants of its cfg. That sums over sets are well defined and add up is proved first,
by induction over the naturals in a first-order form (`NatSetInduction`, `FiniteInduction`).

Every safety property that a passing run checks is thus also a theorem. Only model-checked: liveness (`OperationSettles`,
`EveryRequestServed`), which is out of TLAPS' reach here. `AdoptionSurvives`, `PendingIsRetried` and `SeedsBeforeWindow`
are false.

## Runs

| run | states what | bounds in short |
|---|---|---|
| `journal` | journal safety, refinement, liveness | 2 cells, 2 operations, 2 managers, 2 faults (1 after a reload) |
| `journal_adoption` | expected violation: a crash loses an adoption | 1 cell, 1 operation, 2 managers |
| `query` | lock-free queries | 2 cells, 1 operation, 2 holds, 2 faults |
| `evidence` | sources over many passes | 2 days, 5 acquisitions, 2 irregularities, 1 review |
| `objects` | object store | 2 objects, 3 deltas, 2 operations, 2 managers, 1 fault |
| `coalescer` | import requests | 4 requests, 2 other callers |
| `daily_import` | daily totals, settings and rebuilds | 3 days, 2 attempts, 1 correction, 2 zones, 1 rebuild or move |
| `daily_zone` | expected violation: a day seeds its own window after a move of the zone | 3 days, 2 zones, 1 move |
| `lifecycle` | options and coordinator | 1 thermostat, 2 requests, 2 slots, 2 versions, 1 fault |
| `lifecycle_baseline` | baselines and days held | 2 thermostats, 1 slot, 3 versions, 2 zones, 1 fault |
| `lifecycle_retry` | expected violation: a pending boundary without its retry | 1 thermostat, 2 slots, no options step |
| `parts` | links, point reads, filter, pages | per part, above |

## Not modelled

- Entities, diagnostics, alerts and profiles: stateless projections of the coordinator snapshot. Only the filter's due
  entity makes a claim that time can make false, and it is in `FilterForecast`.
- Form schemas, payload parsing, migrations of stored entries, platform setup and device removal: sequential
  transformations of one value without a second actor.
- The sample arithmetic of `hourly_statistics.py`, `hourly_history_values.py` and the mean statistics of
  `statistics_builder.py`: rows in, rows out, nothing kept.
- Limits of files (sizes, disk reserve, symlinks), manifest parsing and digests: a digest is taken to name its content.
- The window that ends at the latest summary day when Home Assistant's day is behind the thermostat's: `DailyImport`
  has one calendar. A series whose sum leaves the range of a float ends early; increments of the model always add.
