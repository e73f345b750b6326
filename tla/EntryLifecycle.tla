---------------------------- MODULE EntryLifecycle ----------------------------
(***************************************************************************)
(* The options of one config entry and everybody who writes them: filter   *)
(* actions (entry_options.py), the reconciliation of exact boundaries       *)
(* inside a refresh (coordinator.py), the options and account flows         *)
(* (config_flow.py); and the coordinator that refreshes, publishes and      *)
(* projects while they do.  Every action is the code between two awaits.   *)
(***************************************************************************)
EXTENDS Integers, Sequences

CONSTANTS
    Thermostats,      \* thermostats of the first account
    Requests,         \* request ids, one per accepted filter change
    Services,         \* those chosen by clients of record_filter_change
    Slots,            \* filter actions that may be in flight together
    None,             \* Python's None
    MaxSource,        \* bound: versions of the cloud's data
    Covering,         \* <<version, at, zone>>: the points of the day of a
                      \* boundary reach from midnight to the boundary
    Fingerprint,      \* count, sum and deletion a version's summary shows
    MaxNow,           \* bound: passages of a projection deadline
    FastWindow,       \* _FILTER_BOUNDARY_FAST_RETRY_WINDOW, in the same unit
    Zones,            \* time zones of the account
    MaxFaults,        \* bound: failed cloud reads
    MaxSaves          \* bound: options saved and account flows started

ASSUME BoundsAssumption ==
    /\ None \notin Requests /\ Services \subseteq Requests
    /\ None \notin Zones /\ Zones # {}
    /\ None \notin Int /\ None \notin [at : Int, src : Int]
    /\ {MaxSource, MaxNow, FastWindow, MaxFaults, MaxSaves} \subseteq Nat
    /\ Covering \subseteq Int \X Int \X Zones
    /\ DOMAIN Fingerprint = 0..MaxSource

VARIABLES
    saved,    \* entry.options[thermostats]: one row of filter fields each
    policy,   \* the rest of entry.options, as a version
    account,  \* "first", or "second" after a confirmed account change
    open,     \* not is_closed, of the latest coordinator
    reload,   \* a reload of the entry is scheduled
    data,     \* coordinator.data: the cached rows and the projection of them
    cache,    \* _filter_day_cache: the points of a boundary's day, by a key
    proj,     \* the deadline the projection timer is armed for, or None
    retry,    \* the boundary retry timer is armed
    queue,    \* refreshes at the lock, its holder first
    task,     \* the refresh of each owner
    op,       \* the filter action of each slot
    content,  \* what each service request asks for
    flow,     \* an account flow and its snapshots
    source,   \* the version of the cloud's data
    now, zone, faults, saves,
    accepted  \* ghost: how often each request was written

entryVars == <<saved, policy, account, open, reload>>
coordVars == <<data, cache, proj, retry>>
workVars  == <<queue, task, op, content, flow>>
worldVars == <<source, now, zone, faults, saves>>
vars == <<entryVars, coordVars, workVars, worldVars, accepted>>

Importer == "importer"
Timer    == "timer"
Owners   == Slots \cup {Importer, Timer}

ASSUME OwnersAssumption == Importer \notin Slots /\ Timer \notin Slots

NoRow   == [req |-> None, at |-> None, base |-> None]
NoData  == [src |-> None, at |-> None]
NoDay   == [key |-> None, rows |-> None]
NoTask  == [pc |-> "none", plan |-> None, src |-> None, zone |-> None,
            left |-> {}, pend |-> FALSE]
NoOp    == [pc |-> "none", kind |-> None, req |-> None, closed |-> FALSE,
            old |-> None, new |-> None]
NoFlow  == [pc |-> "none", options |-> None]

Options     == [saved |-> saved, policy |-> policy]
Boundary(r) == [at |-> r.at, req |-> r.req]

------------------------------------------------------------------------------
(* Projection and publication                                              *)

(* _build_runtime_data: a projection of rows of the source at this moment.  *)
Build(src) == [src |-> src, at |-> now]

(* async_set_updated_data, and _async_schedule_projection_boundary with it. *)
Publish(d) ==
    /\ data' = d
    /\ proj' = d.at + 1

\* Mutant: an unchanged projection is not scheduled again.
ReprojectOnce ==
    LET projected == Build(data.src)
    IN  \/ data' = projected /\ proj' = projected.at + 1
        \/ data' = data /\ proj' = None

(* _async_rebuild_projection_from_cached: published if something visible    *)
(* changed, rescheduled from the new projection either way.                *)
Reproject ==
    LET projected == Build(data.src)
    IN  /\ data' \in {data, projected}
        /\ proj' = projected.at + 1

ProjectionDue ==
    /\ open /\ proj # None /\ proj <= now
    /\ Reproject
    /\ UNCHANGED <<entryVars, cache, retry, workVars, worldVars, accepted>>

(* async_update_local_timezone.                                            *)
ZoneChange ==
    /\ open /\ data # NoData
    /\ zone' \in Zones \ {zone}
    /\ Reproject
    /\ UNCHANGED <<entryVars, cache, retry, workVars, source, now, faults,
                   saves, accepted>>

------------------------------------------------------------------------------
(* The boundary retry timer                                                *)

(* _has_fast_retryable_filter_boundary.                                    *)
FastRetryable(rows) ==
    /\ account = "first"
    /\ \E t \in Thermostats :
          /\ rows[t].at # None /\ rows[t].base = None
          /\ rows[t].at <= now /\ now - rows[t].at <= FastWindow

(* async_schedule_filter_boundary_reconcile.                               *)
ScheduleRetry(rows) == retry' = (retry \/ FastRetryable(rows))

Request(o) ==
    /\ task[o] = NoTask
    /\ task' = [task EXCEPT ![o].pc = "queued"]
    /\ queue' = Append(queue, o)

(* _async_retry_filter_boundaries.  Its refresh is over before the next one *)
(* is due, fifteen minutes later.                                          *)
RetryFires ==
    /\ retry
    /\ retry' = FALSE
    /\ Request(Timer)
    /\ UNCHANGED <<entryVars, data, cache, proj, op, content, flow,
                   worldVars, accepted>>

------------------------------------------------------------------------------
(* One refresh, _async_refresh_runtime: queue at _refresh_lock, read the    *)
(* resource rows, read the summary, reconcile each exact boundary, publish. *)
(* The coroutine that awaits a refresh resumes before another cloud read    *)
(* can come back, its wake-up is queued on the event loop already; so what  *)
(* an import or the retry timer do with the outcome belongs to the refresh. *)
(* A failed filter action resumes in a step of its own: the entry may be    *)
(* unloaded or written in the same pass of the loop.                       *)

\* Mutant: refreshes do not wait for each other.
HoldsUnlocked(o, pc) ==
    /\ task[o].pc = pc
    /\ \A s \in Slots : task[s].pc # "failed"

Holds(o, pc) ==
    /\ queue # <<>> /\ Head(queue) = o /\ task[o].pc = pc
    /\ \A s \in Slots : task[s].pc # "failed"

(* The lock is acquired and the thermostat and sensor rows are read.       *)
ReadRows(o) ==
    /\ Holds(o, "queued")
    /\ task' = [task EXCEPT
                  ![o].pc = "summary",
                  ![o].plan = [t \in Thermostats |->
                                 IF account = "first" THEN saved[t].at ELSE None]]
    /\ UNCHANGED <<entryVars, coordVars, queue, op, content, flow, worldVars,
                   accepted>>

(* _async_record_error and async_set_update_error: nothing is published.    *)
(* The retry timer arms itself again.  A failed first refresh closes the    *)
(* coordinator (ConfigEntryNotReady) and Home Assistant tries again later.  *)
RefreshFails(o) ==
    /\ Holds(o, "queued") \/ Holds(o, "summary")
    /\ faults < MaxFaults
    /\ faults' = faults + 1
    /\ queue' = Tail(queue)
    /\ task' = [task EXCEPT ![o] =
                  IF o \in Slots THEN [NoTask EXCEPT !.pc = "failed"] ELSE NoTask]
    /\ IF o = Timer THEN ScheduleRetry(saved) ELSE UNCHANGED retry
    /\ open' = (data # NoData) /\ reload' = (reload \/ data = NoData)
    /\ UNCHANGED <<saved, policy, account, data, cache, proj, op, content, flow,
                   source, now, zone, saves, accepted>>

\* Mutant: the retry is cancelled although a boundary stayed pending.
FinishCancelling(o, src, rows, pend) ==
    /\ retry' = FALSE
    /\ Publish(Build(src))
    /\ queue' = Tail(queue)
    /\ task' = [task EXCEPT ![o] = NoTask]
    /\ op' = [s \in Slots |-> IF s = o THEN NoOp ELSE op[s]]

(* The tail of the locked fetch and the publication: there is no await from *)
(* the last reconciled boundary on.                                         *)
Finish(o, src, rows, pend) ==
    /\ IF pend THEN ScheduleRetry(rows) ELSE retry' = FALSE
    /\ Publish(Build(src))
    /\ queue' = Tail(queue)
    /\ task' = [task EXCEPT ![o] = NoTask]
    /\ op' = [s \in Slots |-> IF s = o THEN NoOp ELSE op[s]]

(* The days held for thermostats without an exact boundary are dropped.     *)
ReadSummary(o) ==
    LET exact == {t \in Thermostats : task[o].plan[t] # None}
    IN  /\ Holds(o, "summary")
        /\ cache' = [t \in Thermostats |-> IF t \in exact THEN cache[t] ELSE NoDay]
        /\ IF exact = {}
           THEN Finish(o, source, saved, FALSE)
           ELSE /\ task' = [task EXCEPT ![o].pc = "day", ![o].src = source,
                                        ![o].zone = zone, ![o].left = exact]
                /\ UNCHANGED <<data, proj, retry, queue, op>>
        /\ UNCHANGED <<entryVars, content, flow, worldVars, accepted>>

(* assess_change_day: the baseline of a boundary in one version of its day, *)
(* none unless the points from midnight to the boundary are all there.     *)
Assess(at, rows) ==
    IF <<rows, at, zone>> \in Covering THEN [at |-> at, src |-> rows] ELSE None

\* Mutant: a baseline is kept when the points under it are withdrawn.
ReconciledUp(row, base) == IF base = None THEN row ELSE [row EXCEPT !.base = base]

(* _filter_boundary_changes written through update_thermostat_override_options: *)
(* a corrected baseline is saved, one that is no longer covered is cleared. *)
Reconciled(row, base) == [row EXCEPT !.base = base]

DayEnds(o, t, rows, pend) ==
    LET pending == task[o].pend \/ pend
    IN  IF task[o].left = {t}
        THEN Finish(o, task[o].src, rows, pending)
        ELSE /\ task' = [task EXCEPT ![o].left = @ \ {t}, ![o].pend = pending]
             /\ UNCHANGED <<data, proj, retry, queue, op>>

(* _async_reconcile_filter_boundary gives up: the zone changed, or the read *)
(* of the day failed.  The boundary stays pending, and the day held is gone *)
(* if another was asked for.                                               *)
DayUnread(o, t) ==
    /\ Holds(o, "day") /\ t \in task[o].left
    /\ \/ /\ task[o].zone # zone /\ UNCHANGED faults
          /\ cache' \in {cache, [cache EXCEPT ![t] = NoDay]}
       \/ /\ task[o].zone = zone /\ faults < MaxFaults /\ faults' = faults + 1
          /\ cache' = [cache EXCEPT ![t] = NoDay]
    /\ DayEnds(o, t, saved, TRUE)
    /\ UNCHANGED <<entryVars, content, flow, source, now, zone, saves, accepted>>

(* What the day of a boundary is held under.                               *)
Key(o, t) == [at |-> task[o].plan[t], zone |-> task[o].zone,
              print |-> Fingerprint[task[o].src]]

\* Mutant: the options are not looked at again after the read.
MeetBlindly(o, t, day, left) ==
    LET at   == task[o].plan[t]
        base == Assess(at, day.rows)
    IN  /\ saved' = [saved EXCEPT ![t] = Reconciled(@, base)]
        /\ cache' = [cache EXCEPT ![t] = day]
        /\ DayEnds(o, t, saved', base = None)

(* The points of a day meet the options of the moment: the boundary is not  *)
(* the one they were read for any more, or it is reconciled and they are    *)
(* held.                                                                   *)
Meet(o, t, day, left) ==
    LET at   == task[o].plan[t]
        base == Assess(at, day.rows)
    IN  IF saved[t].at # at
        THEN /\ cache' = [cache EXCEPT ![t] = left]
             /\ DayEnds(o, t, saved, saved[t].at # None)
             /\ UNCHANGED saved
        ELSE /\ saved' = [saved EXCEPT ![t] = Reconciled(@, base)]
             /\ cache' = [cache EXCEPT ![t] = day]
             /\ DayEnds(o, t, saved', base = None)

\* Mutant: every version read of a day is kept under its fingerprint.
HeldOnce(o, t) ==
    {v \in 0..source : Fingerprint[v] = Fingerprint[task[o].src]}

(* The day held serves again while its key is that of the refresh.         *)
Held(o, t) ==
    IF cache[t] # NoDay /\ cache[t].key = Key(o, t) THEN {cache[t].rows} ELSE {}

(* The points are as the cloud is when the read returns, or are those held. *)
(* A key also has the end of the data and a bucket of six hours, so that a  *)
(* day with an unchanged summary is read again at times.  The code takes a  *)
(* day held at once; here other steps may come first, as before a read.    *)
DayRead(o, t) ==
    /\ Holds(o, "day") /\ t \in task[o].left
    /\ task[o].zone = zone
    /\ \/ \E rows \in Held(o, t) : Meet(o, t, [key |-> Key(o, t), rows |-> rows], cache[t])
       \/ \E rows \in task[o].src..source :
             Meet(o, t, [key |-> Key(o, t), rows |-> rows], NoDay)
    /\ UNCHANGED <<policy, account, open, reload, content, flow, worldVars, accepted>>

------------------------------------------------------------------------------
(* Filter actions (entry_options.py)                                       *)

Loaded == open /\ data # NoData /\ account = "first"

(* Ids of button presses, repairs and date edits are fresh.                *)
Fresh(r) == r \notin Services /\ accepted[r] = 0

(* One merge of the complete filter row: new boundary, old baseline gone.  *)
Write(t, r, at) == saved' = [saved EXCEPT ![t] = [req |-> r, at |-> at, base |-> None]]

Begin(s, kind, r, pc) ==
    op' = [op EXCEPT ![s] = [NoOp EXCEPT !.pc = pc, !.kind = kind, !.req = r]]

Accept(r) == accepted' = [accepted EXCEPT ![r] = @ + 1]

(* async_set_filter_changed_date.                                          *)
SetDate(s, t, r) ==
    /\ Loaded /\ op[s] = NoOp /\ Fresh(r)
    /\ Write(t, r, None)
    /\ op' = [op EXCEPT ![s] = [NoOp EXCEPT
                 !.pc = "refresh", !.kind = "date", !.req = r, !.old = Options,
                 !.new = [Options EXCEPT !.saved = saved']]]
    /\ Request(s)
    /\ Accept(r)
    /\ UNCHANGED <<policy, account, open, reload, coordVars, content, flow,
                   worldVars>>

(* async_mark_filter_changed after its guards: write, rebuild the published *)
(* data from cached rows (a failure is swallowed), then dismiss or refresh. *)
Mark(s, kind, t, r, at) ==
    /\ Write(t, r, at)
    /\ Begin(s, kind, r, IF kind = "repair" THEN "refresh" ELSE "dismiss")
    /\ IF kind = "repair" THEN Request(s) ELSE UNCHANGED <<task, queue>>
    /\ Publish(Build(data.src)) \/ UNCHANGED <<data, proj>>
    /\ Accept(r)
    /\ UNCHANGED <<policy, account, open, reload, cache, retry, content,
                   flow, worldVars>>

PressButton(s, t, r) ==
    /\ Loaded /\ op[s] = NoOp /\ Fresh(r)
    /\ Mark(s, "button", t, r, now)

(* The repair action reads the guard and writes without an await between.  *)
Repair(s, t, r, at) ==
    /\ Loaded /\ op[s] = NoOp /\ Fresh(r)
    /\ at <= now /\ saved[t] # NoRow
    /\ Mark(s, "repair", t, r, at)

(* A client of record_filter_change captures the boundary it replaces.     *)
Capture(r, t, at) ==
    /\ Loaded /\ content[r] = None /\ at <= now
    /\ content' = [content EXCEPT ![r] = [t |-> t, at |-> at, prior |-> Boundary(saved[t])]]
    /\ UNCHANGED <<entryVars, coordVars, queue, task, op, flow, worldVars, accepted>>

\* Mutant: only the saved request is recognised as a replay.
RecordAnyPrior(s, r) ==
    /\ Loaded /\ op[s] = NoOp /\ content[r] # None
    /\ LET c == content[r]
           current == saved[c.t]
       IN  /\ current.req # r
           /\ current.at # None => c.at > current.at
           /\ Mark(s, "service", c.t, r, c.at)

(* The client sends it, once or again: a replay of the saved request and a  *)
(* request whose prior boundary is gone change nothing.                    *)
Record(s, r) ==
    /\ Loaded /\ op[s] = NoOp /\ content[r] # None
    /\ LET c == content[r]
           current == saved[c.t]
       IN  /\ current.req # r
           /\ Boundary(current) = c.prior
           /\ current.at # None => c.at > current.at
           /\ Mark(s, "service", c.t, r, c.at)

(* async_dismiss_filter_alerts, best effort; then the refresh.             *)
Dismissed(s) ==
    /\ op[s].pc = "dismiss"
    /\ op' = [op EXCEPT ![s].pc = "refresh"]
    /\ Request(s)
    /\ UNCHANGED <<entryVars, coordVars, content, flow, worldVars, accepted>>

\* Mutant: the rollback does not ask who wrote the options since.
UnchallengedAlways(s) == ~op[s].closed

(* A date edit whose refresh failed takes its options back, if they are     *)
(* still exactly the ones it wrote and its coordinator is not closed.      *)
Unchallenged(s) == ~op[s].closed /\ Options = op[s].new

(* The retry timer that a closed coordinator arms raises when it fires.     *)
ActionFails(s) ==
    /\ task[s].pc = "failed"
    /\ op' = [op EXCEPT ![s] = NoOp]
    /\ task' = [task EXCEPT ![s] = NoTask]
    /\ IF op[s].kind = "date"
       THEN /\ saved' = IF Unchallenged(s) THEN op[s].old.saved ELSE saved
            /\ UNCHANGED retry
       ELSE /\ IF ~op[s].closed THEN ScheduleRetry(saved) ELSE UNCHANGED retry
            /\ UNCHANGED saved
    /\ UNCHANGED <<policy, account, open, reload, data, cache, proj,
                   queue, content, flow, worldVars, accepted>>

------------------------------------------------------------------------------
(* Imports, scheduled or manual, refresh first                             *)

StartImport ==
    /\ open /\ data # NoData
    /\ Request(Importer)
    /\ UNCHANGED <<entryVars, coordVars, op, content, flow, worldVars, accepted>>

------------------------------------------------------------------------------
(* Unload and setup                                                        *)

(* Timers and background tasks belong to the entry: unloading cancels them, *)
(* and the filter actions that await one of these tasks end with it.  An    *)
(* action whose refresh has failed already still gets its outcome.         *)
Unload ==
    /\ open /\ reload /\ data # NoData
    /\ open' = FALSE
    /\ proj' = None /\ retry' = FALSE
    /\ queue' = <<>>
    /\ task' = [o \in Owners |->
                  IF task[o].pc = "failed" THEN task[o] ELSE NoTask]
    /\ op' = [s \in Slots |-> IF task[s].pc = "failed"
                               THEN [op[s] EXCEPT !.closed = TRUE] ELSE NoOp]
    /\ UNCHANGED <<saved, policy, account, reload, data, cache, content, flow,
                   worldVars, accepted>>

(* async_setup_entry creates a coordinator and makes its first refresh.    *)
Setup ==
    /\ ~open /\ reload
    /\ open' = TRUE /\ reload' = FALSE
    /\ data' = NoData /\ cache' = [t \in Thermostats |-> NoDay]
    /\ proj' = None /\ retry' = FALSE
    /\ Request(Importer)
    /\ UNCHANGED <<saved, policy, account, op, content, flow, worldVars, accepted>>

------------------------------------------------------------------------------
(* Configuration flows (config_flow.py)                                    *)

(* An options step rebases onto the options of the moment it saves and      *)
(* reloads the entry (OptionsFlowWithReload).                              *)
SaveOptions ==
    /\ saves < MaxSaves
    /\ saves' = saves + 1
    /\ policy' = policy + 1
    /\ reload' = TRUE
    /\ UNCHANGED <<saved, account, open, coordVars, workVars, source, now, zone,
                   faults, accepted>>

(* _async_update_entry_data_flow snapshots the entry, then validates the    *)
(* credentials in the cloud.                                               *)
StartAccountFlow ==
    /\ flow = NoFlow /\ saves < MaxSaves
    /\ saves' = saves + 1
    /\ flow' = [pc |-> "validating", options |-> Options]
    /\ UNCHANGED <<entryVars, coordVars, queue, task, op, content, source, now, zone,
                   faults, accepted>>

(* _async_apply_validated_connection: the same account is saved at once, a  *)
(* different one is shown for confirmation unless the options moved.        *)
CredentialsValidated ==
    /\ flow.pc = "validating"
    /\ \/ /\ flow' = NoFlow
          /\ reload' = TRUE
       \/ /\ flow' = IF Options = flow.options
                     THEN [flow EXCEPT !.pc = "confirm"] ELSE NoFlow
          /\ UNCHANGED reload
       \/ flow' = NoFlow /\ UNCHANGED reload
    /\ UNCHANGED <<saved, policy, account, open, coordVars, queue, task, op,
                   content, worldVars, accepted>>

(* async_step_account_change_confirm drops the thermostats' rows.          *)
ConfirmAccount ==
    /\ flow.pc = "confirm"
    /\ flow' = NoFlow
    /\ IF Options = flow.options
       THEN /\ saved' = [t \in Thermostats |-> NoRow]
            /\ account' = "second"
            /\ reload' = TRUE
       ELSE UNCHANGED <<saved, account, reload>>
    /\ UNCHANGED <<policy, open, coordVars, queue, task, op, content, worldVars,
                   accepted>>

------------------------------------------------------------------------------
(* The world outside                                                       *)

SourceMoves ==
    /\ source < MaxSource
    /\ source' = source + 1
    /\ UNCHANGED <<entryVars, coordVars, workVars, now, zone, faults, saves, accepted>>

Tick ==
    /\ now < MaxNow
    /\ now' = now + 1
    /\ UNCHANGED <<entryVars, coordVars, workVars, source, zone, faults, saves,
                   accepted>>

Init ==
    /\ saved = [t \in Thermostats |-> NoRow]
    /\ policy = 0 /\ account = "first" /\ open = TRUE /\ reload = FALSE
    /\ data = [src |-> 0, at |-> 0] /\ proj = 1
    /\ cache = [t \in Thermostats |-> NoDay]
    /\ retry = FALSE
    /\ queue = <<>> /\ task = [o \in Owners |-> NoTask]
    /\ op = [s \in Slots |-> NoOp] /\ content = [r \in Services |-> None]
    /\ flow = NoFlow
    /\ source = 0 /\ now = 0 /\ zone \in Zones /\ faults = 0 /\ saves = 0
    /\ accepted = [r \in Requests |-> 0]

Refresh(o) ==
    \/ ReadRows(o) \/ RefreshFails(o) \/ ReadSummary(o)
    \/ \E t \in Thermostats : DayUnread(o, t) \/ DayRead(o, t)

FilterAction(s) ==
    \/ \E r \in Requests, t \in Thermostats :
          \/ SetDate(s, t, r) \/ PressButton(s, t, r)
          \/ \E at \in 0..MaxNow : Repair(s, t, r, at)
    \/ \E r \in Services : Record(s, r)
    \/ Dismissed(s) \/ ActionFails(s)

Next ==
    \/ \E o \in Owners : Refresh(o)
    \/ \E s \in Slots : FilterAction(s)
    \/ \E r \in Services, t \in Thermostats, at \in 0..MaxNow : Capture(r, t, at)
    \/ ProjectionDue \/ ZoneChange \/ RetryFires
    \/ StartImport
    \/ Unload \/ Setup
    \/ SaveOptions \/ StartAccountFlow \/ CredentialsValidated \/ ConfirmAccount
    \/ SourceMoves \/ Tick

Spec == Init /\ [][Next]_vars

------------------------------------------------------------------------------
(* Properties                                                              *)

(* A saved baseline was measured for the saved replacement time: a slow    *)
(* read of a change day never lands on a boundary recorded meanwhile, and  *)
(* no write of a boundary inherits the baseline of the one it replaces     *)
(* (coordinator.py _async_reconcile_filter_boundary, entry_options.py).    *)
BaselineMatchesBoundary ==
    \A t \in Thermostats : saved[t].base # None => saved[t].base.at = saved[t].at

(* A request is written at most once, however often its client repeats it   *)
(* and whatever dates and replacements are recorded or rolled back between, *)
(* although the entry retains the last request only.                       *)
RequestAppliedOnce == \A r \in Requests : accepted[r] <= 1

(* Once a coordinator is set up its projection timer is armed until it is   *)
(* closed, and for a deadline that the published projection does not cover. *)
ProjectionScheduled ==
    open /\ data # NoData => proj # None /\ proj > data.at

(* The written filter rows are lost in three ways only: a newer action on   *)
(* the same thermostat, the rollback of the date edit that wrote the row,   *)
(* by a coordinator still open, and an account change whose user saw it.   *)
Replaced(t) == \E r \in Requests : accepted'[r] > accepted[r] /\ saved'[t].req = r
RolledBack(t) ==
    \E s \in Slots : /\ op[s].req = saved[t].req /\ ~op[s].closed
                     /\ op[s].kind = "date" /\ task[s].pc = "failed"
Renounced == flow.pc = "confirm" /\ flow.options.saved = saved
ReceiptsOwned ==
    [][\A t \in Thermostats :
          saved'[t].req # saved[t].req =>
             Replaced(t) \/ RolledBack(t) \/ Renounced]_vars

(* A published snapshot is never older than the one it replaces, whoever   *)
(* refreshed, rebuilt or projected it.                                     *)
NeverOlder ==
    [][data # NoData /\ data' # NoData =>
          data'.src >= data.src /\ data'.at >= data.at]_vars

(* While a boundary stays, what its baseline says only moves forward: the   *)
(* points that replace it or take it back are held, and are of a version of *)
(* the day at least as new.  An overlapping refresh, or a day held from an  *)
(* earlier one (_filter_day_cache), does not bring an old total back.      *)
BaselineNeverOlder ==
    [][\A t \in Thermostats :
          /\ Boundary(saved'[t]) = Boundary(saved[t])
          /\ saved[t].base # None /\ saved'[t].base # saved[t].base
          => /\ cache'[t] # NoDay /\ cache'[t].key.at = saved[t].at
             /\ cache'[t].rows >= saved[t].base.src]_vars

(* A refresh that could read every day publishes a summary whose correction *)
(* the baselines have seen: the points each was measured on were read under *)
(* a summary of that day with the same count, sum and deletions.           *)
ReadAll(o) == /\ task[o].pc = "day" /\ ~task[o].pend /\ task[o].zone = zone
              /\ task'[o].pc = "none" /\ open' /\ faults' = faults
CorrectionsReachBaselines ==
    [][\A o \in Owners, t \in Thermostats :
          ReadAll(o) /\ saved'[t].base # None /\ saved'[t].at = task[o].plan[t] =>
             \E shown \in 0..saved'[t].base.src :
                Fingerprint[shown] = Fingerprint[data'.src]]_vars

(* usage.md: a pending exact boundary is retried while it is recent.  What  *)
(* says so is an armed timer when nothing else is going on.                *)
Idle == /\ \A o \in Owners : task[o] = NoTask
        /\ \A s \in Slots : op[s] = NoOp
PendingIsRetried ==
    open /\ ~reload /\ data # NoData /\ Idle /\ FastRetryable(saved) => retry

(* What holds of it: the timer that one refresh arms or cancels is the one  *)
(* that the boundaries saved by then need, whatever filter actions were     *)
(* recorded around it, as long as no read of the cloud failed.              *)
RetryArmed == faults = 0 => PendingIsRetried

=============================================================================
