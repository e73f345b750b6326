------------------------- MODULE EntryLifecycleProofs -------------------------
(***************************************************************************)
(* What the owners of one entry's options and snapshots may rely on across *)
(* their awaits, for any number of thermostats, requests, concurrent       *)
(* actions, cloud versions, clock steps and faults.                        *)
(***************************************************************************)
EXTENDS EntryLifecycle, SequenceTheorems, TLAPS

(***************************************************************************)
(* Types                                                                   *)
(***************************************************************************)
Moment   == 0..MaxNow
Version  == 0..MaxSource
Baseline == [at : Moment, src : Version]
Row      == [req : Requests \cup {None}, at : Moment \cup {None},
             base : Baseline \cup {None}]
Rows     == [Thermostats -> Row]
Saved    == [saved : Rows, policy : Nat]
Plan     == [Thermostats -> Moment \cup {None}]
Day      == [key : [at : Moment, zone : Zones, print : {Fingerprint[v] : v \in Version}],
             rows : Version]
Prior    == [at : Moment \cup {None}, req : Requests \cup {None}]
Asked    == [t : Thermostats, at : Moment, prior : Prior]
Refreshing == {"summary", "day"}
Task     == [pc : {"none", "queued", "failed"} \cup Refreshing, plan : Plan \cup {None},
             src : Version \cup {None}, zone : Zones \cup {None},
             left : SUBSET Thermostats, pend : BOOLEAN]
Action   == [pc : {"none", "dismiss", "refresh"},
             kind : {None, "date", "button", "repair", "service"},
             req : Requests \cup {None}, closed : BOOLEAN,
             old : Saved \cup {None}, new : Saved \cup {None}]

TypeOK ==
  /\ saved \in Rows /\ policy \in Nat /\ account \in {"first", "second"}
  /\ open \in BOOLEAN /\ reload \in BOOLEAN
  /\ data = NoData \/ data \in [src : Version, at : Moment]
  /\ retry \in BOOLEAN
  /\ queue \in Seq(Owners)
  /\ task \in [Owners -> Task]
  /\ op \in [Slots -> Action]
  /\ content \in [Services -> Asked \cup {None}]
  /\ source \in Version /\ now \in Moment /\ zone \in Zones /\ faults \in Nat
  /\ accepted \in [Requests -> Nat]

(***************************************************************************)
(* The inductive invariant                                                 *)
(***************************************************************************)
\* Only the holder of the lock is past its first read, and nobody is while the
\* outcome of a failed filter action is outstanding.
LockHeld ==
  /\ \A o \in Owners : task[o].pc \in Refreshing => queue # <<>> /\ Head(queue) = o
  /\ \A s \in Slots : task[s].pc = "failed" =>
       faults > 0 /\ \A o \in Owners : task[o].pc \notin Refreshing
  /\ (queue # <<>> \/ retry) => open

\* Until the first refresh is over there is nothing but that refresh.
FirstRefreshAlone ==
  data = NoData => ~retry /\ proj = None /\ (queue = <<>> \/ queue = <<Importer>>)

\* A row speaks of accepted requests, of the past, and of versions seen.
RowIn(row, acc, n, v) ==
  /\ row.req # None => acc[row.req] > 0
  /\ row.at # None => row.at <= n
  /\ row.base # None => row.base.at = row.at /\ row.base.src <= v

RowsIn(rows, acc, n, v) == \A t \in Thermostats : RowIn(rows[t], acc, n, v)

\* A date edit holds the options before and after its own write.
EditIn(a, acc, n, v) ==
  /\ a.req \in Requests /\ acc[a.req] > 0
  /\ a.old \in Saved /\ a.new \in Saved
  /\ RowsIn(a.old.saved, acc, n, v)
  /\ \E t \in Thermostats :
       /\ a.old.saved[t].req # a.req
       /\ a.new.saved = [a.old.saved EXCEPT
                           ![t] = [req |-> a.req, at |-> None, base |-> None]]

Editing(s) == op[s].pc # "none" /\ op[s].kind = "date"

ActionsOK ==
  \A s \in Slots :
    /\ task[s].pc # "none" => op[s].pc = "refresh"
    /\ op[s].pc = "dismiss" => ~op[s].closed
    /\ op[s].pc # "none" /\ ~op[s].closed => open /\ data # NoData
    /\ Editing(s) => EditIn(op[s], accepted, now, source)

\* The published snapshot is not newer than the cloud, the clock or the
\* refresh under way, and its projection ends later.
SnapshotOK ==
  data # NoData => /\ data.at <= now /\ data.src <= source
                   /\ open => proj \in Int /\ proj > data.at

\* The days still to be read were planned, and no baseline is newer than them.
DaysOK ==
  \A o \in Owners :
    /\ task[o].pc \in Refreshing =>
         task[o].plan \in Plan
    /\ task[o].pc = "day" =>
         /\ task[o].src \in Version /\ task[o].src <= source
         /\ data # NoData => data.src <= task[o].src
         /\ \A t \in task[o].left :
              /\ task[o].plan[t] # None
              /\ saved[t].base # None => saved[t].base.src <= task[o].src

\* What a client asks for is complete and speaks of the past.
AskedOK ==
  \A r \in Services :
    IF content[r] = None THEN accepted[r] = 0
    ELSE /\ content[r].at <= now
         /\ content[r].prior.req # None => accepted[content[r].prior.req] > 0

Core == /\ TypeOK
        /\ LockHeld
        /\ FirstRefreshAlone
        /\ RowsIn(saved, accepted, now, source)
        /\ ActionsOK
        /\ SnapshotOK
        /\ DaysOK
        /\ AskedOK

\* The rows of a thermostat that are saved, or that a date edit would restore.
Standing(t) == {saved[t]} \cup {op[s].old.saved[t] : s \in {u \in Slots : Editing(u)}}

\* A day held is of a version seen, was read under a summary of its print, and
\* no baseline of its boundary, saved or to be restored, is of a newer one.
HeldOK ==
  /\ cache \in [Thermostats -> Day \cup {NoDay}]
  /\ \A t \in Thermostats : cache[t] # NoDay =>
       /\ cache[t].rows <= source
       /\ \E shown \in 0..cache[t].rows : Fingerprint[shown] = cache[t].key.print
       /\ \A row \in Standing(t) :
            row.base # None /\ row.at = cache[t].key.at => row.base.src <= cache[t].rows

\* A refresh is as new as all these rows until it reads their day, and the
\* baselines of the days it has read have seen what its summary shows.
ReadOK ==
  \A o \in Owners : task[o].pc = "day" =>
    /\ \A t \in task[o].left : \A row \in Standing(t) :
         row.base # None => row.base.src <= task[o].src
    /\ ~task[o].pend => \A t \in Thermostats \ task[o].left :
         saved[t].base # None /\ saved[t].at = task[o].plan[t] =>
           \E shown \in 0..saved[t].base.src : Fingerprint[shown] = Fingerprint[task[o].src]

Inv == Core /\ HeldOK /\ ReadOK

(***************************************************************************)
(* Replays: the boundaries that the pending rollbacks could still bring    *)
(* back are not those that an accepted service request replaced.           *)
(***************************************************************************)
Boundaries(rows) == [t \in Thermostats |-> Boundary(rows[t])]

Restorable == {Boundaries(saved)} \cup
              {Boundaries(op[s].old.saved) : s \in {u \in Slots : Editing(u)}}

Unrepeatable(b) ==
  \A r \in Services : accepted[r] > 0 => b[content[r].t] # content[r].prior

\* K holds what a chain of rollbacks from here can bring back.
ClosedUnderRollback(K) ==
  \A s \in Slots : Editing(s) /\ Boundaries(op[s].new.saved) \in K =>
                     Boundaries(op[s].old.saved) \in K

Harmless(K) == /\ Boundaries(saved) \in K
               /\ ClosedUnderRollback(K)
               /\ \A b \in K : Unrepeatable(b)

NoReplay ==
  /\ \A r \in Requests : accepted[r] <= 1
  /\ account = "first" => \E K \in SUBSET Restorable : Harmless(K)

(***************************************************************************)
(* Retries: without failures a pending boundary in the window is covered   *)
(* by a refresh to come, by the one under way, or by the armed timer.      *)
(***************************************************************************)
PendingRow(t) == account = "first" /\ saved[t].at # None /\ saved[t].base = None

\* A refresh that has yet to read the options.
RefreshToCome == \/ \E o \in Owners : task[o].pc = "queued"
                 \/ \E s \in Slots : op[s].pc = "dismiss"

CoveredBy(o, t) ==
  \/ task[o].pc = "summary" /\ task[o].plan[t] # None
  \/ task[o].pc = "day" /\ (t \in task[o].left \/ task[o].pend)

Covered ==
  faults = 0 /\ open =>
    \A t \in Thermostats : PendingRow(t) =>
      \/ RefreshToCome
      \/ \E o \in Owners : CoveredBy(o, t)
      \/ /\ \A o \in Owners : task[o].pc \notin Refreshing
         /\ now - saved[t].at <= FastWindow => retry

(***************************************************************************)
(* Lemmas about rows, tasks and the queue                                  *)
(***************************************************************************)
\* What was never begun is well-typed.
LEMMA Blank ==
  /\ NoRow \in Row /\ NoTask \in Task /\ NoOp \in Action
  /\ NoTask.pc = "none" /\ NoOp.pc = "none" /\ NoRow.base = None
  BY DEF NoRow, NoTask, NoOp, Row, Task, Action, Refreshing

\* Rows stay true as requests are accepted, time passes and the cloud moves on.
LEMMA RowsLater ==
  ASSUME NEW rows \in Rows,
         NEW acc \in [Requests -> Nat], NEW acc2 \in [Requests -> Nat],
         \A r \in Requests : acc[r] <= acc2[r],
         NEW n \in Int, NEW n2 \in Int, n <= n2,
         NEW v \in Int, NEW v2 \in Int, v <= v2,
         RowsIn(rows, acc, n, v)
  PROVE  RowsIn(rows, acc2, n2, v2)
  <1>1. ASSUME NEW t \in Thermostats PROVE RowIn(rows[t], acc2, n2, v2)
    <2>1. rows[t] \in Row /\ RowIn(rows[t], acc, n, v)
      BY DEF Rows, RowsIn
    <2>2. rows[t].req # None => acc2[rows[t].req] > 0
      BY <2>1 DEF Row, RowIn
    <2>3. rows[t].at # None => rows[t].at <= n2
      BY <2>1, BoundsAssumption DEF Row, RowIn, Moment
    <2>4. rows[t].base # None => rows[t].base.at = rows[t].at /\ rows[t].base.src <= v2
      BY <2>1, BoundsAssumption DEF Row, RowIn, Baseline, Version
    <2> QED BY <2>2, <2>3, <2>4 DEF RowIn
  <1> QED BY <1>1 DEF RowsIn

\* So do the options a date edit would restore.
LEMMA EditLater ==
  ASSUME NEW a, NEW b, b.req = a.req, b.old = a.old, b.new = a.new,
         NEW acc \in [Requests -> Nat], NEW acc2 \in [Requests -> Nat],
         \A r \in Requests : acc[r] <= acc2[r],
         NEW n \in Int, NEW n2 \in Int, n <= n2,
         NEW v \in Int, NEW v2 \in Int, v <= v2,
         EditIn(a, acc, n, v)
  PROVE  EditIn(b, acc2, n2, v2)
  <1>1. a.old.saved \in Rows
    BY DEF EditIn, Saved
  <1>2. RowsIn(a.old.saved, acc2, n2, v2)
    BY <1>1, RowsLater DEF EditIn
  <1>3. acc2[a.req] > 0
    BY DEF EditIn
  <1> QED BY <1>2, <1>3 DEF EditIn

\* A request queues one refresh, behind those that wait already.
LEMMA Requested ==
  ASSUME TypeOK, NEW o \in Owners, Request(o)
  PROVE  /\ task' \in [Owners -> Task] /\ queue' \in Seq(Owners)
         /\ task[o].pc = "none" /\ task'[o].pc = "queued"
         /\ \A p \in Owners : p # o => task'[p] = task[p]
         /\ queue' # <<>>
         /\ queue # <<>> => Head(queue') = Head(queue)
         /\ queue = <<>> => queue' = <<o>>
  <1>1. task'[o] = [NoTask EXCEPT !.pc = "queued"] /\ task[o].pc = "none"
    BY Blank DEF Request, TypeOK
  <1>2. [NoTask EXCEPT !.pc = "queued"] \in Task
    BY DEF NoTask, Task
  <1>3. /\ task' \in [Owners -> Task]
        /\ \A p \in Owners : p # o => task'[p] = task[p]
    BY <1>1, <1>2 DEF Request, TypeOK
  <1>4. queue \in Seq(Owners) /\ queue' = Append(queue, o)
    BY DEF Request, TypeOK
  <1>5. /\ queue' \in Seq(Owners) /\ queue' # <<>>
    BY <1>4
  <1>6. queue = <<>> => queue' = <<o>>
    BY <1>4
  <1>7. queue # <<>> => Head(queue') = Head(queue)
    BY <1>4, HeadTailProperties, AppendProperties
  <1> QED BY <1>1, <1>3, <1>5, <1>6, <1>7 DEF NoTask

\* The facts every step starts from.
LEMMA InvFacts ==
  ASSUME Inv
  PROVE  /\ TypeOK /\ LockHeld /\ FirstRefreshAlone /\ RowsIn(saved, accepted, now, source)
         /\ ActionsOK /\ SnapshotOK /\ DaysOK /\ AskedOK /\ HeldOK /\ ReadOK
  BY DEF Inv, Core

\* The clock and the cloud's version are numbers.
LEMMA Numbers ==
  ASSUME TypeOK
  PROVE  /\ now \in Int /\ source \in Int /\ now <= now /\ source <= source
         /\ accepted \in [Requests -> Nat]
         /\ faults \in Nat
  BY BoundsAssumption DEF TypeOK, Moment, Version

(***************************************************************************)
(* The refresh under way ends, or goes on to its next day.                 *)
(***************************************************************************)
\* The holder of the lock publishes what it read and leaves.
LEMMA FinishStep ==
  ASSUME Inv, NEW o \in Owners, NEW src \in Version, NEW rows, NEW pend \in BOOLEAN,
         queue # <<>>, Head(queue) = o, task[o].pc \in Refreshing,
         src <= source, data # NoData => data.src <= src,
         Finish(o, src, rows, pend),
         saved' \in Rows, RowsIn(saved', accepted, now, source),
         UNCHANGED <<policy, account, open, reload, content, source, now, zone, accepted>>,
         faults' \in Nat, faults <= faults'
  PROVE  Core'
  <1> USE InvFacts
  <1>1. \A p \in Owners : p # o => task[p].pc \notin Refreshing
    BY DEF LockHeld
  <1>2. /\ task' \in [Owners -> Task] /\ task'[o] = NoTask
        /\ \A p \in Owners : p # o => task'[p] = task[p]
        /\ queue' = Tail(queue) /\ queue' \in Seq(Owners)
    BY Blank DEF Finish, TypeOK
  <1>3. /\ op' \in [Slots -> Action]
        /\ \A s \in Slots : op'[s] = IF s = o THEN NoOp ELSE op[s]
    BY Blank DEF Finish, TypeOK
  <1>4. /\ data' \in [src : Version, at : Moment] /\ data'.src = src /\ data'.at = now
        /\ data' # NoData /\ proj' = now + 1 /\ open
    <2>1. data' = [src |-> src, at |-> now] /\ proj' = data'.at + 1
      BY DEF Finish, Publish, Build
    <2>2. now \in Moment /\ open
      BY DEF TypeOK, LockHeld
    <2>3. NoData \notin [src : Version, at : Moment]
      BY BoundsAssumption DEF NoData, Moment
    <2> HIDE DEF NoData
    <2> QED BY <2>1, <2>2, <2>3
  <1>5. retry' \in BOOLEAN
    BY DEF Finish, ScheduleRetry, TypeOK
  <1>6. TypeOK'
    BY <1>2, <1>3, <1>4, <1>5 DEF TypeOK
  <1>7. \A p \in Owners : task'[p].pc \notin Refreshing
    BY <1>1, <1>2, Blank DEF Refreshing
  <1>8. LockHeld'
    BY <1>2, <1>4, <1>7, Blank DEF LockHeld, Owners, TypeOK
  <1>9. FirstRefreshAlone' /\ SnapshotOK' /\ DaysOK' /\ AskedOK'
    <2>1. FirstRefreshAlone' /\ DaysOK'
      BY <1>4, <1>7 DEF FirstRefreshAlone, DaysOK, Refreshing
    <2>2. SnapshotOK'
      BY <1>4, Numbers DEF SnapshotOK
    <2> QED BY <2>1, <2>2 DEF AskedOK
  <1>10. ActionsOK'
    BY <1>2, <1>3, <1>4, Blank DEF ActionsOK, Editing, Owners
  <1> QED BY <1>6, <1>8, <1>9, <1>10 DEF Core

\* The holder of the lock is done with one of the days it planned to read.
LEMMA ContinueStep ==
  ASSUME Inv, NEW o \in Owners, NEW t \in Thermostats, NEW pend \in BOOLEAN,
         task[o].pc = "day",
         task' = [task EXCEPT ![o].left = @ \ {t}, ![o].pend = pend],
         UNCHANGED <<data, proj, retry, queue, op>>,
         saved' \in Rows, RowsIn(saved', accepted, now, source),
         \A u \in Thermostats : u # t => saved'[u] = saved[u],
         UNCHANGED <<policy, account, open, reload, content, source, now, zone, accepted>>,
         faults' \in Nat, faults <= faults'
  PROVE  Core'
  <1> USE InvFacts
  <1>1. /\ task'[o] = [task[o] EXCEPT !.left = @ \ {t}, !.pend = pend]
        /\ \A p \in Owners : p # o => task'[p] = task[p]
    BY DEF TypeOK
  <1>2. [task[o] EXCEPT !.left = @ \ {t}, !.pend = pend] \in Task
    BY DEF TypeOK, Task
  <1>3. /\ task' \in [Owners -> Task]
        /\ \A p \in Owners : task'[p].pc = task[p].pc /\ task'[p].plan = task[p].plan
                             /\ task'[p].src = task[p].src
        /\ \A p \in Owners : p = o => task'[p].left = task[p].left \ {t}
    BY <1>1, <1>2 DEF TypeOK, Task
  <1>4. TypeOK'
    BY <1>3 DEF TypeOK
  <1>5. LockHeld'
    <2>1. faults > 0 => faults' > 0
      BY DEF TypeOK
    <2>2. \A s \in Slots : s \in Owners
      BY DEF Owners
    <2>3. open' = open /\ retry' = retry /\ queue' = queue
      OBVIOUS
    <2> QED BY <1>3, <2>1, <2>2, <2>3 DEF LockHeld
  <1>6. FirstRefreshAlone' /\ SnapshotOK' /\ AskedOK'
    BY DEF FirstRefreshAlone, SnapshotOK, AskedOK
  <1>7. ActionsOK'
    BY <1>3 DEF ActionsOK, Editing, Owners
  <1>8. \A p \in Owners : task[p].pc = "day" => p = o
    BY DEF LockHeld, Refreshing
  <1>9. DaysOK'
    <2>1. \A u \in task'[o].left : u \in task[o].left /\ u \in Thermostats /\ u # t
      BY <1>3 DEF TypeOK, Task
    <2> QED BY <1>3, <1>8, <2>1 DEF DaysOK
  <1> QED BY <1>4, <1>5, <1>7, <1>9, <1>6 DEF Core

\* A day that was read, or given up, ends the refresh or not.
LEMMA DayEndsStep ==
  ASSUME Inv, NEW o \in Owners, NEW t \in Thermostats, NEW pend \in BOOLEAN, NEW rows,
         Holds(o, "day"), t \in task[o].left, DayEnds(o, t, rows, pend),
         saved' \in Rows, RowsIn(saved', accepted, now, source),
         \A u \in Thermostats : u # t => saved'[u] = saved[u],
         UNCHANGED <<policy, account, open, reload, content, source, now, zone, accepted>>,
         faults' \in Nat, faults <= faults'
  PROVE  Core'
  <1> USE InvFacts
  <1>1. /\ queue # <<>> /\ Head(queue) = o /\ task[o].pc = "day"
        /\ task[o].src \in Version /\ task[o].src <= source
        /\ data # NoData => data.src <= task[o].src
    BY DEF Holds, DaysOK
  <1>2. (task[o].pend \/ pend) \in BOOLEAN /\ task[o].pc \in Refreshing
    BY <1>1 DEF Refreshing
  <1>3. CASE task[o].left = {t}
    <2>1. Finish(o, task[o].src, rows, task[o].pend \/ pend)
      BY <1>3 DEF DayEnds
    <2> QED BY <1>1, <1>2, <2>1, FinishStep
  <1>4. CASE task[o].left # {t}
    <2>1. /\ task' = [task EXCEPT ![o].left = @ \ {t}, ![o].pend = task[o].pend \/ pend]
          /\ UNCHANGED <<data, proj, retry, queue, op>>
      BY <1>4 DEF DayEnds
    <2> QED BY <1>1, <1>2, <2>1, ContinueStep
  <1> QED BY <1>3, <1>4

(***************************************************************************)
(* One lemma per action                                                    *)
(***************************************************************************)
\* The lock is acquired: the boundaries saved by now are planned.
LEMMA ReadRowsStep == ASSUME Inv, NEW o \in Owners, ReadRows(o) PROVE Core'
  <1> USE InvFacts
  <1> DEFINE plan == [t \in Thermostats |-> IF account = "first" THEN saved[t].at ELSE None]
  <1>1. /\ queue # <<>> /\ Head(queue) = o /\ task[o].pc = "queued"
        /\ \A s \in Slots : task[s].pc # "failed"
        /\ UNCHANGED <<entryVars, coordVars, queue, op, content, flow, worldVars, accepted>>
    BY DEF ReadRows, Holds
  <1>2. plan \in Plan
    BY DEF Plan, TypeOK, Rows, Row
  <1>3. /\ task'[o] = [task[o] EXCEPT !.pc = "summary", !.plan = plan]
        /\ \A p \in Owners : p # o => task'[p] = task[p]
    BY DEF ReadRows, TypeOK
  <1> HIDE DEF plan
  <1>4. [task[o] EXCEPT !.pc = "summary", !.plan = plan] \in Task
    BY <1>2 DEF TypeOK, Task, Refreshing
  <1>5. /\ task' \in [Owners -> Task] /\ task'[o].pc = "summary" /\ task'[o].plan = plan
    <2>1. task'[o].pc = "summary" /\ task'[o].plan = plan
      BY <1>3 DEF TypeOK, Task
    <2>2. task' = [p \in Owners |-> task'[p]]
      BY DEF ReadRows, TypeOK
    <2> QED BY <1>3, <1>4, <2>1, <2>2 DEF TypeOK
  <1>6. TypeOK'
    BY <1>1, <1>5 DEF TypeOK, entryVars, coordVars, worldVars
  <1>7. LockHeld'
    <2>1. \A s \in Slots : task'[s].pc # "failed"
      BY <1>1, <1>3, <1>5 DEF Owners
    <2>2. \A p \in Owners : task'[p].pc \in Refreshing => p = o
      BY <1>1, <1>3 DEF LockHeld
    <2>3. open' = open /\ retry' = retry /\ queue' = queue
      BY <1>1 DEF entryVars, coordVars
    <2> QED BY <1>1, <2>1, <2>2, <2>3 DEF LockHeld
  <1>8. FirstRefreshAlone' /\ SnapshotOK' /\ AskedOK'
    BY <1>1 DEF FirstRefreshAlone, SnapshotOK, AskedOK, entryVars, coordVars, worldVars
  <1>9. ActionsOK'
    BY <1>1, <1>3 DEF ActionsOK, Editing, Owners, entryVars, coordVars, worldVars
  <1>10. DaysOK'
    <2>1. \A p \in Owners : task'[p].pc \in Refreshing => p = o
      BY <1>1, <1>3 DEF LockHeld
    <2>2. task'[o].plan \in Plan /\ task'[o].pc # "day"
      BY <1>2, <1>5
    <2> QED BY <2>1, <2>2 DEF DaysOK, Refreshing
  <1>11. RowsIn(saved', accepted', now', source')
    BY <1>1 DEF entryVars, worldVars
  <1> QED BY <1>6, <1>7, <1>8, <1>9, <1>10, <1>11 DEF Core

\* A cloud read fails: nothing is published, the holder leaves.
LEMMA RefreshFailsStep == ASSUME Inv, NEW o \in Owners, RefreshFails(o) PROVE Core'
  <1> USE InvFacts
  <1>1. /\ queue # <<>> /\ Head(queue) = o /\ queue' = Tail(queue)
        /\ \A s \in Slots : task[s].pc # "failed"
        /\ faults' = faults + 1 /\ open /\ open' = (data # NoData)
        /\ task[o].pc \in {"queued", "summary"}
        /\ UNCHANGED <<saved, policy, account, data, proj, op, content, flow, source, now,
                       zone, saves, accepted>>
    BY DEF RefreshFails, Holds, LockHeld
  <1>2. \A p \in Owners : p # o => task[p].pc \notin Refreshing
    BY <1>1 DEF LockHeld
  <1> DEFINE ended == IF o \in Slots THEN [NoTask EXCEPT !.pc = "failed"] ELSE NoTask
  <1>3. /\ ended \in Task /\ ended.pc \in {"none", "failed"}
        /\ o \notin Slots => ended.pc = "none"
    BY Blank DEF NoTask, Task
  <1>4. task' = [task EXCEPT ![o] = ended]
    BY DEF RefreshFails
  <1> HIDE DEF ended
  <1>5. /\ task' \in [Owners -> Task] /\ task'[o] = ended
        /\ \A p \in Owners : p # o => task'[p] = task[p]
    BY <1>3, <1>4 DEF TypeOK
  <1>6. /\ retry' \in BOOLEAN /\ open' \in BOOLEAN /\ reload' \in BOOLEAN
        /\ o # Timer => retry' = retry
    BY DEF RefreshFails, ScheduleRetry, TypeOK
  <1>7. TypeOK'
    BY <1>1, <1>5, <1>6, HeadTailProperties DEF TypeOK
  <1>8. \A p \in Owners : task'[p].pc \notin Refreshing
    <2>1. task'[o].pc \notin Refreshing
      BY <1>3, <1>5 DEF Refreshing
    <2> QED BY <1>2, <1>5, <2>1
  <1>9. data = NoData => queue = <<Importer>> /\ o = Importer /\ ~retry
    BY <1>1 DEF FirstRefreshAlone
  <1>10. data = NoData => queue' = <<>> /\ ~retry'
    <2>1. data = NoData => o # Timer
      BY <1>9 DEF Importer, Timer
    <2>2. queue = <<Importer>> => Tail(queue) = <<>>
      OBVIOUS
    <2>3. data = NoData => ~retry'
      BY <1>6, <1>9, <2>1
    <2> QED BY <1>1, <1>9, <2>2, <2>3
  <1>11. LockHeld'
    <2>1. faults' > 0
      BY <1>1, Numbers
    <2>2. queue' # <<>> \/ retry' => open'
      BY <1>1, <1>10
    <2> QED BY <1>8, <2>1, <2>2 DEF LockHeld
  <1>12. FirstRefreshAlone' /\ SnapshotOK' /\ AskedOK'
    BY <1>1, <1>10 DEF FirstRefreshAlone, SnapshotOK, AskedOK
  <1>13. ActionsOK'
    <2>1. ASSUME NEW s \in Slots, task'[s].pc # "none"
          PROVE  op[s].pc = "refresh"
      BY <1>1, <1>5, <2>1 DEF ActionsOK, Owners
    <2> QED BY <1>1, <2>1 DEF ActionsOK, Editing
  <1>14. DaysOK'
    BY <1>8 DEF DaysOK, Refreshing
  <1> QED BY <1>1, <1>7, <1>11, <1>12, <1>13, <1>14 DEF Core

\* The summary arrives: the refresh is over, or its days are to be read.
LEMMA ReadSummaryStep == ASSUME Inv, NEW o \in Owners, ReadSummary(o) PROVE Core'
  <1> USE InvFacts
  <1> DEFINE exact == {t \in Thermostats : task[o].plan[t] # None}
  <1>1. /\ queue # <<>> /\ Head(queue) = o /\ task[o].pc = "summary"
        /\ task[o].pc \in Refreshing /\ task[o].plan \in Plan
        /\ \A s \in Slots : task[s].pc # "failed"
        /\ UNCHANGED <<entryVars, content, flow, worldVars, accepted>>
        /\ data # NoData => data.src <= source
    BY DEF ReadSummary, Holds, Refreshing, DaysOK, SnapshotOK
  <1>2. CASE exact = {}
    <2>1. Finish(o, source, saved, FALSE)
      BY <1>2 DEF ReadSummary
    <2>2. /\ UNCHANGED <<policy, account, open, reload, content, source, now, zone, accepted>>
          /\ saved' = saved /\ faults' = faults
      BY <1>1 DEF entryVars, worldVars
    <2>3. source \in Version /\ source <= source /\ saved \in Rows
      BY Numbers DEF TypeOK
    <2>4. faults' \in Nat /\ faults <= faults'
      BY <2>2, Numbers
    <2> HIDE DEF exact
    <2> QED BY <1>1, <2>1, <2>2, <2>3, <2>4, FinishStep
  <1>3. CASE exact # {}
    <2>1. /\ task'[o] = [task[o] EXCEPT !.pc = "day", !.src = source, !.zone = zone,
                                        !.left = exact]
          /\ \A p \in Owners : p # o => task'[p] = task[p]
          /\ UNCHANGED <<data, proj, retry, queue, op>>
      BY <1>3 DEF ReadSummary, TypeOK
    <2>2. exact \in SUBSET Thermostats /\ \A t \in exact : task[o].plan[t] # None
      OBVIOUS
    <2> HIDE DEF exact
    <2>3. /\ task'[o] \in Task /\ task'[o].pc = "day" /\ task'[o].src = source
          /\ task'[o].left = exact /\ task'[o].plan = task[o].plan
      <3>1. task[o] \in Task /\ source \in Version /\ zone \in Zones
        BY DEF TypeOK
      <3> QED BY <2>1, <2>2, <3>1 DEF Task, Refreshing
    <2>4. task' \in [Owners -> Task]
      <3>1. task' = [p \in Owners |-> task'[p]]
        BY <1>3 DEF ReadSummary, TypeOK, exact
      <3> QED BY <2>1, <2>3, <3>1 DEF TypeOK
    <2>5. TypeOK'
      BY <1>1, <2>1, <2>4 DEF TypeOK, entryVars, worldVars
    <2>6. LockHeld'
      <3>1. \A s \in Slots : task'[s].pc # "failed"
        <4>1. \A s \in Slots : s \in Owners
          BY DEF Owners
        <4>2. task'[o].pc # "failed"
          BY <2>3
        <4> QED BY <1>1, <2>1, <4>1, <4>2
      <3>2. \A p \in Owners : task'[p].pc \in Refreshing => p = o
        BY <1>1, <2>1 DEF LockHeld
      <3>3. open' = open /\ retry' = retry /\ queue' = queue
        BY <1>1, <2>1 DEF entryVars
      <3> QED BY <1>1, <3>1, <3>2, <3>3 DEF LockHeld
    <2>7. FirstRefreshAlone' /\ SnapshotOK' /\ AskedOK'
      BY <1>1, <2>1 DEF FirstRefreshAlone, SnapshotOK, AskedOK, entryVars, worldVars
    <2>8. ActionsOK'
      BY <1>1, <2>1, <2>3 DEF ActionsOK, Editing, Owners, entryVars, worldVars
    <2>9. \A t \in Thermostats : saved[t].base # None => saved[t].base.src <= source
      BY DEF RowsIn, RowIn
    <2>10. \A p \in Owners : task'[p].pc \in Refreshing => p = o
      BY <1>1, <2>1 DEF LockHeld
    <2>11. DaysOK'
      <3>1. /\ source' = source /\ saved' = saved /\ data' = data
            /\ source \in Version /\ source <= source
        BY <1>1, <2>1, Numbers DEF entryVars, worldVars, TypeOK
      <3> QED BY <1>1, <2>2, <2>3, <2>9, <2>10, <3>1 DEF DaysOK, Refreshing
    <2> QED BY <1>1, <2>5, <2>6, <2>7, <2>8, <2>11 DEF Core, entryVars, worldVars
  <1> QED BY <1>2, <1>3

\* A day could not be read: the options stay as they are.
LEMMA DayUnreadStep ==
  ASSUME Inv, NEW o \in Owners, NEW t \in Thermostats, DayUnread(o, t)
  PROVE  Core'
  <1>1. /\ Holds(o, "day") /\ t \in task[o].left /\ DayEnds(o, t, saved, TRUE)
        /\ UNCHANGED <<saved, policy, account, open, reload, content, source, now, zone,
                       accepted>>
        /\ faults' = faults \/ faults' = faults + 1
    BY DEF DayUnread, entryVars
  <1>2. /\ faults' \in Nat /\ faults <= faults' /\ saved' \in Rows
        /\ RowsIn(saved', accepted, now, source)
    BY <1>1, InvFacts, Numbers DEF TypeOK
  <1> QED BY <1>1, <1>2, DayEndsStep

\* The versions of a day that a refresh may meet the options with.
Usable(o, t) == (task[o].src..source) \cup Held(o, t)

\* A refresh measures the points of a version seen: those held for the saved
\* boundary, or as new as its summary.
LEMMA UsableSeen ==
  ASSUME Inv, NEW o \in Owners, NEW t \in Thermostats,
         task[o].pc = "day", t \in task[o].left, NEW rows \in Usable(o, t)
  PROVE  /\ rows \in Version /\ rows <= source
         /\ \/ task[o].src <= rows
            \/ /\ cache[t] # NoDay /\ rows = cache[t].rows
               /\ cache[t].key.at = task[o].plan[t]
               /\ cache[t].key.print = Fingerprint[task[o].src]
         /\ \E shown \in 0..rows : Fingerprint[shown] = Fingerprint[task[o].src]
         /\ \A row \in Standing(t) :
              row.base # None /\ row.at = task[o].plan[t] => row.base.src <= rows
  <1> USE InvFacts
  <1>1. /\ task[o].src \in Version /\ source \in Version
        /\ MaxSource \in Int /\ Version = 0..MaxSource
    BY BoundsAssumption DEF DaysOK, TypeOK, Version
  <1>2. \A row \in Standing(t) : row.base # None => row.base.src \in Int
    <2>1. saved[t] \in Row
      BY DEF TypeOK, Rows
    <2>2. ASSUME NEW s \in Slots, Editing(s) PROVE op[s].old.saved[t] \in Row
      BY <2>2 DEF ActionsOK, EditIn, Saved, Rows
    <2> QED BY <2>1, <2>2 DEF Standing, Row, Baseline, Version
  <1>3. CASE rows \in task[o].src..source
    <2>1. rows \in Version /\ rows <= source /\ task[o].src <= rows
      BY <1>1, <1>3
    <2>2. task[o].src \in 0..rows
      BY <1>1, <2>1
    <2>3. \A row \in Standing(t) : row.base # None => row.base.src <= task[o].src
      BY DEF ReadOK
    <2> QED BY <1>1, <1>2, <2>1, <2>2, <2>3
  <1>4. CASE rows \in Held(o, t)
    <2>1. cache[t] # NoDay /\ cache[t].key = Key(o, t) /\ rows = cache[t].rows
      BY <1>4 DEF Held
    <2>2. /\ cache[t].key.at = task[o].plan[t]
          /\ cache[t].key.print = Fingerprint[task[o].src]
      BY <2>1 DEF Key
    <2>3. cache[t] \in Day
      BY <2>1 DEF HeldOK
    <2> QED BY <2>1, <2>2, <2>3 DEF HeldOK, Day
  <1> QED BY <1>3, <1>4 DEF Usable

\* What the read of a day does with what is held and saved.
LEMMA DayMet ==
  ASSUME NEW o \in Owners, NEW t \in Thermostats, DayRead(o, t)
  PROVE  \E rows \in Usable(o, t) :
           \/ /\ saved[t].at # task[o].plan[t] /\ UNCHANGED saved
              /\ DayEnds(o, t, saved, saved[t].at # None)
              /\ \E left \in {cache[t], NoDay} : cache' = [cache EXCEPT ![t] = left]
           \/ /\ saved[t].at = task[o].plan[t]
              /\ saved' = [saved EXCEPT ![t] = Reconciled(@, Assess(task[o].plan[t], rows))]
              /\ DayEnds(o, t, saved', Assess(task[o].plan[t], rows) = None)
              /\ cache' = [cache EXCEPT ![t] = [key |-> Key(o, t), rows |-> rows]]
  <1>1. PICK rows \in Usable(o, t), left \in {cache[t], NoDay} :
          Meet(o, t, [key |-> Key(o, t), rows |-> rows], left)
    BY DEF DayRead, Usable
  <1> QED BY <1>1 DEF Meet

\* A measured baseline is one of the saved boundary.
LEMMA Measured ==
  ASSUME Inv, NEW o \in Owners, NEW t \in Thermostats,
         task[o].pc = "day", t \in task[o].left, saved[t].at = task[o].plan[t],
         NEW rows \in Usable(o, t),
         saved' = [saved EXCEPT ![t] = Reconciled(@, Assess(task[o].plan[t], rows))]
  PROVE  /\ saved' \in Rows /\ RowsIn(saved', accepted, now, source)
         /\ \A u \in Thermostats : u # t => saved'[u] = saved[u]
         /\ saved'[t].at = saved[t].at /\ saved'[t].req = saved[t].req
         /\ saved'[t].base = Assess(task[o].plan[t], rows)
         /\ saved'[t].base # None => saved'[t].base = [at |-> saved[t].at, src |-> rows]
  <1> USE InvFacts
  <1> DEFINE base == Assess(task[o].plan[t], rows)
             row  == [saved[t] EXCEPT !.base = base]
  <1>1. /\ task[o].plan \in Plan /\ task[o].plan[t] \in Moment
        /\ saved[t] \in Row /\ RowIn(saved[t], accepted, now, source)
    BY DEF DaysOK, Refreshing, Plan, TypeOK, Rows, RowsIn
  <1>2. rows \in Version /\ rows <= source
    BY UsableSeen
  <1>3. /\ base \in Baseline \cup {None}
        /\ base # None => base.at = saved[t].at /\ base.src <= source
        /\ base # None => base = [at |-> saved[t].at, src |-> rows]
    BY <1>1, <1>2 DEF Assess, Baseline
  <1> HIDE DEF base
  <1>4. row \in Row /\ row.at = saved[t].at /\ row.req = saved[t].req /\ row.base = base
    BY <1>1, <1>3 DEF Row
  <1>5. RowIn(row, accepted, now, source)
    BY <1>1, <1>3, <1>4 DEF RowIn
  <1>6. saved'[t] = row /\ \A u \in Thermostats : u # t => saved'[u] = saved[u]
    BY DEF Reconciled, TypeOK, Rows, base
  <1> HIDE DEF row
  <1>7. saved' \in Rows
    <2>1. saved' = [u \in Thermostats |-> saved'[u]]
      BY DEF TypeOK, Rows
    <2> QED BY <1>4, <1>6, <2>1 DEF TypeOK, Rows
  <1>8. RowsIn(saved', accepted, now, source)
    BY <1>5, <1>6 DEF RowsIn
  <1> QED BY <1>3, <1>4, <1>6, <1>7, <1>8 DEF base

\* The rows of a day meet the options of the moment.
LEMMA DayReadStep ==
  ASSUME Inv, NEW o \in Owners, NEW t \in Thermostats, DayRead(o, t)
  PROVE  Core'
  <1> USE InvFacts
  <1> DEFINE at == task[o].plan[t]
  <1>1. /\ Holds(o, "day") /\ t \in task[o].left /\ task[o].pc = "day"
        /\ UNCHANGED <<policy, account, open, reload, content, source, now, zone, accepted,
                       faults>>
        /\ faults' \in Nat /\ faults <= faults'
    BY DEF DayRead, Holds, worldVars, TypeOK
  <1>2. PICK rows \in Usable(o, t) :
          \/ saved[t].at # at /\ UNCHANGED saved /\ DayEnds(o, t, saved, saved[t].at # None)
          \/ /\ saved[t].at = at
             /\ saved' = [saved EXCEPT ![t] = Reconciled(@, Assess(at, rows))]
             /\ DayEnds(o, t, saved', Assess(at, rows) = None)
    BY DayMet
  <1>3. CASE saved[t].at # at
    <2>1. DayEnds(o, t, saved, saved[t].at # None) /\ saved' = saved
      BY <1>2, <1>3
    <2> QED BY <1>1, <2>1, DayEndsStep DEF TypeOK
  <1>4. CASE saved[t].at = at
    <2>1. /\ saved' = [saved EXCEPT ![t] = Reconciled(@, Assess(at, rows))]
          /\ DayEnds(o, t, saved', Assess(at, rows) = None)
      BY <1>2, <1>4
    <2>2. /\ saved' \in Rows /\ RowsIn(saved', accepted, now, source)
          /\ \A u \in Thermostats : u # t => saved'[u] = saved[u]
      BY <1>1, <1>4, <2>1, Measured
    <2> QED BY <1>1, <2>1, <2>2, DayEndsStep
  <1> QED BY <1>3, <1>4

(***************************************************************************)
(* What the other actions have in common                                   *)
(***************************************************************************)
\* Days under way are not affected by what others do to snapshots and rows.
LEMMA DaysLater ==
  ASSUME Inv, \A p \in Owners : task'[p].pc \in Refreshing => task'[p] = task[p],
         source' \in Int, source <= source',
         data' # NoData => data # NoData /\ data'.src = data.src,
         \A t \in Thermostats : saved'[t].base # None => saved'[t].base = saved[t].base
  PROVE  DaysOK'
  <1> USE InvFacts
  <1> SUFFICES ASSUME NEW p \in Owners, task'[p].pc \in Refreshing
               PROVE  /\ task'[p].plan \in Plan
                      /\ task'[p].pc = "day" =>
                           /\ task'[p].src \in Version /\ task'[p].src <= source'
                           /\ data' # NoData => data'.src <= task'[p].src
                           /\ \A t \in task'[p].left :
                                /\ task'[p].plan[t] # None
                                /\ saved'[t].base # None =>
                                     saved'[t].base.src <= task'[p].src
    BY DEF DaysOK, Refreshing
  <1>1. task'[p] = task[p]
    OBVIOUS
  <1>2. /\ task[p].plan \in Plan
        /\ task[p].pc = "day" =>
             /\ task[p].src \in Version /\ task[p].src <= source
             /\ data # NoData => data.src <= task[p].src
             /\ \A t \in task[p].left :
                  /\ task[p].plan[t] # None
                  /\ saved[t].base # None => saved[t].base.src <= task[p].src
    BY <1>1 DEF DaysOK
  <1>3. task[p].left \subseteq Thermostats
    BY DEF TypeOK, Task
  <1>4. task[p].src \in Version /\ task[p].src <= source => task[p].src <= source'
    BY Numbers DEF Version
  <1> QED BY <1>1, <1>2, <1>3, <1>4

\* So are the edits under way.
LEMMA EditsLater ==
  ASSUME Inv,
         \A s \in Slots : Editing(s)' =>
            /\ Editing(s) /\ op'[s].req = op[s].req
            /\ op'[s].old = op[s].old /\ op'[s].new = op[s].new,
         accepted' \in [Requests -> Nat], \A r \in Requests : accepted[r] <= accepted'[r],
         now' \in Int, now <= now', source' \in Int, source <= source'
  PROVE  \A s \in Slots : Editing(s)' => EditIn(op'[s], accepted', now', source')
  <1>1. ASSUME NEW s \in Slots, Editing(s)'
        PROVE  EditIn(op'[s], accepted', now', source')
    <2>1. EditIn(op[s], accepted, now, source)
      BY <1>1, InvFacts DEF ActionsOK
    <2>2. op'[s].req = op[s].req /\ op'[s].old = op[s].old /\ op'[s].new = op[s].new
      BY <1>1
    <2> QED BY <2>1, <2>2, EditLater, InvFacts, Numbers
  <1> QED BY <1>1

\* The lock stays with its holder while others ask for it.
LEMMA LockLater ==
  ASSUME Inv, NEW o \in Owners, Request(o), open', faults' = faults
  PROVE  LockHeld'
  <1> USE InvFacts
  <1>1. /\ task'[o].pc = "queued"
        /\ \A p \in Owners : p # o => task'[p] = task[p]
        /\ queue' # <<>>
        /\ queue # <<>> => Head(queue') = Head(queue)
    BY Requested
  <1>2. \A p \in Owners : task'[p].pc \in Refreshing => p # o /\ task[p].pc \in Refreshing
    BY <1>1 DEF Refreshing
  <1>3. \A s \in Slots : s \in Owners
    BY DEF Owners
  <1>4. \A s \in Slots : task'[s].pc = "failed" => task[s].pc = "failed"
    BY <1>1, <1>3
  <1> QED BY <1>1, <1>2, <1>3, <1>4 DEF LockHeld

\* A projection from cached rows leaves the snapshot as new as it was.
LEMMA Reprojected ==
  ASSUME Inv, data # NoData, open, now' = now, source' = source,
         \/ data' = data /\ proj' = proj
         \/ data' \in {data, Build(data.src)} /\ proj' = now + 1
  PROVE  /\ data' \in [src : Version, at : Moment] /\ data' # NoData
         /\ data'.src = data.src /\ data'.at >= data.at /\ SnapshotOK'
  <1> USE InvFacts
  <1>1. /\ data \in [src : Version, at : Moment] /\ now \in Moment
        /\ data.at <= now /\ data.src <= source /\ proj \in Int /\ proj > data.at
    BY DEF TypeOK, SnapshotOK
  <1>2. Build(data.src) \in [src : Version, at : Moment]
        /\ Build(data.src).src = data.src /\ Build(data.src).at = now
    BY <1>1 DEF Build
  <1>3. NoData \notin [src : Version, at : Moment]
    BY BoundsAssumption DEF NoData, Moment
  <1>4. /\ data' \in [src : Version, at : Moment] /\ data'.src = data.src
        /\ data'.at >= data.at /\ data'.at <= now
        /\ proj' \in Int /\ proj' > data'.at
    BY <1>1, <1>2, BoundsAssumption DEF Moment
  <1> QED BY <1>1, <1>3, <1>4 DEF SnapshotOK

\* A written row is the new boundary, without the baseline of the old one.
LEMMA Written ==
  ASSUME Inv, NEW t \in Thermostats, NEW r \in Requests, NEW at \in Moment \cup {None},
         at # None => at <= now, Write(t, r, at), Accept(r)
  PROVE  /\ saved' \in Rows /\ accepted' \in [Requests -> Nat]
         /\ accepted'[r] = accepted[r] + 1
         /\ \A q \in Requests : /\ accepted[q] <= accepted'[q]
                                /\ q # r => accepted'[q] = accepted[q]
         /\ RowsIn(saved', accepted', now, source)
         /\ saved'[t] = [req |-> r, at |-> at, base |-> None]
         /\ \A u \in Thermostats : u # t => saved'[u] = saved[u]
         /\ \A u \in Thermostats : saved'[u].base # None => saved'[u].base = saved[u].base
  <1> USE InvFacts
  <1> DEFINE row == [req |-> r, at |-> at, base |-> None]
  <1>1. row \in Row /\ row.base = None /\ row.at = at /\ row.req = r
    BY DEF Row
  <1> HIDE DEF row
  <1>2. /\ saved \in Rows /\ saved' = [saved EXCEPT ![t] = row]
        /\ accepted \in [Requests -> Nat] /\ accepted' = [accepted EXCEPT ![r] = @ + 1]
    BY DEF TypeOK, Write, Accept, row
  <1>3. /\ saved' \in Rows /\ saved'[t] = row
        /\ \A u \in Thermostats : u # t => saved'[u] = saved[u]
    BY <1>1, <1>2 DEF Rows
  <1>4. /\ accepted' \in [Requests -> Nat] /\ accepted'[r] = accepted[r] + 1
        /\ \A q \in Requests : /\ accepted[q] <= accepted'[q]
                               /\ q # r => accepted'[q] = accepted[q]
    BY <1>2
  <1>5. RowsIn(saved, accepted', now, source)
    <2>1. /\ now \in Int /\ now <= now /\ source \in Int /\ source <= source
          /\ RowsIn(saved, accepted, now, source)
      BY Numbers
    <2> QED BY <1>2, <1>4, <2>1, RowsLater
  <1>6. RowIn(row, accepted', now, source)
    BY <1>1, <1>2, <1>4 DEF RowIn
  <1>7. RowsIn(saved', accepted', now, source)
    BY <1>3, <1>5, <1>6 DEF RowsIn
  <1> QED BY <1>1, <1>3, <1>4, <1>7 DEF row

\* What clients asked for stays complete.
LEMMA AskedLater ==
  ASSUME Inv, content' = content, now' \in Int, now <= now',
         accepted' \in [Requests -> Nat], \A q \in Requests : accepted[q] <= accepted'[q],
         \A q \in Services : content[q] = None => accepted'[q] = accepted[q]
  PROVE  AskedOK'
  <1> USE InvFacts
  <1>1. ASSUME NEW q \in Services, content[q] # None
        PROVE  /\ content[q].at <= now'
               /\ content[q].prior.req # None => accepted'[content[q].prior.req] > 0
    <2>1. content[q] \in Asked
      BY <1>1 DEF TypeOK
    <2>2. content[q].at \in Int /\ content[q].prior.req \in Requests \cup {None}
      BY <2>1, BoundsAssumption DEF Asked, Prior, Moment
    <2>3. /\ content[q].at <= now
          /\ content[q].prior.req # None => accepted[content[q].prior.req] > 0
      BY <1>1 DEF AskedOK
    <2> QED BY <2>2, <2>3, Numbers
  <1>2. ASSUME NEW q \in Services, content[q] = None
        PROVE  accepted'[q] = 0
    BY <1>2 DEF AskedOK
  <1> QED BY <1>1, <1>2 DEF AskedOK

(***************************************************************************)
(* The filter actions                                                      *)
(***************************************************************************)
\* A date edit saves its row and queues its refresh.
LEMMA SetDateStep ==
  ASSUME Inv, NEW s \in Slots, NEW t \in Thermostats, NEW r \in Requests, SetDate(s, t, r)
  PROVE  Core'
  <1> USE InvFacts
  <1>1. /\ open /\ data # NoData /\ op[s] = NoOp /\ r \notin Services /\ accepted[r] = 0
        /\ Write(t, r, None) /\ Accept(r) /\ Request(s) /\ s \in Owners
        /\ policy' = policy /\ account' = account /\ open' = open /\ reload' = reload
        /\ data' = data /\ proj' = proj /\ retry' = retry /\ content' = content
        /\ source' = source /\ now' = now /\ zone' = zone /\ faults' = faults
    BY DEF SetDate, Loaded, Fresh, coordVars, worldVars, Owners
  <1>2. /\ saved' \in Rows /\ accepted' \in [Requests -> Nat]
        /\ accepted'[r] = accepted[r] + 1
        /\ \A q \in Requests : /\ accepted[q] <= accepted'[q]
                               /\ q # r => accepted'[q] = accepted[q]
        /\ RowsIn(saved', accepted', now, source)
        /\ \A u \in Thermostats : saved'[u].base # None => saved'[u].base = saved[u].base
    BY <1>1, Written
  <1>3. /\ task' \in [Owners -> Task] /\ queue' \in Seq(Owners)
        /\ task[s].pc = "none" /\ task'[s].pc = "queued"
        /\ \A p \in Owners : p # s => task'[p] = task[p]
    BY <1>1, Requested
  <1> DEFINE edit == [NoOp EXCEPT !.pc = "refresh", !.kind = "date", !.req = r,
                                  !.old = Options, !.new = [Options EXCEPT !.saved = saved']]
  <1>4. /\ edit.pc = "refresh" /\ edit.kind = "date" /\ edit.req = r /\ edit.closed = FALSE
        /\ edit.old = [saved |-> saved, policy |-> policy]
        /\ edit.new = [saved |-> saved', policy |-> policy]
        /\ edit.old \in Saved /\ edit.new \in Saved /\ edit \in Action
    BY <1>2 DEF NoOp, Options, Saved, Action, TypeOK
  <1>5. op' = [op EXCEPT ![s] = edit]
    BY DEF SetDate
  <1> HIDE DEF edit
  <1>6. /\ op' \in [Slots -> Action] /\ op'[s] = edit
        /\ \A u \in Slots : u # s => op'[u] = op[u]
    BY <1>4, <1>5 DEF TypeOK
  <1>7. TypeOK'
    BY <1>1, <1>2, <1>3, <1>6 DEF TypeOK
  <1>8. LockHeld'
    BY <1>1, LockLater
  <1>9. FirstRefreshAlone' /\ SnapshotOK'
    BY <1>1 DEF FirstRefreshAlone, SnapshotOK
  <1>10. RowsIn(saved', accepted', now', source')
    BY <1>1, <1>2
  <1>11. EditIn(edit, accepted', now', source')
    <2>1. now \in Int /\ now <= now /\ source \in Int /\ source <= source
      BY Numbers
    <2>2. RowsIn(saved, accepted', now, source)
      BY <1>2, <2>1, RowsLater DEF TypeOK
    <2>3. saved[t].req # r
      <3>1. saved[t].req # None => accepted[saved[t].req] > 0
        BY DEF RowsIn, RowIn
      <3> QED BY <1>1, <3>1, BoundsAssumption
    <2>4. saved' = [saved EXCEPT ![t] = [req |-> r, at |-> None, base |-> None]]
      BY <1>1 DEF Write
    <2>5. edit.req \in Requests /\ accepted'[edit.req] > 0
      BY <1>1, <1>2, <1>4, Numbers
    <2>6. edit.old.saved = saved /\ edit.new.saved = saved'
      BY <1>4
    <2> QED BY <1>1, <1>4, <2>2, <2>3, <2>4, <2>5, <2>6 DEF EditIn
  <1>12. ActionsOK'
    <2>1. ASSUME NEW u \in Slots, u # s
          PROVE  /\ task'[u].pc # "none" => op'[u].pc = "refresh"
                 /\ op'[u].pc = "dismiss" => ~op'[u].closed
                 /\ op'[u].pc # "none" /\ ~op'[u].closed => open' /\ data' # NoData
                 /\ Editing(u)' => EditIn(op'[u], accepted', now', source')
      <3>1. op'[u] = op[u] /\ task'[u] = task[u]
        BY <1>3, <1>6, <2>1 DEF Owners
      <3>2. Editing(u) => EditIn(op'[u], accepted', now', source')
        BY <1>1, <1>2, <3>1, EditLater, Numbers DEF ActionsOK
      <3> QED BY <1>1, <3>1, <3>2 DEF ActionsOK, Editing
    <2>2. /\ task'[s].pc # "none" => op'[s].pc = "refresh"
          /\ op'[s].pc = "dismiss" => ~op'[s].closed
          /\ op'[s].pc # "none" /\ ~op'[s].closed => open' /\ data' # NoData
          /\ Editing(s)' => EditIn(op'[s], accepted', now', source')
      BY <1>1, <1>4, <1>6, <1>11
    <2> QED BY <2>1, <2>2 DEF ActionsOK
  <1>13. DaysOK'
    <2>1. \A p \in Owners : task'[p].pc \in Refreshing => task'[p] = task[p]
      BY <1>3 DEF Refreshing
    <2> QED BY <1>1, <1>2, <2>1, DaysLater, Numbers
  <1>14. AskedOK'
    <2>1. \A q \in Services : content[q] = None => accepted'[q] = accepted[q]
      BY <1>1, <1>2, BoundsAssumption
    <2> QED BY <1>1, <1>2, <2>1, AskedLater, Numbers
  <1> QED BY <1>7, <1>8, <1>9, <1>10, <1>12, <1>13, <1>14 DEF Core

\* A recorded replacement saves its row, projects it, and dismisses or refreshes.
LEMMA MarkStep ==
  ASSUME Inv, NEW s \in Slots, NEW kind \in {"button", "repair", "service"},
         NEW t \in Thermostats, NEW r \in Requests, NEW at \in Moment, at <= now,
         Loaded, op[s] = NoOp, r \in Services => content[r] # None, Mark(s, kind, t, r, at)
  PROVE  Core'
  <1> USE InvFacts
  <1>1. /\ open /\ data # NoData
        /\ Write(t, r, at) /\ Accept(r) /\ s \in Owners
        /\ policy' = policy /\ account' = account /\ open' = open /\ reload' = reload
        /\ retry' = retry /\ content' = content
        /\ source' = source /\ now' = now /\ zone' = zone /\ faults' = faults
    BY DEF Mark, Loaded, worldVars, Owners
  <1>2. /\ saved' \in Rows /\ accepted' \in [Requests -> Nat]
        /\ \A q \in Requests : /\ accepted[q] <= accepted'[q]
                               /\ q # r => accepted'[q] = accepted[q]
        /\ RowsIn(saved', accepted', now, source)
        /\ \A u \in Thermostats : saved'[u].base # None => saved'[u].base = saved[u].base
    BY <1>1, Written
  <1>3. /\ data' \in [src : Version, at : Moment] /\ data' # NoData
        /\ data'.src = data.src /\ SnapshotOK'
    <2>1. \/ data' = data /\ proj' = proj
          \/ data' \in {data, Build(data.src)} /\ proj' = now + 1
      BY DEF Mark, Publish, Build
    <2> QED BY <1>1, <2>1, Reprojected
  <1> DEFINE pc == IF kind = "repair" THEN "refresh" ELSE "dismiss"
             act == [NoOp EXCEPT !.pc = pc, !.kind = kind, !.req = r]
  <1>4. /\ act.pc = pc /\ act.kind = kind /\ kind # "date" /\ act.closed = FALSE
        /\ act \in Action /\ pc \in {"refresh", "dismiss"}
    BY DEF NoOp, Action
  <1>5. op' = [op EXCEPT ![s] = act]
    BY DEF Mark, Begin
  <1>6. \/ pc = "refresh" /\ Request(s)
        \/ pc = "dismiss" /\ task' = task /\ queue' = queue
    BY DEF Mark
  <1> HIDE DEF act, pc
  <1>7. /\ op' \in [Slots -> Action] /\ op'[s] = act
        /\ \A u \in Slots : u # s => op'[u] = op[u]
    BY <1>4, <1>5 DEF TypeOK
  <1>8. task[s].pc = "none"
    BY Blank DEF ActionsOK
  <1>9. /\ task' \in [Owners -> Task] /\ queue' \in Seq(Owners) /\ LockHeld'
        /\ \A p \in Owners : p # s => task'[p] = task[p]
        /\ task'[s].pc \in {"none", "queued"}
        /\ task'[s].pc = "queued" => pc = "refresh"
    <2>1. CASE pc = "refresh" /\ Request(s)
      BY <1>1, <2>1, Requested, LockLater
    <2>2. CASE pc = "dismiss" /\ task' = task /\ queue' = queue
      <3>1. LockHeld'
        BY <1>1, <2>2 DEF LockHeld
      <3> QED BY <1>8, <2>2, <3>1 DEF TypeOK
    <2> QED BY <1>6, <2>1, <2>2
  <1>10. TypeOK'
    BY <1>1, <1>2, <1>3, <1>7, <1>9 DEF TypeOK
  <1>11. FirstRefreshAlone'
    BY <1>3 DEF FirstRefreshAlone
  <1>12. RowsIn(saved', accepted', now', source')
    BY <1>1, <1>2
  <1>13. ActionsOK'
    <2>1. ASSUME NEW u \in Slots, u # s
          PROVE  /\ task'[u].pc # "none" => op'[u].pc = "refresh"
                 /\ op'[u].pc = "dismiss" => ~op'[u].closed
                 /\ op'[u].pc # "none" /\ ~op'[u].closed => open' /\ data' # NoData
                 /\ Editing(u)' => EditIn(op'[u], accepted', now', source')
      <3>1. op'[u] = op[u] /\ task'[u] = task[u]
        BY <1>7, <1>9, <2>1 DEF Owners
      <3>2. Editing(u) => EditIn(op'[u], accepted', now', source')
        BY <1>1, <1>2, <3>1, EditLater, Numbers DEF ActionsOK
      <3> QED BY <1>1, <1>3, <3>1, <3>2 DEF ActionsOK, Editing
    <2>2. /\ task'[s].pc # "none" => op'[s].pc = "refresh"
          /\ op'[s].pc = "dismiss" => ~op'[s].closed
          /\ op'[s].pc # "none" /\ ~op'[s].closed => open' /\ data' # NoData
          /\ ~Editing(s)'
      BY <1>1, <1>3, <1>4, <1>7, <1>9 DEF Editing
    <2> QED BY <2>1, <2>2 DEF ActionsOK
  <1>14. DaysOK'
    <2>1. \A p \in Owners : task'[p].pc \in Refreshing => task'[p] = task[p]
      BY <1>9 DEF Refreshing
    <2> QED BY <1>1, <1>2, <1>3, <2>1, DaysLater, Numbers
  <1>15. AskedOK'
    <2>1. \A q \in Services : content[q] = None => accepted'[q] = accepted[q]
      BY <1>1, <1>2, BoundsAssumption
    <2> QED BY <1>1, <1>2, <2>1, AskedLater, Numbers
  <1> QED BY <1>3, <1>9, <1>10, <1>11, <1>12, <1>13, <1>14, <1>15 DEF Core

LEMMA PressButtonStep ==
  ASSUME Inv, NEW s \in Slots, NEW t \in Thermostats, NEW r \in Requests,
         PressButton(s, t, r)
  PROVE  Core'
  <1>1. now \in Moment /\ now <= now
    BY InvFacts, Numbers DEF TypeOK
  <1> QED BY <1>1, MarkStep DEF PressButton, Fresh

LEMMA RepairStep ==
  ASSUME Inv, NEW s \in Slots, NEW t \in Thermostats, NEW r \in Requests,
         NEW at \in 0..MaxNow, Repair(s, t, r, at)
  PROVE  Core'
  BY MarkStep DEF Repair, Fresh, Moment

LEMMA RecordStep ==
  ASSUME Inv, NEW s \in Slots, NEW r \in Services, Record(s, r)
  PROVE  Core'
  <1>1. content[r] \in Asked /\ content[r].at <= now
    BY InvFacts DEF Record, TypeOK, AskedOK
  <1>2. content[r].t \in Thermostats /\ content[r].at \in Moment /\ r \in Requests
    BY <1>1, BoundsAssumption DEF Asked
  <1>3. /\ Loaded /\ op[s] = NoOp /\ content[r] # None
        /\ Mark(s, "service", content[r].t, r, content[r].at)
    BY DEF Record
  <1> QED BY <1>1, <1>2, <1>3, MarkStep

\* A client captures the boundary it wants to replace.
LEMMA CaptureStep ==
  ASSUME Inv, NEW r \in Services, NEW t \in Thermostats, NEW at \in 0..MaxNow,
         Capture(r, t, at)
  PROVE  Core'
  <1> USE InvFacts
  <1> DEFINE ask == [t |-> t, at |-> at, prior |-> Boundary(saved[t])]
  <1>1. /\ at <= now
        /\ UNCHANGED <<saved, policy, account, open, reload, data, proj, retry, queue, task, op,
                       source, now, zone, faults, accepted>>
    BY DEF Capture, entryVars, coordVars, worldVars
  <1>2. saved[t] \in Row /\ (saved[t].req # None => accepted[saved[t].req] > 0)
    BY DEF TypeOK, Rows, RowsIn, RowIn
  <1>3. /\ ask \in Asked /\ ask.at <= now
        /\ ask.prior.req # None => accepted[ask.prior.req] > 0
    BY <1>1, <1>2 DEF Asked, Prior, Boundary, Row, Moment
  <1>4. content' = [content EXCEPT ![r] = ask]
    BY DEF Capture
  <1> HIDE DEF ask
  <1>5. /\ content' \in [Services -> Asked \cup {None}]
        /\ content'[r] = ask /\ \A q \in Services : q # r => content'[q] = content[q]
    BY <1>3, <1>4 DEF TypeOK
  <1>6. TypeOK'
    BY <1>1, <1>5 DEF TypeOK
  <1>7. \A q \in Services : content'[q] = None => content[q] = None
    <2>1. content[r] = None
      BY DEF Capture
    <2> QED BY <1>5, <2>1
  <1>8. AskedOK'
    BY <1>1, <1>3, <1>5, <1>7 DEF AskedOK
  <1> QED BY <1>1, <1>6, <1>8 DEF Core, LockHeld, FirstRefreshAlone, RowsIn, RowIn, ActionsOK,
             Editing, EditIn, SnapshotOK, DaysOK

\* The alerts are dismissed: the action queues its refresh.
LEMMA DismissedStep == ASSUME Inv, NEW s \in Slots, Dismissed(s) PROVE Core'
  <1> USE InvFacts
  <1>1. /\ op[s].pc = "dismiss" /\ Request(s) /\ s \in Owners
        /\ op' = [op EXCEPT ![s].pc = "refresh"]
        /\ UNCHANGED <<saved, policy, account, open, reload, data, proj, retry, content,
                       source, now, zone, faults, accepted>>
    BY DEF Dismissed, entryVars, coordVars, worldVars, Owners
  <1>2. open /\ data # NoData /\ ~op[s].closed
    BY <1>1 DEF ActionsOK
  <1>3. [op[s] EXCEPT !.pc = "refresh"] \in Action
    BY DEF TypeOK, Action
  <1>4. /\ op' \in [Slots -> Action] /\ op'[s] = [op[s] EXCEPT !.pc = "refresh"]
        /\ \A u \in Slots : u # s => op'[u] = op[u]
    BY <1>1, <1>3 DEF TypeOK
  <1>5. /\ op'[s].pc = "refresh" /\ op'[s].closed = op[s].closed /\ op'[s].kind = op[s].kind
        /\ op'[s].req = op[s].req /\ op'[s].old = op[s].old /\ op'[s].new = op[s].new
    BY <1>4 DEF TypeOK, Action
  <1>6. /\ task' \in [Owners -> Task] /\ queue' \in Seq(Owners) /\ LockHeld'
        /\ \A p \in Owners : p # s => task'[p] = task[p]
        /\ task'[s].pc = "queued"
    BY <1>1, <1>2, Requested, LockLater
  <1>7. TypeOK'
    BY <1>1, <1>4, <1>6 DEF TypeOK
  <1>8. FirstRefreshAlone' /\ SnapshotOK' /\ AskedOK' /\ RowsIn(saved', accepted', now', source')
    BY <1>1, <1>2 DEF FirstRefreshAlone, SnapshotOK, AskedOK
  <1>9. ActionsOK'
    <2>1. \A u \in Slots : Editing(u)' =>
            /\ Editing(u) /\ op'[u].req = op[u].req
            /\ op'[u].old = op[u].old /\ op'[u].new = op[u].new
      BY <1>1, <1>4, <1>5 DEF Editing
    <2>2. \A u \in Slots : Editing(u)' => EditIn(op'[u], accepted', now', source')
      BY <1>1, <2>1, EditsLater, Numbers
    <2>3. ASSUME NEW u \in Slots
          PROVE  /\ task'[u].pc # "none" => op'[u].pc = "refresh"
                 /\ op'[u].pc = "dismiss" => ~op'[u].closed
                 /\ op'[u].pc # "none" /\ ~op'[u].closed => open' /\ data' # NoData
      BY <1>1, <1>2, <1>4, <1>5, <1>6 DEF ActionsOK, Owners
    <2> QED BY <2>2, <2>3 DEF ActionsOK
  <1>10. DaysOK'
    <2>1. \A p \in Owners : task'[p].pc \in Refreshing => task'[p] = task[p]
      BY <1>6 DEF Refreshing
    <2> QED BY <1>1, <2>1, DaysLater, Numbers
  <1> QED BY <1>6, <1>7, <1>8, <1>9, <1>10 DEF Core

\* The outcome of a failed refresh: a date edit may take its options back.
LEMMA ActionFailsStep == ASSUME Inv, NEW s \in Slots, ActionFails(s) PROVE Core'
  <1> USE InvFacts
  <1>1. /\ task[s].pc = "failed" /\ s \in Owners /\ op[s].pc = "refresh"
        /\ op' = [op EXCEPT ![s] = NoOp] /\ task' = [task EXCEPT ![s] = NoTask]
        /\ UNCHANGED <<policy, account, open, reload, data, proj, queue, content,
                       source, now, zone, faults, accepted>>
    BY DEF ActionFails, ActionsOK, Owners, worldVars
  <1>2. \A p \in Owners : task[p].pc \notin Refreshing
    BY <1>1 DEF LockHeld
  <1>3. /\ op' \in [Slots -> Action] /\ op'[s] = NoOp
        /\ \A u \in Slots : u # s => op'[u] = op[u]
    BY <1>1, Blank DEF TypeOK
  <1>4. /\ task' \in [Owners -> Task] /\ task'[s] = NoTask
        /\ \A p \in Owners : p # s => task'[p] = task[p]
    BY <1>1, Blank DEF TypeOK
  <1>5. saved' \in Rows /\ RowsIn(saved', accepted, now, source)
    <2>1. CASE saved' = saved
      BY <2>1 DEF TypeOK
    <2>2. CASE op[s].kind = "date" /\ saved' = op[s].old.saved
      <3>1. EditIn(op[s], accepted, now, source)
        BY <1>1, <2>2 DEF ActionsOK, Editing
      <3> QED BY <2>2, <3>1 DEF EditIn, Saved
    <2> QED BY <2>1, <2>2 DEF ActionFails
  <1>6. /\ retry' \in BOOLEAN
        /\ retry' => retry \/ ~op[s].closed
    BY DEF ActionFails, ScheduleRetry, TypeOK
  <1>7. retry' => open /\ data # NoData
    BY <1>1, <1>6 DEF ActionsOK, LockHeld, FirstRefreshAlone
  <1>8. TypeOK'
    BY <1>1, <1>3, <1>4, <1>5, <1>6 DEF TypeOK
  <1>9. \A p \in Owners : task'[p].pc \notin Refreshing
    BY <1>2, <1>4, Blank DEF Refreshing
  <1>10. LockHeld'
    <2>1. \A u \in Slots : task'[u].pc = "failed" => task[u].pc = "failed"
      BY <1>4, Blank DEF Owners
    <2> QED BY <1>1, <1>7, <1>9, <2>1 DEF LockHeld
  <1>11. FirstRefreshAlone' /\ SnapshotOK' /\ AskedOK'
    BY <1>1, <1>7 DEF FirstRefreshAlone, SnapshotOK, AskedOK
  <1>12. ActionsOK'
    <2>1. \A u \in Slots : Editing(u)' => u # s
      BY <1>3, Blank DEF Editing
    <2>2. \A u \in Slots : Editing(u)' => EditIn(op'[u], accepted', now', source')
      BY <1>1, <1>3, <2>1 DEF ActionsOK, Editing
    <2>3. ASSUME NEW u \in Slots
          PROVE  /\ task'[u].pc # "none" => op'[u].pc = "refresh"
                 /\ op'[u].pc = "dismiss" => ~op'[u].closed
                 /\ op'[u].pc # "none" /\ ~op'[u].closed => open' /\ data' # NoData
      BY <1>1, <1>3, <1>4, Blank DEF ActionsOK, Owners
    <2> QED BY <2>2, <2>3 DEF ActionsOK
  <1>13. DaysOK'
    BY <1>9 DEF DaysOK, Refreshing
  <1> QED BY <1>1, <1>5, <1>8, <1>10, <1>11, <1>12, <1>13 DEF Core

(***************************************************************************)
(* Refreshes on their own account, projections, and the entry's lifecycle  *)
(***************************************************************************)
\* An import or the retry timer queues a refresh of an open coordinator.
LEMMA AskStep ==
  ASSUME Inv, NEW o \in {Importer, Timer}, Request(o), open, data # NoData,
         retry' \in BOOLEAN, retry' => retry,
         UNCHANGED <<saved, policy, account, open, reload, data, proj, op, content,
                     source, now, zone, faults, accepted>>
  PROVE  Core'
  <1> USE InvFacts
  <1>1. o \in Owners /\ o \notin Slots
    BY OwnersAssumption DEF Owners
  <1>2. /\ task' \in [Owners -> Task] /\ queue' \in Seq(Owners) /\ LockHeld'
        /\ \A p \in Owners : p # o => task'[p] = task[p]
        /\ task'[o].pc = "queued"
    BY <1>1, Requested, LockLater
  <1>3. TypeOK'
    BY <1>2 DEF TypeOK
  <1>4. FirstRefreshAlone' /\ SnapshotOK' /\ AskedOK' /\ RowsIn(saved', accepted', now', source')
    BY DEF FirstRefreshAlone, SnapshotOK, AskedOK
  <1>5. ActionsOK'
    <2>1. \A s \in Slots : task'[s] = task[s]
      BY <1>1, <1>2 DEF Owners
    <2> QED BY <2>1 DEF ActionsOK, Editing
  <1>6. DaysOK'
    <2>1. \A p \in Owners : task'[p].pc \in Refreshing => task'[p] = task[p]
      BY <1>2 DEF Refreshing
    <2> QED BY <2>1, DaysLater, Numbers
  <1> QED BY <1>2, <1>3, <1>4, <1>5, <1>6 DEF Core

LEMMA StartImportStep == ASSUME Inv, StartImport PROVE Core'
  <1>1. /\ Request(Importer) /\ open /\ data # NoData /\ retry' = retry
        /\ UNCHANGED <<saved, policy, account, open, reload, data, proj, op, content,
                       source, now, zone, faults, accepted>>
    BY DEF StartImport, entryVars, coordVars, worldVars
  <1> QED BY <1>1, AskStep, InvFacts DEF TypeOK

LEMMA RetryFiresStep == ASSUME Inv, RetryFires PROVE Core'
  <1>1. /\ Request(Timer) /\ open /\ data # NoData /\ retry' = FALSE
        /\ UNCHANGED <<saved, policy, account, open, reload, data, proj, op, content,
                       source, now, zone, faults, accepted>>
    BY InvFacts DEF RetryFires, entryVars, worldVars, LockHeld, FirstRefreshAlone
  <1> QED BY <1>1, AskStep

\* A projection from the cached rows, at its deadline or in a new zone.
LEMMA ReprojectStep ==
  ASSUME Inv, open, data # NoData, Reproject, zone' \in Zones,
         UNCHANGED <<saved, policy, account, open, reload, retry, queue, task, op, content,
                     source, now, faults, accepted>>
  PROVE  Core'
  <1> USE InvFacts
  <1>1. data' \in {data, Build(data.src)} /\ proj' = now + 1
    BY DEF Reproject, Build
  <1>2. /\ data' \in [src : Version, at : Moment] /\ data' # NoData /\ data'.src = data.src
        /\ SnapshotOK'
    BY <1>1, Reprojected
  <1>3. TypeOK'
    BY <1>2 DEF TypeOK
  <1>4. LockHeld' /\ FirstRefreshAlone' /\ AskedOK' /\ RowsIn(saved', accepted', now', source')
    BY <1>2 DEF LockHeld, FirstRefreshAlone, AskedOK
  <1>5. ActionsOK'
    BY <1>2 DEF ActionsOK, Editing
  <1>6. DaysOK'
    BY <1>2, DaysLater, Numbers
  <1> QED BY <1>2, <1>3, <1>4, <1>5, <1>6 DEF Core

LEMMA ProjectionDueStep == ASSUME Inv, ProjectionDue PROVE Core'
  <1>1. /\ open /\ data # NoData /\ Reproject /\ zone' \in Zones
        /\ UNCHANGED <<saved, policy, account, open, reload, retry, queue, task, op, content,
                       source, now, faults, accepted>>
    BY InvFacts DEF ProjectionDue, FirstRefreshAlone, entryVars, workVars, worldVars, TypeOK
  <1> QED BY <1>1, ReprojectStep

LEMMA ZoneChangeStep == ASSUME Inv, ZoneChange PROVE Core'
  <1>1. /\ open /\ data # NoData /\ Reproject /\ zone' \in Zones
        /\ UNCHANGED <<saved, policy, account, open, reload, retry, queue, task, op, content,
                       source, now, faults, accepted>>
    BY DEF ZoneChange, entryVars, workVars
  <1> QED BY <1>1, ReprojectStep

\* The coordinator is closed; what awaits the outcome of a failure goes on.
LEMMA UnloadStep == ASSUME Inv, Unload PROVE Core'
  <1> USE InvFacts
  <1>1. /\ open' = FALSE /\ retry' = FALSE /\ queue' = <<>> /\ data # NoData
        /\ UNCHANGED <<saved, policy, account, reload, data, content, source, now, zone,
                       faults, accepted>>
    BY DEF Unload, worldVars
  <1>2. /\ task' \in [Owners -> Task]
        /\ \A p \in Owners : task'[p] = IF task[p].pc = "failed" THEN task[p] ELSE NoTask
    BY Blank DEF Unload, TypeOK
  <1>3. \A s \in Slots : /\ [op[s] EXCEPT !.closed = TRUE] \in Action
                         /\ [op[s] EXCEPT !.closed = TRUE].closed
                         /\ [op[s] EXCEPT !.closed = TRUE].pc = op[s].pc
                         /\ [op[s] EXCEPT !.closed = TRUE].kind = op[s].kind
                         /\ [op[s] EXCEPT !.closed = TRUE].req = op[s].req
                         /\ [op[s] EXCEPT !.closed = TRUE].old = op[s].old
                         /\ [op[s] EXCEPT !.closed = TRUE].new = op[s].new
    BY DEF TypeOK, Action
  <1>4. /\ op' \in [Slots -> Action]
        /\ \A s \in Slots : op'[s] = IF task[s].pc = "failed"
                                     THEN [op[s] EXCEPT !.closed = TRUE] ELSE NoOp
    BY <1>3, Blank DEF Unload
  <1>5. TypeOK'
    <2>1. queue' \in Seq(Owners)
      BY <1>1
    <2>2. open' \in BOOLEAN /\ retry' \in BOOLEAN
      BY <1>1, Zenon
    <2> QED BY <1>1, <1>2, <1>4, <2>1, <2>2 DEF TypeOK
  <1>6. \A p \in Owners : task'[p].pc \notin Refreshing
    BY <1>2, Blank DEF Refreshing
  <1>7. \A s \in Slots : task'[s].pc = "failed" <=> task[s].pc = "failed"
    BY <1>2, Blank DEF Owners
  <1>8. LockHeld'
    BY <1>1, <1>6, <1>7 DEF LockHeld
  <1>9. FirstRefreshAlone' /\ SnapshotOK' /\ AskedOK' /\ RowsIn(saved', accepted', now', source')
    BY <1>1 DEF FirstRefreshAlone, SnapshotOK, AskedOK
  <1>10. ActionsOK'
    <2>1. \A s \in Slots : Editing(s)' =>
            /\ Editing(s) /\ op'[s].req = op[s].req
            /\ op'[s].old = op[s].old /\ op'[s].new = op[s].new
      BY <1>3, <1>4, Blank DEF Editing
    <2>2. \A s \in Slots : Editing(s)' => EditIn(op'[s], accepted', now', source')
      BY <1>1, <2>1, EditsLater, Numbers
    <2>3. ASSUME NEW s \in Slots
          PROVE  /\ task'[s].pc # "none" => op'[s].pc = "refresh"
                 /\ op'[s].pc = "dismiss" => ~op'[s].closed
                 /\ op'[s].pc # "none" /\ ~op'[s].closed => open' /\ data' # NoData
      <3>1. CASE task[s].pc = "failed"
        BY <1>3, <1>4, <3>1 DEF ActionsOK
      <3>2. CASE task[s].pc # "failed"
        BY <1>2, <1>4, <3>2, Blank DEF Owners
      <3> QED BY <3>1, <3>2
    <2> QED BY <2>2, <2>3 DEF ActionsOK
  <1>11. DaysOK'
    BY <1>6 DEF DaysOK, Refreshing
  <1> QED BY <1>1, <1>5, <1>8, <1>9, <1>10, <1>11 DEF Core

\* A new coordinator starts with its first refresh.
LEMMA SetupStep == ASSUME Inv, Setup PROVE Core'
  <1> USE InvFacts
  <1>1. /\ ~open /\ open' = TRUE /\ reload' = FALSE /\ retry' = FALSE /\ data' = NoData
        /\ proj' = None
        /\ Request(Importer) /\ Importer \in Owners /\ queue = <<>>
        /\ UNCHANGED <<saved, policy, account, op, content, source, now, zone, faults,
                       accepted>>
    BY DEF Setup, worldVars, Owners, LockHeld
  <1>2. /\ task' \in [Owners -> Task] /\ queue' = <<Importer>> /\ LockHeld'
        /\ queue' \in Seq(Owners)
        /\ \A p \in Owners : p # Importer => task'[p] = task[p]
        /\ task'[Importer].pc = "queued"
    BY <1>1, Requested, LockLater
  <1>3. TypeOK'
    BY <1>1, <1>2 DEF TypeOK
  <1>4. FirstRefreshAlone' /\ SnapshotOK' /\ AskedOK' /\ RowsIn(saved', accepted', now', source')
    BY <1>1, <1>2 DEF FirstRefreshAlone, SnapshotOK, AskedOK
  <1>5. ActionsOK'
    <2>1. \A s \in Slots : task'[s] = task[s]
      BY <1>2, OwnersAssumption DEF Owners
    <2>2. \A s \in Slots : op[s].pc # "none" => op[s].closed
      BY <1>1 DEF ActionsOK
    <2> QED BY <1>1, <2>1, <2>2 DEF ActionsOK, Editing
  <1>6. DaysOK'
    <2>1. \A p \in Owners : task'[p].pc \in Refreshing => task'[p] = task[p]
      BY <1>2 DEF Refreshing
    <2> QED BY <1>1, <2>1, DaysLater, Numbers
  <1> QED BY <1>2, <1>3, <1>4, <1>5, <1>6 DEF Core

(***************************************************************************)
(* The flows and the world outside                                         *)
(***************************************************************************)
\* A step of a flow that leaves the rows alone.
LEMMA AsideStep ==
  ASSUME Inv, policy' \in Nat, reload' \in BOOLEAN,
         UNCHANGED <<saved, account, open, data, proj, retry, queue, task, op, content,
                     source, now, zone, faults, accepted>>
  PROVE  Core'
  BY DEF Inv, Core, TypeOK, LockHeld, FirstRefreshAlone, RowsIn, RowIn, ActionsOK, Editing, EditIn,
         SnapshotOK, DaysOK, AskedOK

LEMMA SaveOptionsStep == ASSUME Inv, SaveOptions PROVE Core'
  <1>1. policy' \in Nat /\ reload' \in BOOLEAN
    BY InvFacts DEF SaveOptions, TypeOK
  <1> QED BY <1>1, AsideStep DEF SaveOptions, coordVars, workVars

LEMMA StartAccountFlowStep == ASSUME Inv, StartAccountFlow PROVE Core'
  <1>1. policy' \in Nat /\ reload' \in BOOLEAN
    BY InvFacts DEF StartAccountFlow, TypeOK, entryVars
  <1> QED BY <1>1, AsideStep DEF StartAccountFlow, entryVars, coordVars

LEMMA CredentialsValidatedStep == ASSUME Inv, CredentialsValidated PROVE Core'
  <1>1. policy' \in Nat /\ reload' \in BOOLEAN
    BY InvFacts DEF CredentialsValidated, TypeOK
  <1> QED BY <1>1, AsideStep DEF CredentialsValidated, coordVars, worldVars

\* An account change drops the rows, and with them every boundary.
LEMMA ConfirmAccountStep == ASSUME Inv, ConfirmAccount PROVE Core'
  <1> USE InvFacts
  <1>1. UNCHANGED <<policy, open, data, proj, retry, queue, task, op, content, source, now,
                    zone, faults, accepted>>
    BY DEF ConfirmAccount, coordVars, worldVars
  <1>2. CASE UNCHANGED <<saved, account, reload>>
    BY <1>1, <1>2, AsideStep DEF TypeOK
  <1>3. CASE saved' = [t \in Thermostats |-> NoRow] /\ account' = "second" /\ reload' = TRUE
    <2>1. saved' \in Rows /\ \A t \in Thermostats : saved'[t] = NoRow
      BY <1>3, Blank DEF Rows
    <2>2. RowsIn(saved', accepted', now', source')
      BY <2>1 DEF RowsIn, RowIn, NoRow
    <2>3. TypeOK'
      BY <1>1, <1>3, <2>1 DEF TypeOK
    <2>4. DaysOK'
      BY <1>1, <2>1, Blank, DaysLater, Numbers
    <2> QED BY <1>1, <2>2, <2>3, <2>4 DEF Core, LockHeld, FirstRefreshAlone, ActionsOK,
               Editing, SnapshotOK, AskedOK
  <1> QED BY <1>2, <1>3 DEF ConfirmAccount

\* The cloud and the clock only move forward.
LEMMA WorldStep ==
  ASSUME Inv, source' \in Version, source <= source', now' \in Moment, now <= now',
         UNCHANGED <<saved, policy, account, open, reload, data, proj, retry, queue, task, op,
                     content, zone, faults, accepted>>
  PROVE  Core'
  <1> USE InvFacts
  <1>1. /\ source' \in Int /\ now' \in Int /\ accepted' \in [Requests -> Nat]
        /\ \A r \in Requests : accepted[r] <= accepted'[r]
    BY BoundsAssumption, Numbers DEF Version, Moment
  <1>2. TypeOK'
    BY DEF TypeOK
  <1>3. RowsIn(saved', accepted', now', source')
    BY <1>1, RowsLater, Numbers DEF TypeOK
  <1>4. ActionsOK'
    <2>1. \A s \in Slots : Editing(s)' => EditIn(op'[s], accepted', now', source')
      BY <1>1, EditsLater DEF Editing
    <2> QED BY <2>1 DEF ActionsOK
  <1>5. SnapshotOK'
    <2>1. data # NoData => data.at \in Int /\ data.src \in Int
      BY BoundsAssumption DEF TypeOK, Moment, Version
    <2> QED BY <1>1, <2>1, Numbers DEF SnapshotOK
  <1>6. DaysOK'
    BY <1>1, DaysLater
  <1>7. AskedOK'
    BY <1>1, AskedLater
  <1>8. LockHeld' /\ FirstRefreshAlone'
    BY DEF LockHeld, FirstRefreshAlone
  <1> QED BY <1>2, <1>3, <1>4, <1>5, <1>6, <1>7, <1>8 DEF Core

LEMMA SourceMovesStep == ASSUME Inv, SourceMoves PROVE Core'
  <1>1. /\ source' \in Version /\ source <= source' /\ now' \in Moment /\ now <= now'
    BY InvFacts, Numbers, BoundsAssumption DEF SourceMoves, TypeOK, Version
  <1> QED BY <1>1, WorldStep DEF SourceMoves, entryVars, coordVars, workVars

LEMMA TickStep == ASSUME Inv, Tick PROVE Core'
  <1>1. /\ source' \in Version /\ source <= source' /\ now' \in Moment /\ now <= now'
    BY InvFacts, Numbers, BoundsAssumption DEF Tick, TypeOK, Moment
  <1> QED BY <1>1, WorldStep DEF Tick, entryVars, coordVars, workVars

(***************************************************************************)
(* The invariant holds                                                     *)
(***************************************************************************)
LEMMA InitInv == ASSUME Init PROVE Inv
  <1>1. /\ saved = [t \in Thermostats |-> NoRow] /\ task = [o \in Owners |-> NoTask]
        /\ op = [s \in Slots |-> NoOp] /\ content = [r \in Services |-> None]
        /\ accepted = [r \in Requests |-> 0] /\ queue = <<>> /\ retry = FALSE
        /\ open = TRUE /\ reload = FALSE /\ account = "first" /\ policy = 0
        /\ data = [src |-> 0, at |-> 0] /\ proj = 1
        /\ cache = [t \in Thermostats |-> NoDay]
        /\ source = 0 /\ now = 0 /\ zone \in Zones /\ faults = 0
    BY DEF Init
  <1>2. data # NoData /\ data \in [src : Version, at : Moment] /\ 0 \in Moment /\ 0 \in Version
    BY <1>1, BoundsAssumption DEF NoData, Moment, Version
  <1>3. TypeOK
    <2>1. saved \in Rows /\ task \in [Owners -> Task] /\ op \in [Slots -> Action]
      BY <1>1, Blank DEF Rows
    <2>2. queue \in Seq(Owners)
      BY <1>1
    <2>3. open \in BOOLEAN /\ retry \in BOOLEAN /\ reload \in BOOLEAN
      BY <1>1, Zenon
    <2> QED BY <1>1, <1>2, <2>1, <2>2, <2>3 DEF TypeOK
  <1>4. \A o \in Owners : task[o].pc = "none"
    BY <1>1, Blank
  <1>5. \A s \in Slots : task[s].pc = "none" /\ op[s].pc = "none"
    BY <1>1, <1>4, Blank DEF Owners
  <1>6. LockHeld /\ FirstRefreshAlone /\ ActionsOK /\ DaysOK
    BY <1>1, <1>2, <1>4, <1>5
       DEF LockHeld, FirstRefreshAlone, ActionsOK, Editing, DaysOK, Refreshing
  <1>7. RowsIn(saved, accepted, now, source)
    BY <1>1 DEF RowsIn, RowIn, NoRow
  <1>8. SnapshotOK /\ AskedOK
    BY <1>1, BoundsAssumption DEF SnapshotOK, AskedOK
  <1>9. HeldOK /\ ReadOK
    BY <1>1, <1>4 DEF HeldOK, ReadOK
  <1> QED BY <1>3, <1>6, <1>7, <1>8, <1>9 DEF Inv, Core

LEMMA NextCore == ASSUME Inv, [Next]_vars PROVE Core'
  <1>1. ASSUME NEW o \in Owners, Refresh(o) PROVE Core'
    BY <1>1, ReadRowsStep, RefreshFailsStep, ReadSummaryStep, DayUnreadStep, DayReadStep
       DEF Refresh
  <1>2. ASSUME NEW s \in Slots, FilterAction(s) PROVE Core'
    BY <1>2, SetDateStep, PressButtonStep, RepairStep, RecordStep, DismissedStep,
       ActionFailsStep DEF FilterAction
  <1>3. CASE UNCHANGED vars
    <2>1. policy \in Nat /\ reload \in BOOLEAN
      BY InvFacts DEF TypeOK
    <2> QED BY <1>3, <2>1, AsideStep DEF vars, entryVars, coordVars, workVars, worldVars
  <1> QED
    BY <1>1, <1>2, <1>3, CaptureStep, ProjectionDueStep, ZoneChangeStep, RetryFiresStep,
       StartImportStep, UnloadStep, SetupStep, SaveOptionsStep, StartAccountFlowStep,
       CredentialsValidatedStep, ConfirmAccountStep, SourceMovesStep, TickStep DEF Next

(***************************************************************************)
(* Who writes the rows                                                     *)
(***************************************************************************)
\* An accepted request writes its row over that of another request.
Writes(t, r, at) ==
  /\ saved[t].req # r /\ (at # None => at <= now) /\ Write(t, r, at) /\ Accept(r)

\* The read of a planned day leaves a baseline in its row.
Measures(o, t, rows) ==
  /\ DayRead(o, t) /\ task[o].pc = "day" /\ t \in task[o].left /\ saved[t].at = task[o].plan[t]
  /\ saved' = [saved EXCEPT ![t] = Reconciled(@, Assess(task[o].plan[t], rows))]
  /\ cache' = [cache EXCEPT ![t] = [key |-> Key(o, t), rows |-> rows]]
  /\ UNCHANGED <<accepted, account, content>>

\* A date edit takes its options back.
RollsBack(s) ==
  /\ task[s].pc = "failed" /\ op[s].kind = "date" /\ Unchallenged(s)
  /\ saved' = op[s].old.saved
  /\ UNCHANGED <<accepted, account, content>>

\* An account change drops the rows.
Drops ==
  /\ flow.pc = "confirm" /\ Options = flow.options
  /\ saved' = [t \in Thermostats |-> NoRow] /\ account' = "second"
  /\ UNCHANGED accepted

\* A row that the request wrote already would have been accepted.
LEMMA FreshWrites ==
  ASSUME Inv, NEW t \in Thermostats, NEW r \in Requests, Fresh(r)
  PROVE  saved[t].req # r
  <1>1. saved[t].req # None => accepted[saved[t].req] > 0
    BY InvFacts DEF RowsIn, RowIn
  <1> QED BY <1>1, BoundsAssumption DEF Fresh

\* Nothing else touches the rows.
LEMMA WaysToWrite ==
  ASSUME Inv, [Next]_vars
  PROVE  \/ UNCHANGED <<saved, accepted>>
         \/ \E t \in Thermostats, r \in Requests, at \in Moment \cup {None} : Writes(t, r, at)
         \/ \E o \in Owners, t \in Thermostats : \E rows \in Usable(o, t) :
               Measures(o, t, rows)
         \/ \E s \in Slots : RollsBack(s)
         \/ Drops
  <1> USE InvFacts
  <1> DEFINE Goal == \/ UNCHANGED <<saved, accepted>>
                     \/ \E t \in Thermostats, r \in Requests, at \in Moment \cup {None} :
                           Writes(t, r, at)
                     \/ \E o \in Owners, t \in Thermostats : \E rows \in Usable(o, t) :
                           Measures(o, t, rows)
                     \/ \E s \in Slots : RollsBack(s)
                     \/ Drops
  <1>1. ASSUME NEW o \in Owners, Refresh(o) PROVE Goal
    <2>1. CASE ReadRows(o) \/ RefreshFails(o) \/ ReadSummary(o)
      BY <2>1 DEF ReadRows, RefreshFails, ReadSummary, entryVars
    <2>2. ASSUME NEW t \in Thermostats, DayUnread(o, t) PROVE Goal
      BY <2>2 DEF DayUnread, entryVars
    <2>3. ASSUME NEW t \in Thermostats, DayRead(o, t) PROVE Goal
      <3>1. PICK rows \in Usable(o, t) :
              \/ UNCHANGED saved
              \/ /\ saved[t].at = task[o].plan[t]
                 /\ saved' = [saved EXCEPT ![t] = Reconciled(@, Assess(task[o].plan[t], rows))]
                 /\ cache' = [cache EXCEPT ![t] = [key |-> Key(o, t), rows |-> rows]]
        BY <2>3, DayMet
      <3>2. /\ task[o].pc = "day" /\ t \in task[o].left
            /\ UNCHANGED <<accepted, account, content>>
        BY <2>3 DEF DayRead, Holds
      <3>3. saved' = saved \/ Measures(o, t, rows)
        BY <2>3, <3>1, <3>2 DEF Measures
      <3> QED BY <3>2, <3>3
    <2> QED BY <1>1, <2>1, <2>2, <2>3 DEF Refresh
  <1>2. ASSUME NEW s \in Slots, FilterAction(s) PROVE Goal
    <2>1. ASSUME NEW r \in Requests, NEW t \in Thermostats, SetDate(s, t, r) PROVE Goal
      <3>1. Writes(t, r, None)
        BY <2>1, FreshWrites DEF SetDate, Writes
      <3> QED BY <3>1
    <2>2. ASSUME NEW r \in Requests, NEW t \in Thermostats, PressButton(s, t, r)
          PROVE  Goal
      <3>1. Writes(t, r, now)
        BY <2>2, FreshWrites, Numbers DEF PressButton, Mark, Writes
      <3>2. now \in Moment \cup {None}
        BY DEF TypeOK
      <3> QED BY <3>1, <3>2
    <2>3. ASSUME NEW r \in Requests, NEW t \in Thermostats, NEW at \in 0..MaxNow,
                 Repair(s, t, r, at)
          PROVE  Goal
      <3>1. Writes(t, r, at)
        BY <2>3, FreshWrites DEF Repair, Mark, Writes
      <3>2. at \in Moment \cup {None}
        BY DEF Moment
      <3> QED BY <3>1, <3>2
    <2>4. ASSUME NEW r \in Services, Record(s, r) PROVE Goal
      <3>1. Writes(content[r].t, r, content[r].at)
        BY <2>4 DEF Record, Mark, Writes, AskedOK
      <3>2. content[r].t \in Thermostats /\ content[r].at \in Moment /\ r \in Requests
        BY <2>4, BoundsAssumption DEF Record, TypeOK, Asked
      <3> QED BY <3>1, <3>2
    <2>5. CASE Dismissed(s)
      BY <2>5 DEF Dismissed, entryVars
    <2>6. CASE ActionFails(s)
      <3>1. UNCHANGED <<accepted, account, content>> /\ task[s].pc = "failed"
        BY <2>6 DEF ActionFails
      <3>2. saved' = saved \/ RollsBack(s)
        BY <2>6, <3>1 DEF ActionFails, RollsBack
      <3> QED BY <3>1, <3>2
    <2> QED BY <1>2, <2>1, <2>2, <2>3, <2>4, <2>5, <2>6 DEF FilterAction
  <1>3. CASE \/ \E r \in Services, t \in Thermostats, at \in 0..MaxNow : Capture(r, t, at)
             \/ ProjectionDue \/ ZoneChange
             \/ RetryFires \/ StartImport \/ Unload \/ Setup
             \/ SaveOptions \/ StartAccountFlow \/ CredentialsValidated
             \/ SourceMoves \/ Tick \/ UNCHANGED vars
    BY <1>3 DEF Capture, ProjectionDue, ZoneChange, RetryFires, StartImport, Unload, Setup,
       SaveOptions, StartAccountFlow, CredentialsValidated, SourceMoves, Tick, vars, entryVars
  <1>4. CASE ConfirmAccount
    BY <1>4 DEF ConfirmAccount, Drops
  <1> QED BY <1>1, <1>2, <1>3, <1>4 DEF Next

\* A rollback brings back the row that the edit replaced, and nothing else.
LEMMA Restored ==
  ASSUME Inv, NEW s \in Slots, RollsBack(s)
  PROVE  /\ EditIn(op[s], accepted, now, source) /\ saved = op[s].new.saved
         /\ \E t \in Thermostats :
              /\ saved[t].req = op[s].req /\ saved[t].base = None
              /\ \A u \in Thermostats : u # t => saved'[u] = saved[u]
  <1> USE InvFacts
  <1>1. s \in Owners /\ op[s].pc # "none"
    BY DEF RollsBack, ActionsOK, Owners
  <1>2. EditIn(op[s], accepted, now, source) /\ saved = op[s].new.saved
    BY <1>1 DEF RollsBack, ActionsOK, Editing, Unchallenged, Options
  <1>3. PICK t \in Thermostats :
          saved = [op[s].old.saved EXCEPT ![t] = [req |-> op[s].req, at |-> None, base |-> None]]
    BY <1>2 DEF EditIn
  <1>4. op[s].old.saved \in Rows /\ saved' = op[s].old.saved
    BY <1>2 DEF EditIn, Saved, RollsBack
  <1>5. saved[t] = [req |-> op[s].req, at |-> None, base |-> None]
    BY <1>3, <1>4 DEF Rows
  <1>6. \A u \in Thermostats : u # t => saved'[u] = saved[u]
    BY <1>3, <1>4 DEF Rows
  <1> QED BY <1>2, <1>5, <1>6

(***************************************************************************)
(* What is held and remembered while no day is read, and when one is       *)
(***************************************************************************)
\* Between the writes, edits only end or go on.
EditsStay ==
  \A s \in Slots : Editing(s)' =>
     Editing(s) /\ op'[s].old = op[s].old /\ op'[s].new = op[s].new

\* A refresh that ends takes its own action with it, and no other.
LEMMA DayEndsEdits ==
  ASSUME NEW o \in Owners, NEW src, NEW t, NEW rows, NEW pend,
         Finish(o, src, rows, pend) \/ DayEnds(o, t, rows, pend)
  PROVE  EditsStay
  BY Blank DEF Finish, DayEnds, EditsStay, Editing

\* What is held stays true while no day is read.
LEMMA HeldLater ==
  ASSUME Inv, cache' \in [Thermostats -> Day \cup {NoDay}],
         \A t \in Thermostats : cache'[t] \in {cache[t], NoDay},
         source' \in Int, source <= source',
         \A t \in Thermostats : \A row \in Standing(t)' :
            row.base # None => row \in Standing(t)
  PROVE  HeldOK'
  <1> USE InvFacts
  <1>1. ASSUME NEW t \in Thermostats, cache'[t] # NoDay
        PROVE  /\ cache'[t].rows <= source'
               /\ \E shown \in 0..cache'[t].rows : Fingerprint[shown] = cache'[t].key.print
               /\ \A row \in Standing(t)' :
                    row.base # None /\ row.at = cache'[t].key.at =>
                      row.base.src <= cache'[t].rows
    <2>1. cache'[t] = cache[t] /\ cache[t] # NoDay
      BY <1>1
    <2>2. cache[t] \in Day /\ cache[t].rows <= source
      BY <2>1 DEF HeldOK
    <2>3. cache[t].rows <= source'
      BY <2>2, Numbers, BoundsAssumption DEF Day, Version
    <2>4. /\ \E shown \in 0..cache[t].rows : Fingerprint[shown] = cache[t].key.print
          /\ \A row \in Standing(t) :
               row.base # None /\ row.at = cache[t].key.at => row.base.src <= cache[t].rows
      BY <2>1 DEF HeldOK
    <2> QED BY <2>1, <2>3, <2>4
  <1> QED BY <1>1 DEF HeldOK

\* So does what the refresh under way relies on.
LEMMA ReadLater ==
  ASSUME Inv,
         \A t \in Thermostats : \A row \in Standing(t)' :
            row.base # None => row \in Standing(t),
         \A o \in Owners : task'[o].pc = "day" => task'[o] = task[o],
         \A o \in Owners, t \in Thermostats :
            task'[o].pc = "day" /\ saved'[t].base # None => saved'[t] = saved[t]
  PROVE  ReadOK'
  <1> USE InvFacts
  <1>1. ASSUME NEW o \in Owners, task'[o].pc = "day"
        PROVE  /\ \A t \in task'[o].left : \A row \in Standing(t)' :
                    row.base # None => row.base.src <= task'[o].src
               /\ ~task'[o].pend => \A t \in Thermostats \ task'[o].left :
                    saved'[t].base # None /\ saved'[t].at = task'[o].plan[t] =>
                      \E shown \in 0..saved'[t].base.src :
                         Fingerprint[shown] = Fingerprint[task'[o].src]
    <2>1. task'[o] = task[o] /\ task[o].pc = "day" /\ task[o].left \subseteq Thermostats
      BY <1>1 DEF TypeOK, Task
    <2>2. /\ \A t \in task[o].left : \A row \in Standing(t) :
               row.base # None => row.base.src <= task[o].src
          /\ ~task[o].pend => \A t \in Thermostats \ task[o].left :
               saved[t].base # None /\ saved[t].at = task[o].plan[t] =>
                 \E shown \in 0..saved[t].base.src :
                    Fingerprint[shown] = Fingerprint[task[o].src]
      BY <2>1 DEF ReadOK
    <2>3. \A t \in Thermostats : saved'[t].base # None => saved'[t] = saved[t]
      BY <1>1
    <2> QED BY <2>1, <2>2, <2>3
  <1> QED BY <1>1 DEF ReadOK

\* A row stands after a step if it stood before, when edits only end, go on, or
\* begin with the rows saved.
LEMMA StandsStill ==
  ASSUME \A s \in Slots : Editing(s)' =>
            op'[s].old.saved = saved \/ (Editing(s) /\ op'[s].old = op[s].old),
         \A t \in Thermostats : saved'[t].base # None => saved'[t] \in Standing(t)
  PROVE  \A t \in Thermostats : \A row \in Standing(t)' :
            row.base # None => row \in Standing(t)
  <1> SUFFICES ASSUME NEW t \in Thermostats, NEW row \in Standing(t)', row.base # None
               PROVE  row \in Standing(t)
    OBVIOUS
  <1>1. CASE row = saved'[t]
    BY <1>1
  <1>2. CASE \E s \in Slots : Editing(s)' /\ row = op'[s].old.saved[t]
    BY <1>2 DEF Standing
  <1> QED BY <1>1, <1>2 DEF Standing

\* Filter actions and flows, timers and the world leave the days alone.
LEMMA OthersKeepDays ==
  ASSUME Inv, [Next]_vars, \A o \in Owners : ~Refresh(o)
  PROVE  /\ \A o \in Owners : task'[o].pc = "day" => task'[o] = task[o]
         /\ \A o \in Owners : task[o].pc = "day" /\ task'[o].pc # "day" => ~open'
         /\ cache' \in [Thermostats -> Day \cup {NoDay}]
         /\ \A t \in Thermostats : cache'[t] \in {cache[t], NoDay}
         /\ source' \in Int /\ source <= source'
  <1> USE InvFacts
  <1> DEFINE DaysKept ==
        \A o \in Owners : /\ task'[o].pc = "day" => task'[o] = task[o]
                          /\ task[o].pc = "day" => task'[o] = task[o] \/ ~open'
  <1> DEFINE CacheKept == /\ cache' \in [Thermostats -> Day \cup {NoDay}]
                          /\ \A t \in Thermostats : cache'[t] \in {cache[t], NoDay}
  <1> DEFINE SourceKept == source' \in Int /\ source <= source'
  <1>a. cache' = cache => CacheKept
    BY DEF HeldOK
  <1>b. cache' = [t \in Thermostats |-> NoDay] => CacheKept
    OBVIOUS
  <1>c. source' = source \/ source' = source + 1 => SourceKept
    BY Numbers
  <1>1. ASSUME NEW p \in Owners, Request(p) PROVE DaysKept
    <2>1. /\ task[p].pc = "none" /\ task'[p].pc = "queued"
          /\ \A o \in Owners : o # p => task'[o] = task[o]
      BY <1>1, Requested
    <2> QED BY <2>1
  <1>2. ASSUME task' = task PROVE DaysKept
    BY <1>2
  <1>3. ASSUME NEW s \in Slots, FilterAction(s)
        PROVE  DaysKept /\ cache' = cache /\ source' = source
    <2>1. s \in Owners
      BY DEF Owners
    <2>2. ASSUME NEW kind, NEW t, NEW r, NEW at, Mark(s, kind, t, r, at)
          PROVE  DaysKept /\ cache' = cache /\ source' = source
      BY <1>1, <1>2, <2>1, <2>2 DEF Mark, worldVars
    <2>3. CASE ActionFails(s)
      <3>1. task[s].pc = "failed" /\ task' = [task EXCEPT ![s] = NoTask]
            /\ cache' = cache /\ source' = source
        BY <2>3 DEF ActionFails, worldVars
      <3>2. task'[s] = NoTask /\ \A o \in Owners : o # s => task'[o] = task[o]
        BY <2>1, <3>1 DEF TypeOK
      <3> QED BY <3>1, <3>2, Blank
    <2> QED BY <1>1, <1>3, <2>1, <2>2, <2>3
            DEF FilterAction, SetDate, PressButton, Repair, Record, Dismissed, coordVars, worldVars
  <1>4. ASSUME Unload PROVE DaysKept /\ CacheKept /\ SourceKept
    <2>1. open' = FALSE /\ cache' = cache /\ source' = source
          /\ \A o \in Owners : task'[o] = IF task[o].pc = "failed" THEN task[o] ELSE NoTask
      BY <1>4 DEF Unload, worldVars
    <2>2. DaysKept
      BY <2>1, Blank
    <2> HIDE DEF DaysKept, CacheKept, SourceKept
    <2> QED BY <2>1, <2>2, <1>a, <1>c
  <1>5. ASSUME RetryFires \/ StartImport PROVE DaysKept /\ CacheKept /\ SourceKept
    <2>1. Importer \in Owners /\ Timer \in Owners
      BY DEF Owners
    <2>2. DaysKept /\ cache' = cache /\ source' = source
      BY <1>1, <1>5, <2>1 DEF RetryFires, StartImport, coordVars, worldVars
    <2> HIDE DEF DaysKept, CacheKept, SourceKept
    <2> QED BY <2>2, <1>a, <1>c
  <1>6. ASSUME Setup PROVE DaysKept /\ CacheKept /\ SourceKept
    <2>1. Importer \in Owners /\ Request(Importer) /\ source' = source
          /\ cache' = [t \in Thermostats |-> NoDay]
      BY <1>6 DEF Setup, Owners, worldVars
    <2>2. DaysKept
      BY <1>1, <2>1
    <2> HIDE DEF DaysKept, CacheKept, SourceKept
    <2> QED BY <2>1, <2>2, <1>b, <1>c
  <1>7. ASSUME \/ \E r \in Services, t \in Thermostats, at \in 0..MaxNow : Capture(r, t, at)
             \/ ProjectionDue \/ ZoneChange
             \/ SaveOptions \/ StartAccountFlow \/ CredentialsValidated \/ ConfirmAccount
             \/ SourceMoves \/ Tick \/ UNCHANGED vars
        PROVE  DaysKept /\ CacheKept /\ SourceKept
    <2>1. task' = task /\ cache' = cache
      BY <1>7 DEF Capture, ProjectionDue, ZoneChange, SaveOptions, StartAccountFlow,
         CredentialsValidated, ConfirmAccount, SourceMoves, Tick, vars, coordVars, workVars
    <2>2. source' = source \/ source' = source + 1
      BY <1>7 DEF Capture, ProjectionDue, ZoneChange, SaveOptions, StartAccountFlow,
         CredentialsValidated, ConfirmAccount, SourceMoves, Tick, vars, worldVars
    <2>3. DaysKept
      BY <2>1, <1>2
    <2> HIDE DEF DaysKept, CacheKept, SourceKept
    <2> QED BY <2>1, <2>2, <2>3, <1>a, <1>c
  <1>8. DaysKept /\ CacheKept /\ SourceKept
    <2> HIDE DEF DaysKept, CacheKept, SourceKept
    <2> QED BY <1>3, <1>4, <1>5, <1>6, <1>7, <1>a, <1>c DEF Next
  <1>9. ASSUME NEW o \in Owners, task[o].pc = "day", task'[o].pc # "day" PROVE ~open'
    BY <1>8, <1>9
  <1>10. \A o \in Owners : task'[o].pc = "day" => task'[o] = task[o]
    BY <1>8
  <1>11. CacheKept /\ SourceKept
    BY <1>8
  <1> HIDE DEF DaysKept
  <1> QED BY <1>9, <1>10, <1>11

\* They begin an edit with the rows saved, or leave it as it is.
LEMMA OthersKeepEdits ==
  ASSUME Inv, [Next]_vars, \A o \in Owners : ~Refresh(o)
  PROVE  \A s \in Slots : Editing(s)' =>
            op'[s].old.saved = saved \/ (Editing(s) /\ op'[s].old = op[s].old)
  <1> USE InvFacts
  <1> DEFINE Goal == \A s \in Slots : Editing(s)' =>
                        op'[s].old.saved = saved \/ (Editing(s) /\ op'[s].old = op[s].old)
  <1>1. ASSUME NEW s \in Slots, FilterAction(s) PROVE Goal
    <2>1. ASSUME NEW t, NEW r, SetDate(s, t, r) PROVE Goal
      <3>1. \A u \in Slots : u # s => op'[u] = op[u]
        BY <2>1 DEF SetDate, TypeOK
      <3>2. op'[s].old.saved = saved
        BY <2>1 DEF SetDate, TypeOK, NoOp, Options
      <3> QED BY <3>1, <3>2 DEF Editing
    <2>2. ASSUME NEW kind \in {"button", "repair", "service"}, NEW t, NEW r, NEW at,
                 Mark(s, kind, t, r, at)
          PROVE  Goal
      <3>1. \A u \in Slots : u # s => op'[u] = op[u]
        BY <2>2 DEF Mark, Begin, TypeOK
      <3>2. op'[s].kind = kind
        BY <2>2 DEF Mark, Begin, TypeOK, NoOp
      <3> QED BY <3>1, <3>2 DEF Editing
    <2>3. CASE Dismissed(s)
      <3>1. op'[s] = [op[s] EXCEPT !.pc = "refresh"] /\ op[s].pc = "dismiss"
            /\ \A u \in Slots : u # s => op'[u] = op[u]
        BY <2>3 DEF Dismissed, TypeOK
      <3>2. op'[s].old = op[s].old /\ op'[s].kind = op[s].kind
        BY <3>1 DEF TypeOK, Action
      <3> QED BY <3>1, <3>2 DEF Editing
    <2>4. CASE ActionFails(s)
      <3>1. op'[s] = NoOp /\ \A u \in Slots : u # s => op'[u] = op[u]
        BY <2>4 DEF ActionFails, TypeOK
      <3> QED BY <3>1, Blank DEF Editing
    <2> QED BY <1>1, <2>1, <2>2, <2>3, <2>4
            DEF FilterAction, PressButton, Repair, Record
  <1>2. CASE Unload
    <2>1. \A s \in Slots : op'[s] = IF task[s].pc = "failed"
                                    THEN [op[s] EXCEPT !.closed = TRUE] ELSE NoOp
      BY <1>2 DEF Unload
    <2>2. \A s \in Slots : /\ [op[s] EXCEPT !.closed = TRUE].old = op[s].old
                           /\ [op[s] EXCEPT !.closed = TRUE].pc = op[s].pc
                           /\ [op[s] EXCEPT !.closed = TRUE].kind = op[s].kind
      BY DEF TypeOK, Action
    <2> QED BY <2>1, <2>2, Blank DEF Editing
  <1>3. CASE \/ \E r \in Services, t \in Thermostats, at \in 0..MaxNow : Capture(r, t, at)
             \/ ProjectionDue \/ ZoneChange \/ RetryFires \/ StartImport \/ Setup
             \/ SaveOptions \/ StartAccountFlow \/ CredentialsValidated \/ ConfirmAccount
             \/ SourceMoves \/ Tick \/ UNCHANGED vars
    <2>1. op' = op
      BY <1>3 DEF Capture, ProjectionDue, ZoneChange, RetryFires, StartImport, Setup,
         SaveOptions, StartAccountFlow, CredentialsValidated, ConfirmAccount, SourceMoves,
         Tick, vars, workVars
    <2> QED BY <2>1 DEF Editing
  <1> QED BY <1>1, <1>2, <1>3 DEF Next

\* A baseline that another step leaves was saved, or is that of an edit taken
\* back, and then no day is being read.
LEMMA OthersKeepRows ==
  ASSUME Inv, [Next]_vars, \A o \in Owners : ~Refresh(o)
  PROVE  /\ \A t \in Thermostats : saved'[t].base # None => saved'[t] \in Standing(t)
         /\ \A o \in Owners, t \in Thermostats :
              task'[o].pc = "day" /\ saved'[t].base # None => saved'[t] = saved[t]
  <1> USE InvFacts
  <1>1. \A t \in Thermostats : saved[t] \in Standing(t)
    BY DEF Standing
  <1>2. CASE saved' = saved
    BY <1>1, <1>2
  <1>3. ASSUME NEW t \in Thermostats, NEW r \in Requests, NEW at \in Moment \cup {None},
               Writes(t, r, at)
        PROVE  \A u \in Thermostats : saved'[u].base # None => saved'[u] = saved[u]
    <2>1. (at # None => at <= now) /\ Write(t, r, at) /\ Accept(r)
      BY <1>3 DEF Writes
    <2>2. /\ saved'[t] = [req |-> r, at |-> at, base |-> None]
          /\ \A u \in Thermostats : u # t => saved'[u] = saved[u]
      BY <2>1, Written
    <2> QED BY <2>2
  <1>4. ASSUME NEW o \in Owners, NEW t \in Thermostats, NEW rows, Measures(o, t, rows)
        PROVE  FALSE
    BY <1>4 DEF Measures, Refresh
  <1>5. ASSUME NEW s \in Slots, RollsBack(s)
        PROVE  /\ \A t \in Thermostats : saved'[t] \in Standing(t)
               /\ \A o \in Owners : task'[o].pc # "day"
    <2>1. s \in Owners /\ task[s].pc = "failed" /\ op[s].kind = "date"
          /\ saved' = op[s].old.saved
      BY <1>5 DEF RollsBack, Owners
    <2>2. Editing(s)
      BY <2>1 DEF ActionsOK, Editing
    <2>3. \A o \in Owners : task[o].pc # "day"
      BY <2>1 DEF LockHeld, Refreshing
    <2>4. \A o \in Owners : task'[o].pc = "day" => task'[o] = task[o]
      BY OthersKeepDays
    <2> QED BY <2>1, <2>2, <2>3, <2>4 DEF Standing
  <1>6. CASE Drops
    <2>1. \A t \in Thermostats : saved'[t] = NoRow
      BY <1>6 DEF Drops
    <2> QED BY <2>1, Blank
  <1> QED BY <1>1, <1>2, <1>3, <1>4, <1>5, <1>6, WaysToWrite

\* Where the refresh under way is after one of its days.
LEMMA DayEndsAt ==
  ASSUME Inv, NEW o \in Owners, NEW t \in Thermostats, NEW rows, NEW pend \in BOOLEAN,
         Holds(o, "day"), DayEnds(o, t, rows, pend)
  PROVE  \/ /\ \A p \in Owners : task'[p].pc \notin Refreshing
            /\ task[o].left = {t} /\ data'.src = task[o].src
         \/ /\ \A p \in Owners : task'[p].pc = "day" => p = o
            /\ task'[o].left = task[o].left \ {t} /\ task'[o].pc = "day"
            /\ task'[o].plan = task[o].plan /\ task'[o].src = task[o].src
            /\ task'[o].pend = (task[o].pend \/ pend)
  <1> USE InvFacts
  <1>1. \A p \in Owners : p # o => task[p].pc \notin Refreshing
    BY DEF LockHeld, Holds
  <1>2. CASE task[o].left = {t}
    <2>1. /\ data'.src = task[o].src /\ task'[o] = NoTask
          /\ \A p \in Owners : p # o => task'[p] = task[p]
      BY <1>2 DEF DayEnds, Finish, Publish, Build, TypeOK
    <2> QED BY <1>1, <1>2, <2>1, Blank DEF Refreshing
  <1>3. CASE task[o].left # {t}
    <2>1. /\ task'[o] = [task[o] EXCEPT !.left = @ \ {t}, !.pend = task[o].pend \/ pend]
          /\ \A p \in Owners : p # o => task'[p] = task[p]
      BY <1>3 DEF DayEnds, TypeOK
    <2>2. /\ task'[o].left = task[o].left \ {t} /\ task'[o].pc = "day"
          /\ task'[o].plan = task[o].plan /\ task'[o].src = task[o].src
          /\ task'[o].pend = (task[o].pend \/ pend)
      <3>1. task[o] \in Task /\ task[o].pc = "day"
        BY DEF TypeOK, Holds
      <3> QED BY <2>1, <3>1 DEF Task
    <2> QED BY <1>1, <2>1, <2>2 DEF Refreshing
  <1> QED BY <1>2, <1>3

\* The days that are left to a refresh, and those it has read, while the rows
\* that stand do so.
LEMMA ReadGoesOn ==
  ASSUME Inv, NEW o \in Owners, NEW t \in Thermostats, NEW rows, NEW pend \in BOOLEAN,
         Holds(o, "day"), DayEnds(o, t, rows, pend), EditsStay,
         \A u \in Thermostats : u # t => saved'[u] = saved[u],
         ~pend /\ saved'[t].base # None /\ saved'[t].at = task[o].plan[t] =>
           \E shown \in 0..saved'[t].base.src : Fingerprint[shown] = Fingerprint[task[o].src]
  PROVE  ReadOK'
  <1> USE InvFacts
  <1>1. CASE \A p \in Owners : task'[p].pc \notin Refreshing
    BY <1>1 DEF ReadOK, Refreshing
  <1>2. CASE /\ \A p \in Owners : task'[p].pc = "day" => p = o
             /\ task'[o].left = task[o].left \ {t} /\ task'[o].pc = "day"
             /\ task'[o].plan = task[o].plan /\ task'[o].src = task[o].src
             /\ task'[o].pend = (task[o].pend \/ pend)
    <2>1. task[o].pc = "day" /\ task[o].left \subseteq Thermostats
      BY DEF Holds, TypeOK, Task
    <2>2. ASSUME NEW u \in task'[o].left, NEW row \in Standing(u)', row.base # None
          PROVE  row.base.src <= task'[o].src
      <3>1. u \in task[o].left /\ u # t /\ u \in Thermostats
        BY <1>2, <2>1, <2>2
      <3>2. row \in Standing(u)
        BY <2>2, <3>1 DEF Standing, EditsStay
      <3> QED BY <1>2, <2>1, <2>2, <3>1, <3>2 DEF ReadOK
    <2>3. ASSUME ~task'[o].pend, NEW u \in Thermostats \ task'[o].left,
                 saved'[u].base # None, saved'[u].at = task'[o].plan[u]
          PROVE  \E shown \in 0..saved'[u].base.src :
                    Fingerprint[shown] = Fingerprint[task'[o].src]
      <3>1. ~task[o].pend /\ ~pend
        BY <1>2, <2>3
      <3>2. CASE u = t
        BY <1>2, <2>3, <3>1, <3>2
      <3>3. CASE u # t
        <4>1. u \in Thermostats \ task[o].left /\ saved'[u] = saved[u]
          BY <1>2, <2>3, <3>3
        <4> QED BY <1>2, <2>1, <2>3, <3>1, <4>1 DEF ReadOK
      <3> QED BY <3>2, <3>3
    <2> QED BY <1>2, <2>2, <2>3 DEF ReadOK
  <1> QED BY <1>1, <1>2, DayEndsAt

\* The summary arrives: every row that stands is as old.
LEMMA SummaryHeld ==
  ASSUME Inv, NEW o \in Owners, ReadSummary(o)
  PROVE  HeldOK' /\ ReadOK'
  <1> USE InvFacts
  <1> DEFINE exact == {t \in Thermostats : task[o].plan[t] # None}
  <1>1. /\ saved' = saved /\ source' = source
        /\ cache' = [t \in Thermostats |-> IF t \in exact THEN cache[t] ELSE NoDay]
    BY DEF ReadSummary, entryVars, worldVars
  <1>2. EditsStay
    BY DayEndsEdits DEF ReadSummary, EditsStay, Editing
  <1>3. \A t \in Thermostats : \A row \in Standing(t)' : row \in Standing(t)
    BY <1>1, <1>2 DEF Standing, EditsStay
  <1>4. /\ cache' \in [Thermostats -> Day \cup {NoDay}]
        /\ \A t \in Thermostats : cache'[t] \in {cache[t], NoDay}
    BY <1>1 DEF HeldOK
  <1>5. HeldOK'
    BY <1>1, <1>3, <1>4, HeldLater, Numbers
  <1>6. \A p \in Owners : p # o => task[p].pc \notin Refreshing
    BY DEF ReadSummary, Holds, LockHeld
  <1>7. CASE exact = {}
    <2>1. Finish(o, source, saved, FALSE)
      BY <1>7 DEF ReadSummary
    <2>2. task'[o] = NoTask /\ \A p \in Owners : p # o => task'[p] = task[p]
      BY <2>1 DEF Finish, TypeOK
    <2>3. \A p \in Owners : task'[p].pc # "day"
      BY <1>6, <2>2, Blank DEF Refreshing
    <2> QED BY <1>5, <2>3 DEF ReadOK
  <1>8. CASE exact # {}
    <2>1. /\ task'[o] = [task[o] EXCEPT !.pc = "day", !.src = source, !.zone = zone,
                                        !.left = exact]
          /\ \A p \in Owners : p # o => task'[p] = task[p]
      BY <1>8 DEF ReadSummary, TypeOK
    <2>2. /\ task'[o].src = source /\ task'[o].left = exact /\ task'[o].plan = task[o].plan
          /\ \A p \in Owners : task'[p].pc = "day" => p = o
      <3>1. task[o] \in Task
        BY DEF TypeOK
      <3> HIDE DEF exact
      <3> QED BY <1>6, <2>1, <3>1 DEF Task, Refreshing
    <2>3. ASSUME NEW t \in Thermostats, NEW row \in Standing(t), row.base # None
          PROVE  row.base.src <= source
      <3>1. CASE row = saved[t]
        BY <2>3, <3>1 DEF RowsIn, RowIn
      <3>2. ASSUME NEW s \in Slots, Editing(s), row = op[s].old.saved[t]
            PROVE  row.base.src <= source
        BY <2>3, <3>2 DEF ActionsOK, EditIn, RowsIn, RowIn
      <3> QED BY <3>1, <3>2 DEF Standing
    <2>4. ASSUME NEW t \in Thermostats \ exact, saved[t].base # None
          PROVE  saved[t].at # task[o].plan[t]
      <3>1. task[o].plan[t] = None
        OBVIOUS
      <3>2. saved[t] \in Row /\ saved[t].base.at = saved[t].at
        BY <2>4 DEF TypeOK, Rows, RowsIn, RowIn
      <3>3. saved[t].at \in Int
        BY <2>4, <3>2 DEF Row, Baseline, Moment
      <3> QED BY <3>1, <3>3, BoundsAssumption
    <2> HIDE DEF exact
    <2>5. ReadOK'
      <3>1. \A t \in exact : t \in Thermostats
        BY DEF exact
      <3> QED BY <1>1, <1>3, <2>2, <2>3, <2>4, <3>1 DEF ReadOK
    <2> QED BY <1>5, <2>5
  <1> QED BY <1>7, <1>8

\* A day is held as it was read, under the print of the summary read before.
LEMMA DayReadHeld ==
  ASSUME Inv, NEW o \in Owners, NEW t \in Thermostats, DayRead(o, t)
  PROVE  HeldOK' /\ ReadOK'
  <1> USE InvFacts
  <1>1. /\ Holds(o, "day") /\ task[o].pc = "day" /\ t \in task[o].left /\ task[o].zone = zone
        /\ source' = source
    BY DEF DayRead, Holds, worldVars
  <1>2. PICK rows \in Usable(o, t) :
           \/ /\ saved[t].at # task[o].plan[t] /\ UNCHANGED saved
              /\ DayEnds(o, t, saved, saved[t].at # None)
              /\ \E left \in {cache[t], NoDay} : cache' = [cache EXCEPT ![t] = left]
           \/ /\ saved[t].at = task[o].plan[t]
              /\ saved' = [saved EXCEPT ![t] = Reconciled(@, Assess(task[o].plan[t], rows))]
              /\ DayEnds(o, t, saved', Assess(task[o].plan[t], rows) = None)
              /\ cache' = [cache EXCEPT ![t] = [key |-> Key(o, t), rows |-> rows]]
    BY DayMet
  <1>3. EditsStay
    BY <1>2, DayEndsEdits
  <1>4. CASE saved[t].at # task[o].plan[t]
    <2>1. /\ saved' = saved /\ DayEnds(o, t, saved, saved[t].at # None)
          /\ cache' \in [Thermostats -> Day \cup {NoDay}]
          /\ \A u \in Thermostats : cache'[u] \in {cache[u], NoDay}
      BY <1>2, <1>4 DEF HeldOK
    <2>2. \A u \in Thermostats : \A row \in Standing(u)' : row \in Standing(u)
      BY <1>3, <2>1 DEF Standing, EditsStay
    <2>3. HeldOK'
      BY <1>1, <2>1, <2>2, HeldLater, Numbers
    <2>4. ReadOK'
      BY <1>1, <1>3, <1>4, <2>1, ReadGoesOn
    <2> QED BY <2>3, <2>4
  <1>5. CASE saved[t].at = task[o].plan[t]
    <2> DEFINE day == [key |-> Key(o, t), rows |-> rows]
    <2>1. /\ saved' = [saved EXCEPT ![t] = Reconciled(@, Assess(task[o].plan[t], rows))]
          /\ DayEnds(o, t, saved', Assess(task[o].plan[t], rows) = None)
          /\ cache' = [cache EXCEPT ![t] = day]
      BY <1>2, <1>5
    <2>2. /\ \A u \in Thermostats : u # t => saved'[u] = saved[u]
          /\ saved'[t].at = saved[t].at
          /\ saved'[t].base # None => saved'[t].base = [at |-> saved[t].at, src |-> rows]
      BY <1>1, <1>5, <2>1, Measured
    <2>3. /\ rows \in Version /\ rows <= source
          /\ \E shown \in 0..rows : Fingerprint[shown] = Fingerprint[task[o].src]
          /\ \A row \in Standing(t) :
               row.base # None /\ row.at = task[o].plan[t] => row.base.src <= rows
      BY <1>1, UsableSeen
    <2>4. Key(o, t).at = task[o].plan[t] /\ Key(o, t).print = Fingerprint[task[o].src]
      BY DEF Key
    <2>5. day \in Day
      <3>1. task[o].plan[t] \in Moment /\ zone \in Zones /\ task[o].src \in Version
        BY <1>1 DEF DaysOK, Refreshing, Plan, TypeOK
      <3> QED BY <1>1, <2>3, <3>1 DEF Day, Key
    <2>6. day.rows = rows /\ day.key = Key(o, t)
      OBVIOUS
    <2> HIDE DEF day
    <2>7. /\ cache' \in [Thermostats -> Day \cup {NoDay}] /\ cache'[t] = day
          /\ \A u \in Thermostats : u # t => cache'[u] = cache[u]
      BY <2>1, <2>5 DEF HeldOK
    <2>8. \A u \in Thermostats : \A row \in Standing(u)' :
             row \in Standing(u) \/ (u = t /\ row = saved'[t])
      BY <1>3, <2>2 DEF Standing, EditsStay
    <2>9. ASSUME NEW row \in Standing(t)', row.base # None, row.at = day.key.at
          PROVE  row.base.src <= day.rows
      <3>1. CASE row \in Standing(t)
        BY <2>3, <2>4, <2>6, <2>9, <3>1
      <3>2. CASE row = saved'[t]
        BY <2>2, <2>3, <2>6, <2>9, <3>2, BoundsAssumption DEF Version
      <3> QED BY <2>8, <3>1, <3>2
    <2>10. HeldOK'
      <3>1. ASSUME NEW u \in Thermostats, cache'[u] # NoDay
            PROVE  /\ cache'[u].rows <= source'
                   /\ \E shown \in 0..cache'[u].rows : Fingerprint[shown] = cache'[u].key.print
                   /\ \A row \in Standing(u)' :
                        row.base # None /\ row.at = cache'[u].key.at =>
                          row.base.src <= cache'[u].rows
        <4>1. CASE u = t
          BY <1>1, <2>3, <2>4, <2>6, <2>7, <2>9, <4>1
        <4>2. CASE u # t
          <5>1. cache'[u] = cache[u] /\ \A row \in Standing(u)' : row \in Standing(u)
            BY <2>7, <2>8, <4>2
          <5> QED BY <1>1, <3>1, <5>1 DEF HeldOK
        <4> QED BY <4>1, <4>2
      <3> QED BY <2>7, <3>1 DEF HeldOK
    <2>11. ReadOK'
      <3>1. saved'[t].base # None => saved'[t].base.src = rows
        BY <2>2
      <3> QED BY <1>1, <1>3, <2>1, <2>2, <2>3, <3>1, ReadGoesOn
    <2> QED BY <2>10, <2>11
  <1> QED BY <1>4, <1>5

\* What is held, and what a refresh relies on, after any step.
LEMMA NextHeld == ASSUME Inv, [Next]_vars PROVE HeldOK' /\ ReadOK'
  <1> USE InvFacts
  <1>1. ASSUME NEW o \in Owners, Refresh(o) PROVE HeldOK' /\ ReadOK'
    <2>1. CASE ReadRows(o) \/ RefreshFails(o)
      <3>1. saved' = saved /\ cache' = cache /\ op' = op /\ source' = source
        BY <2>1 DEF ReadRows, RefreshFails, entryVars, coordVars, worldVars
      <3>2. \A t \in Thermostats : \A row \in Standing(t)' : row \in Standing(t)
        BY <3>1 DEF Standing, Editing
      <3>3. \A p \in Owners : task'[p].pc # "day"
        <4>1. \A p \in Owners : p # o => task[p].pc \notin Refreshing
          BY <2>1 DEF ReadRows, RefreshFails, Holds, LockHeld
        <4>2. task'[o].pc # "day" /\ \A p \in Owners : p # o => task'[p] = task[p]
          BY <2>1, Blank DEF ReadRows, RefreshFails, TypeOK, Task, NoTask
        <4> QED BY <4>1, <4>2 DEF Refreshing
      <3>4. HeldOK'
        BY <3>1, <3>2, HeldLater, Numbers DEF HeldOK
      <3> QED BY <3>3, <3>4 DEF ReadOK
    <2>2. ASSUME NEW t \in Thermostats, DayUnread(o, t) PROVE HeldOK' /\ ReadOK'
      <3>1. /\ Holds(o, "day") /\ DayEnds(o, t, saved, TRUE) /\ saved' = saved
            /\ source' = source
            /\ cache' = cache \/ cache' = [cache EXCEPT ![t] = NoDay]
        BY <2>2 DEF DayUnread, entryVars
      <3>2. EditsStay
        BY <3>1, DayEndsEdits
      <3>3. \A u \in Thermostats : \A row \in Standing(u)' : row \in Standing(u)
        BY <3>1, <3>2 DEF Standing, EditsStay
      <3>4. HeldOK'
        BY <3>1, <3>3, HeldLater, Numbers DEF HeldOK
      <3>5. ReadOK'
        BY <3>1, <3>2, ReadGoesOn
      <3> QED BY <3>4, <3>5
    <2> QED BY <1>1, <2>1, <2>2, SummaryHeld, DayReadHeld DEF Refresh
  <1>2. CASE \A o \in Owners : ~Refresh(o)
    <2>1. \A t \in Thermostats : \A row \in Standing(t)' : row.base # None => row \in Standing(t)
      BY <1>2, OthersKeepEdits, OthersKeepRows, StandsStill
    <2>2. HeldOK'
      BY <1>2, <2>1, OthersKeepDays, HeldLater
    <2>3. ReadOK'
      BY <1>2, <2>1, OthersKeepDays, OthersKeepRows, ReadLater
    <2> QED BY <2>2, <2>3
  <1> QED BY <1>1, <1>2

\* The invariant the results below rest on: who holds the lock, what a row,
\* an edit, a snapshot and a planned day may speak of.
THEOREM InvHolds == Spec => []Inv
  <1>1. Inv /\ [Next]_vars => Inv'
    BY NextCore, NextHeld DEF Inv
  <1> QED BY <1>1, InitInv, PTL DEF Spec

(***************************************************************************)
(* What follows at once                                                    *)
(***************************************************************************)
\* A saved baseline was measured for the saved replacement time, whatever was
\* recorded, rolled back or read late meanwhile (BaselineMatchesBoundary).
THEOREM BaselineMatchesBoundaryHolds == Spec => []BaselineMatchesBoundary
  <1>1. Inv => BaselineMatchesBoundary
    BY InvFacts DEF RowsIn, RowIn, BaselineMatchesBoundary
  <1> QED BY <1>1, InvHolds, PTL

\* An open, set up coordinator has its projection timer armed for a deadline
\* after its projection (ProjectionScheduled).
THEOREM ProjectionScheduledHolds == Spec => []ProjectionScheduled
  <1>1. Inv => ProjectionScheduled
    BY InvFacts, BoundsAssumption DEF SnapshotOK, ProjectionScheduled
  <1> QED BY <1>1, InvHolds, PTL

(***************************************************************************)
(* The published snapshot                                                  *)
(***************************************************************************)
NotOlder ==
  data # NoData /\ data' # NoData => data'.src >= data.src /\ data'.at >= data.at

LEMMA Kept == ASSUME Inv, data' = data PROVE NotOlder
  <1>1. data # NoData => data.at \in Int /\ data.src \in Int
    BY InvFacts, BoundsAssumption DEF TypeOK, Moment, Version
  <1> QED BY <1>1 DEF NotOlder

LEMMA FinishNewer ==
  ASSUME Inv, NEW o \in Owners, NEW src \in Version, NEW rows, NEW pend,
         data # NoData => data.src <= src, Finish(o, src, rows, pend)
  PROVE  NotOlder
  <1>1. data'.src = src /\ data'.at = now
    BY DEF Finish, Publish, Build
  <1>2. data # NoData => data.at <= now /\ data.at \in Int /\ data.src \in Int
    BY InvFacts, BoundsAssumption DEF SnapshotOK, TypeOK, Moment, Version
  <1>3. src \in Int /\ now \in Int
    BY InvFacts, Numbers, BoundsAssumption DEF Version
  <1> QED BY <1>1, <1>2, <1>3 DEF NotOlder

LEMMA DayEndsNewer ==
  ASSUME Inv, NEW o \in Owners, NEW t, NEW rows, NEW pend,
         Holds(o, "day"), DayEnds(o, t, rows, pend)
  PROVE  NotOlder
  <1>1. task[o].src \in Version /\ (data # NoData => data.src <= task[o].src)
    BY InvFacts DEF Holds, DaysOK
  <1>2. CASE task[o].left = {t}
    BY <1>1, <1>2, FinishNewer DEF DayEnds
  <1>3. CASE task[o].left # {t}
    BY <1>3, Kept DEF DayEnds
  <1> QED BY <1>2, <1>3

\* Only a finished refresh and a projection publish a snapshot.
LEMMA NotOlderStep == ASSUME Inv, [Next]_vars PROVE NotOlder
  <1> USE InvFacts
  <1>1. ASSUME NEW o \in Owners, Refresh(o) PROVE NotOlder
    <2>1. CASE ReadRows(o)
      BY <2>1, Kept DEF ReadRows, coordVars
    <2>2. CASE RefreshFails(o)
      BY <2>2, Kept DEF RefreshFails
    <2>3. CASE ReadSummary(o)
      <3>1. source \in Version /\ (data # NoData => data.src <= source)
        BY DEF TypeOK, SnapshotOK
      <3> QED BY <2>3, <3>1, Kept, FinishNewer DEF ReadSummary
    <2>4. ASSUME NEW t \in Thermostats, DayUnread(o, t) PROVE NotOlder
      BY <2>4, DayEndsNewer DEF DayUnread
    <2>5. ASSUME NEW t \in Thermostats, DayRead(o, t) PROVE NotOlder
      <3>1. Holds(o, "day")
        BY <2>5 DEF DayRead
      <3> QED BY <2>5, <3>1, DayMet, DayEndsNewer
    <2> QED BY <1>1, <2>1, <2>2, <2>3, <2>4, <2>5 DEF Refresh
  <1>2. ASSUME data # NoData, open, now' = now, source' = source,
               \/ data' = data /\ proj' = proj
               \/ data' \in {data, Build(data.src)} /\ proj' = now + 1
        PROVE  NotOlder
    <2>1. data'.src = data.src /\ data'.at >= data.at
      BY <1>2, Reprojected
    <2>2. data.src \in Int
      BY <1>2, BoundsAssumption DEF TypeOK, Version
    <2> QED BY <2>1, <2>2 DEF NotOlder
  <1>3. ASSUME NEW s \in Slots, NEW kind, NEW t, NEW r, NEW at, Loaded, Mark(s, kind, t, r, at)
        PROVE  NotOlder
    BY <1>2, <1>3 DEF Mark, Loaded, Publish, Build, worldVars
  <1>4. ASSUME NEW s \in Slots, FilterAction(s) PROVE NotOlder
    <2>1. ASSUME NEW r \in Requests, NEW t \in Thermostats, SetDate(s, t, r) PROVE NotOlder
      BY <2>1, Kept DEF SetDate, coordVars
    <2>2. ASSUME NEW r \in Requests, NEW t \in Thermostats, PressButton(s, t, r)
          PROVE  NotOlder
      BY <2>2, <1>3 DEF PressButton
    <2>3. ASSUME NEW r \in Requests, NEW t \in Thermostats, NEW at \in 0..MaxNow,
                 Repair(s, t, r, at)
          PROVE  NotOlder
      BY <2>3, <1>3 DEF Repair
    <2>4. ASSUME NEW r \in Services, Record(s, r) PROVE NotOlder
      BY <2>4, <1>3 DEF Record
    <2>5. CASE Dismissed(s)
      BY <2>5, Kept DEF Dismissed, coordVars
    <2>6. CASE ActionFails(s)
      BY <2>6, Kept DEF ActionFails
    <2> QED BY <1>4, <2>1, <2>2, <2>3, <2>4, <2>5, <2>6 DEF FilterAction
  <1>5. CASE ProjectionDue \/ ZoneChange
    <2>1. /\ open /\ data # NoData /\ now' = now /\ source' = source
          /\ data' \in {data, Build(data.src)} /\ proj' = now + 1
      BY <1>5 DEF ProjectionDue, ZoneChange, Reproject, Build, FirstRefreshAlone, worldVars
    <2> QED BY <1>2, <2>1
  <1>6. CASE \/ \E r \in Services, t \in Thermostats, at \in 0..MaxNow : Capture(r, t, at)
             \/ RetryFires \/ StartImport \/ Unload
             \/ SaveOptions \/ StartAccountFlow \/ CredentialsValidated \/ ConfirmAccount
             \/ SourceMoves \/ Tick \/ UNCHANGED vars
    BY <1>6, Kept DEF Capture, RetryFires, StartImport, Unload, SaveOptions, StartAccountFlow,
       CredentialsValidated, ConfirmAccount, SourceMoves, Tick, vars, coordVars
  <1>7. CASE Setup
    BY <1>7 DEF Setup, NotOlder
  <1> QED BY <1>1, <1>4, <1>5, <1>6, <1>7 DEF Next

\* A published snapshot is never older than the one it replaces, whoever
\* refreshed, rebuilt or projected it (NeverOlder).
THEOREM NeverOlderHolds == Spec => NeverOlder
  <1>1. Inv /\ [Next]_vars => [NotOlder]_vars
    BY NotOlderStep
  <1> QED BY <1>1, InvHolds, PTL DEF Spec, NeverOlder, NotOlder

(***************************************************************************)
(* The saved rows                                                          *)
(***************************************************************************)
\* The written filter rows are lost in three ways only: a newer action on the
\* same thermostat, the rollback of the date edit that wrote the row, and an
\* account change whose user saw it (ReceiptsOwned).
THEOREM ReceiptsOwnedHolds == Spec => ReceiptsOwned
  <1> DEFINE Owned == \A t \in Thermostats :
                        saved'[t].req # saved[t].req =>
                          Replaced(t) \/ RolledBack(t) \/ Renounced
  <1>1. ASSUME Inv, [Next]_vars PROVE Owned
    <2> SUFFICES ASSUME NEW u \in Thermostats, saved'[u].req # saved[u].req
                 PROVE  Replaced(u) \/ RolledBack(u) \/ Renounced
      OBVIOUS
    <2>1. ASSUME NEW t \in Thermostats, NEW r \in Requests, NEW at \in Moment \cup {None},
                 Writes(t, r, at)
          PROVE  Replaced(u)
      <3>1. /\ accepted'[r] = accepted[r] + 1
            /\ saved'[t] = [req |-> r, at |-> at, base |-> None]
            /\ \A v \in Thermostats : v # t => saved'[v] = saved[v]
        <4>1. (at # None => at <= now) /\ Write(t, r, at) /\ Accept(r)
          BY <2>1 DEF Writes
        <4> QED BY <1>1, <4>1, Written
      <3> QED BY <1>1, <3>1, InvFacts, Numbers DEF Replaced
    <2>2. ASSUME NEW o \in Owners, NEW t \in Thermostats, NEW rows \in Usable(o, t),
                 Measures(o, t, rows)
          PROVE  FALSE
      BY <1>1, <2>2, Measured DEF Measures
    <2>3. ASSUME NEW s \in Slots, RollsBack(s) PROVE RolledBack(u)
      BY <1>1, <2>3, Restored DEF RolledBack, RollsBack, Unchallenged
    <2>4. CASE Drops
      BY <2>4 DEF Drops, Renounced, Options
    <2> QED BY <1>1, <2>1, <2>2, <2>3, <2>4, WaysToWrite
  <1>2. Inv /\ [Next]_vars => [Owned]_vars
    BY <1>1
  <1> QED BY <1>2, InvHolds, PTL DEF Spec, ReceiptsOwned

\* While a boundary stays, what its baseline says only moves forward: the
\* points that replace it or take it back are of as new a version of its day
\* (BaselineNeverOlder).
THEOREM BaselineNeverOlderHolds == Spec => BaselineNeverOlder
  <1> DEFINE Forward == \A t \in Thermostats :
                          /\ Boundary(saved'[t]) = Boundary(saved[t])
                          /\ saved[t].base # None /\ saved'[t].base # saved[t].base
                          => /\ cache'[t] # NoDay /\ cache'[t].key.at = saved[t].at
                             /\ cache'[t].rows >= saved[t].base.src
  <1>1. ASSUME Inv, [Next]_vars PROVE Forward
    <2> SUFFICES ASSUME NEW u \in Thermostats, saved[u].base # None,
                        saved'[u].base # saved[u].base,
                        saved'[u].at = saved[u].at, saved'[u].req = saved[u].req
                 PROVE  /\ cache'[u] # NoDay /\ cache'[u].key.at = saved[u].at
                        /\ cache'[u].rows >= saved[u].base.src
      BY DEF Boundary
    <2>1. /\ saved[u] \in Row /\ saved[u].base \in Baseline
          /\ saved[u].at = saved[u].base.at /\ saved[u].at # None
          /\ saved[u].base.src \in Int
      <3>1. saved[u] \in Row /\ saved[u].at = saved[u].base.at
        BY <1>1, InvFacts DEF TypeOK, Rows, RowsIn, RowIn
      <3> QED BY <3>1, BoundsAssumption DEF Row, Baseline, Moment, Version
    <2>2. ASSUME NEW t \in Thermostats, NEW r \in Requests, NEW at \in Moment \cup {None},
                 Writes(t, r, at)
          PROVE  FALSE
      <3>1. saved[t].req # r /\ (at # None => at <= now) /\ Write(t, r, at) /\ Accept(r)
        BY <2>2 DEF Writes
      <3>2. /\ saved'[t] = [req |-> r, at |-> at, base |-> None]
            /\ \A v \in Thermostats : v # t => saved'[v] = saved[v]
        BY <1>1, <3>1, Written
      <3> QED BY <3>1, <3>2
    <2>3. ASSUME NEW o \in Owners, NEW t \in Thermostats, NEW rows \in Usable(o, t),
                 Measures(o, t, rows)
          PROVE  /\ cache'[u] # NoDay /\ cache'[u].key.at = saved[u].at
                 /\ cache'[u].rows >= saved[u].base.src
      <3>1. u = t
        BY <1>1, <2>3, Measured DEF Measures
      <3>2. cache'[u] = [key |-> Key(o, u), rows |-> rows] /\ task[o].plan[u] = saved[u].at
        BY <1>1, <2>3, <3>1, InvFacts DEF Measures, HeldOK
      <3>3. rows \in Version /\ saved[u].base.src <= rows
        BY <1>1, <2>1, <2>3, <3>1, UsableSeen DEF Measures, Standing
      <3>4. cache'[u].rows = rows /\ cache'[u].key.at = saved[u].at /\ rows \in Int
        BY <3>2, <3>3 DEF Key, Version
      <3>5. cache'[u] # NoDay
        BY <3>4, BoundsAssumption DEF NoDay
      <3> QED BY <2>1, <3>3, <3>4, <3>5
    <2>4. ASSUME NEW s \in Slots, RollsBack(s) PROVE FALSE
      BY <1>1, <2>4, Restored
    <2>5. CASE Drops
      BY <2>1, <2>5 DEF Drops, NoRow
    <2> QED BY <1>1, <2>2, <2>3, <2>4, <2>5, WaysToWrite
  <1>2. Inv /\ [Next]_vars => [Forward]_vars
    BY <1>1
  <1> QED BY <1>2, InvHolds, PTL DEF Spec, BaselineNeverOlder

\* A refresh that could read every day publishes a summary whose corrections the
\* baselines have seen (CorrectionsReachBaselines).
THEOREM CorrectionsReachBaselinesHolds == Spec => CorrectionsReachBaselines
  <1> DEFINE Reach == \A o \in Owners, t \in Thermostats :
                        ReadAll(o) /\ saved'[t].base # None /\ saved'[t].at = task[o].plan[t] =>
                          \E shown \in 0..saved'[t].base.src :
                             Fingerprint[shown] = Fingerprint[data'.src]
  <1>1. ASSUME Inv, [Next]_vars PROVE Reach
    <2> USE <1>1, InvFacts
    <2> SUFFICES ASSUME NEW o \in Owners, NEW u \in Thermostats, ReadAll(o),
                        saved'[u].base # None, saved'[u].at = task[o].plan[u]
                 PROVE  \E shown \in 0..saved'[u].base.src :
                           Fingerprint[shown] = Fingerprint[data'.src]
      OBVIOUS
    <2>1. /\ task[o].pc = "day" /\ ~task[o].pend /\ task[o].zone = zone
          /\ task'[o].pc # "day" /\ open' /\ faults' = faults
      BY DEF ReadAll
    <2>2. PICK p \in Owners : Refresh(p)
      BY <2>1, OthersKeepDays
    <2>3. \A q \in Owners : q # o => task[q].pc \notin Refreshing
      BY <2>1 DEF LockHeld, Refreshing
    <2>4. p = o /\ ~ReadRows(p) /\ ~RefreshFails(p) /\ ~ReadSummary(p)
      <3>1. ~RefreshFails(p)
        <4>1. RefreshFails(p) => faults' = faults + 1
          BY DEF RefreshFails
        <4>2. faults + 1 # faults
          BY Numbers
        <4> QED BY <2>1, <4>1, <4>2
      <3>2. ASSUME ReadRows(p) PROVE FALSE
        <4>1. p # o
          BY <2>1, <3>2 DEF ReadRows, Holds
        <4> QED BY <2>1, <3>2, <4>1 DEF ReadRows, TypeOK
      <3>3. ~ReadSummary(p)
        BY <2>1, <2>3 DEF ReadSummary, Holds, Refreshing
      <3>4. p = o
        BY <2>2, <2>3, <3>1, <3>2, <3>3 DEF Refresh, DayUnread, DayRead, Holds, Refreshing
      <3> QED BY <3>1, <3>2, <3>3, <3>4
    <2>5. PICK t \in Thermostats : DayRead(o, t)
      <3>1. \A v \in Thermostats : ~DayUnread(o, v)
        <4>1. ASSUME NEW v \in Thermostats, DayUnread(o, v)
              PROVE  task[o].zone # zone \/ faults' = faults + 1
          BY <4>1 DEF DayUnread
        <4>2. faults + 1 # faults
          BY Numbers
        <4> QED BY <2>1, <4>1, <4>2
      <3> QED BY <2>2, <2>4, <3>1 DEF Refresh
    <2>6. Holds(o, "day") /\ t \in task[o].left
      BY <2>5 DEF DayRead
    <2>7. PICK rows \in Usable(o, t) :
             \/ /\ saved[t].at # task[o].plan[t] /\ UNCHANGED saved
                /\ DayEnds(o, t, saved, saved[t].at # None)
             \/ /\ saved[t].at = task[o].plan[t]
                /\ saved' = [saved EXCEPT ![t] = Reconciled(@, Assess(task[o].plan[t], rows))]
                /\ DayEnds(o, t, saved', Assess(task[o].plan[t], rows) = None)
      BY <2>5, DayMet
    <2>8. task[o].left = {t} /\ data'.src = task[o].src
      BY <2>1, <2>6, <2>7, DayEndsAt
    <2>9. CASE u # t
      <3>1. saved'[u] = saved[u] /\ u \in Thermostats \ task[o].left
        BY <2>1, <2>6, <2>7, <2>8, <2>9, Measured
      <3> QED BY <2>1, <2>8, <3>1 DEF ReadOK
    <2>10. CASE u = t
      <3>1. saved[t].at = task[o].plan[t]
        BY <2>7, <2>10
      <3>2. saved'[t].base = [at |-> saved[t].at, src |-> rows]
        BY <2>1, <2>6, <2>7, <2>10, <3>1, Measured
      <3>3. \E shown \in 0..rows : Fingerprint[shown] = Fingerprint[task[o].src]
        BY <2>1, <2>6, UsableSeen
      <3> QED BY <2>8, <2>10, <3>2, <3>3
    <2> QED BY <2>9, <2>10
  <1>2. Inv /\ [Next]_vars => [Reach]_vars
    BY <1>1
  <1> QED BY <1>2, InvHolds, PTL DEF Spec, CorrectionsReachBaselines

(***************************************************************************)
(* A request is written once                                               *)
(***************************************************************************)
\* Requests that were written keep what they ask for.
AskedStay == \A r \in Services : accepted[r] > 0 => content'[r] = content[r]

\* The boundaries stay, or one rollback is taken.
BoundariesStay ==
  \/ Boundaries(saved') = Boundaries(saved)
  \/ \E s \in Slots : /\ Editing(s) /\ Boundaries(saved) = Boundaries(op[s].new.saved)
                      /\ Boundaries(saved') = Boundaries(op[s].old.saved)

\* Boundaries that name accepted requests only do not name another one.
LEMMA Unnamed ==
  ASSUME Inv, NEW rows \in Rows, RowsIn(rows, accepted, now, source),
         NEW r \in Requests, accepted[r] = 0, NEW t \in Thermostats
  PROVE  rows[t].req # r /\ Boundaries(rows)[t].req # r
  <1>1. rows[t].req # None => accepted[rows[t].req] > 0
    BY DEF RowsIn, RowIn
  <1>2. rows[t].req # r
    BY <1>1, BoundsAssumption
  <1> QED BY <1>2 DEF Boundaries, Boundary

\* Neither does what an edit would restore, or left behind.
LEMMA EditUnnamed ==
  ASSUME Inv, NEW s \in Slots, Editing(s), NEW r \in Requests, accepted[r] = 0,
         NEW t \in Thermostats
  PROVE  Boundaries(op[s].old.saved)[t].req # r /\ Boundaries(op[s].new.saved)[t].req # r
  <1>1. EditIn(op[s], accepted, now, source)
    BY InvFacts DEF ActionsOK
  <1>2. op[s].old.saved \in Rows /\ RowsIn(op[s].old.saved, accepted, now, source)
        /\ op[s].req # r
    BY <1>1, BoundsAssumption DEF EditIn, Saved
  <1>3. op[s].old.saved[t].req # r /\ Boundaries(op[s].old.saved)[t].req # r
    BY <1>2, Unnamed
  <1>4. PICK u \in Thermostats :
          op[s].new.saved = [op[s].old.saved EXCEPT
                               ![u] = [req |-> op[s].req, at |-> None, base |-> None]]
    BY <1>1 DEF EditIn
  <1>5. op[s].new.saved[t].req # r
    BY <1>2, <1>3, <1>4 DEF Rows
  <1> QED BY <1>3, <1>5 DEF Boundaries, Boundary

\* Steps that write nothing keep what the pending rollbacks rely on.
LEMMA NoReplayKept ==
  ASSUME Inv, NoReplay, accepted' = accepted, account' = "first" => account = "first",
         EditsStay, AskedStay, BoundariesStay
  PROVE  NoReplay'
  <1>1. \A r \in Requests : accepted'[r] <= 1
    BY DEF NoReplay
  <1>2. ASSUME account' = "first"
        PROVE  \E L \in SUBSET Restorable' : Harmless(L)'
    <2>1. PICK K \in SUBSET Restorable : Harmless(K)
      BY <1>2 DEF NoReplay
    <2>0. PICK L : L = K \cap Restorable'
      OBVIOUS
    <2>2. Boundaries(saved') \in L
      <3>1. CASE Boundaries(saved') = Boundaries(saved)
        BY <2>0, <2>1, <3>1 DEF Harmless, Restorable
      <3>2. ASSUME NEW s \in Slots, Editing(s),
                   Boundaries(saved) = Boundaries(op[s].new.saved),
                   Boundaries(saved') = Boundaries(op[s].old.saved)
            PROVE  Boundaries(saved') \in L
        BY <2>0, <2>1, <3>2 DEF Harmless, ClosedUnderRollback, Restorable
      <3> QED BY <3>1, <3>2 DEF BoundariesStay
    <2>3. ASSUME NEW s \in Slots, Editing(s)', Boundaries(op'[s].new.saved) \in L
          PROVE  Boundaries(op'[s].old.saved) \in L
      <3>1. Editing(s) /\ op'[s].old = op[s].old /\ op'[s].new = op[s].new
        BY <2>3 DEF EditsStay
      <3>2. Boundaries(op'[s].old.saved) \in K
        BY <2>0, <2>1, <2>3, <3>1 DEF Harmless, ClosedUnderRollback
      <3>3. Boundaries(op'[s].old.saved) \in Restorable'
        BY <2>3 DEF Restorable
      <3> QED BY <2>0, <3>2, <3>3
    <2>4. ASSUME NEW b \in L, NEW r \in Services, accepted'[r] > 0
          PROVE  b[content'[r].t] # content'[r].prior
      BY <2>0, <2>1, <2>4 DEF Harmless, Unrepeatable, AskedStay
    <2>5. Harmless(L)'
      BY <2>2, <2>3, <2>4 DEF Harmless, ClosedUnderRollback, Unrepeatable
    <2> QED BY <2>0, <2>5
  <1> QED BY <1>1, <1>2 DEF NoReplay

\* What a request wrote just now is the boundary of no other request's prior.
LEMMA WrittenUnrepeatable ==
  ASSUME Inv, NEW t \in Thermostats, NEW r \in Requests, NEW at \in Moment \cup {None},
         at # None => at <= now, Write(t, r, at), Accept(r), accepted[r] = 0,
         content' = content, Unrepeatable(Boundaries(saved)),
         r \in Services => content[r] # None /\ content[r].t = t
  PROVE  /\ Unrepeatable(Boundaries(saved))' /\ Boundaries(saved')[t].req = r
         /\ \A q \in Requests : q # r => accepted'[q] = accepted[q]
         /\ accepted'[r] = 1
  <1> USE InvFacts
  <1>1. /\ accepted'[r] = accepted[r] + 1
        /\ saved'[t] = [req |-> r, at |-> at, base |-> None]
        /\ \A u \in Thermostats : u # t => saved'[u] = saved[u]
        /\ \A q \in Requests : q # r => accepted'[q] = accepted[q]
    BY Written
  <1>2. /\ Boundaries(saved')[t].req = r
        /\ \A u \in Thermostats : u # t => Boundaries(saved')[u] = Boundaries(saved)[u]
    BY <1>1 DEF Boundaries, Boundary
  <1>3. ASSUME NEW q \in Services, accepted'[q] > 0
        PROVE  Boundaries(saved')[content[q].t] # content[q].prior
    <2>1. content[q] # None
      BY <1>1, <1>3, BoundsAssumption DEF AskedOK
    <2>2. content[q] \in Asked
      BY <2>1 DEF TypeOK
    <2>3. content[q].t \in Thermostats /\ content[q].prior.req # r
      <3>1. content[q].prior.req # None => accepted[content[q].prior.req] > 0
        BY <2>1 DEF AskedOK
      <3> QED BY <2>2, <3>1, BoundsAssumption DEF Asked
    <2>4. CASE content[q].t = t
      BY <1>2, <2>3, <2>4
    <2>5. CASE content[q].t # t
      <3>1. q # r /\ accepted[q] > 0
        BY <1>1, <1>3, <2>5, BoundsAssumption
      <3> QED BY <1>2, <2>3, <2>5, <3>1 DEF Unrepeatable
    <2> QED BY <2>4, <2>5
  <1>4. Unrepeatable(Boundaries(saved))'
    BY <1>3 DEF Unrepeatable, Boundaries
  <1> QED BY <1>1, <1>2, <1>4

\* A recorded replacement leaves nothing that a rollback could bring back.
LEMMA MarkReplay ==
  ASSUME Inv, NoReplay, NEW s \in Slots, NEW kind \in {"button", "repair", "service"},
         NEW t \in Thermostats, NEW r \in Requests, NEW at \in Moment, at <= now,
         Loaded, op[s] = NoOp, accepted[r] = 0,
         r \in Services => content[r] # None /\ content[r].t = t, Mark(s, kind, t, r, at)
  PROVE  NoReplay'
  <1> USE InvFacts
  <1>1. /\ Write(t, r, at) /\ Accept(r) /\ content' = content
        /\ account = "first" /\ now' = now
    BY DEF Mark, Loaded, worldVars
  <1>2. PICK K \in SUBSET Restorable : Harmless(K)
    BY <1>1 DEF NoReplay
  <1>3. /\ Unrepeatable(Boundaries(saved))' /\ Boundaries(saved')[t].req = r
        /\ \A q \in Requests : q # r => accepted'[q] = accepted[q]
        /\ accepted'[r] = 1
    <2>1. Unrepeatable(Boundaries(saved))
      BY <1>2 DEF Harmless
    <2> QED BY <1>1, <2>1, WrittenUnrepeatable
  <1>4. ASSUME NEW u \in Slots, Editing(u)'
        PROVE  Boundaries(op'[u].new.saved) # Boundaries(saved')
    <2>1. op'[s] = [NoOp EXCEPT !.pc = IF kind = "repair" THEN "refresh" ELSE "dismiss",
                                !.kind = kind, !.req = r]
          /\ \A v \in Slots : v # s => op'[v] = op[v]
      BY DEF Mark, Begin, TypeOK
    <2>2. op'[s].kind # "date"
      BY <2>1 DEF NoOp
    <2>3. u # s /\ op'[u] = op[u] /\ Editing(u)
      BY <1>4, <2>1, <2>2 DEF Editing
    <2> QED BY <1>3, <2>3, EditUnnamed
  <1>5. PICK L : L = {Boundaries(saved')}
    OBVIOUS
  <1>6. Harmless(L)'
    <2>1. \A u \in Slots : (Editing(u) => Boundaries(op[u].new.saved) \notin L)'
      BY <1>4, <1>5
    <2>2. \A b \in L : Unrepeatable(b)'
      BY <1>3, <1>5
    <2> QED BY <1>5, <2>1, <2>2 DEF Harmless, ClosedUnderRollback
  <1>7. L \in SUBSET Restorable'
    BY <1>5 DEF Restorable
  <1>8. \A q \in Requests : accepted'[q] <= 1
    BY <1>3 DEF NoReplay
  <1> QED BY <1>6, <1>7, <1>8 DEF NoReplay

\* A date edit can bring back what it replaced, and nothing more.
LEMMA SetDateReplay ==
  ASSUME Inv, NoReplay, NEW s \in Slots, NEW t \in Thermostats, NEW r \in Requests,
         SetDate(s, t, r)
  PROVE  NoReplay'
  <1> USE InvFacts
  <1>1. /\ Write(t, r, None) /\ Accept(r) /\ content' = content /\ r \notin Services
        /\ account = "first" /\ accepted[r] = 0 /\ op[s] = NoOp
    BY DEF SetDate, Loaded, Fresh
  <1>2. PICK K \in SUBSET Restorable : Harmless(K)
    BY <1>1 DEF NoReplay
  <1> DEFINE new == Boundaries(saved')
  <1>3. PICK L : L = K \cup {new}
    OBVIOUS
  <1>4. /\ Unrepeatable(Boundaries(saved))' /\ Boundaries(saved')[t].req = r
        /\ \A q \in Requests : q # r => accepted'[q] = accepted[q]
        /\ accepted'[r] = 1
    <2>1. Unrepeatable(Boundaries(saved))
      BY <1>2 DEF Harmless
    <2> QED BY <1>1, <2>1, WrittenUnrepeatable
  <1>5. /\ Editing(s)' /\ op'[s].old.saved = saved
        /\ \A u \in Slots : u # s => op'[u] = op[u]
    <2>1. /\ op'[s] = [NoOp EXCEPT !.pc = "refresh", !.kind = "date", !.req = r,
                                   !.old = Options,
                                   !.new = [Options EXCEPT !.saved = saved']]
          /\ \A u \in Slots : u # s => op'[u] = op[u]
      BY DEF SetDate, TypeOK
    <2> QED BY <2>1 DEF Editing, NoOp, Options
  <1>6. ~Editing(s)
    BY <1>1, Blank DEF Editing
  <1>7. L \in SUBSET Restorable'
    <2>1. Boundaries(saved) \in Restorable' /\ new \in Restorable'
      BY <1>5 DEF Restorable
    <2>2. ASSUME NEW u \in Slots, Editing(u) PROVE Boundaries(op[u].old.saved) \in Restorable'
      <3>1. u # s /\ op'[u] = op[u] /\ Editing(u)'
        BY <1>5, <1>6, <2>2 DEF Editing
      <3>2. Boundaries(op'[u].old.saved) \in Restorable'
        BY <3>1 DEF Restorable
      <3> QED BY <3>1, <3>2
    <2> QED BY <1>2, <1>3, <2>1, <2>2 DEF Restorable
  <1>8. ASSUME NEW u \in Slots, Editing(u)', Boundaries(op'[u].new.saved) \in L
        PROVE  Boundaries(op'[u].old.saved) \in L
    <2>1. CASE u = s
      BY <1>2, <1>5, <1>3, <2>1 DEF Harmless
    <2>2. CASE u # s
      <3>1. op'[u] = op[u] /\ Editing(u)
        BY <1>5, <1>8, <2>2 DEF Editing
      <3>2. Boundaries(op[u].new.saved) # new
        BY <1>1, <1>4, <3>1, EditUnnamed
      <3>3. Boundaries(op[u].new.saved) \in K
        BY <1>8, <1>3, <3>1, <3>2
      <3> QED BY <1>2, <1>3, <3>1, <3>3 DEF Harmless, ClosedUnderRollback
    <2> QED BY <2>1, <2>2
  <1>9. ASSUME NEW b \in L PROVE Unrepeatable(b)'
    <2>1. CASE b = new
      BY <1>4, <2>1
    <2>2. CASE b \in K
      <3>1. \A q \in Services : accepted'[q] = accepted[q]
        BY <1>1, <1>4, BoundsAssumption
      <3>2. Unrepeatable(b)
        BY <1>2, <2>2 DEF Harmless
      <3> QED BY <1>1, <3>1, <3>2 DEF Unrepeatable
    <2> QED BY <1>3, <2>1, <2>2
  <1>10. Harmless(L)'
    BY <1>8, <1>9, <1>3 DEF Harmless, ClosedUnderRollback
  <1>11. \A q \in Requests : accepted'[q] <= 1
    BY <1>4 DEF NoReplay
  <1> QED BY <1>7, <1>10, <1>11 DEF NoReplay

LEMMA NoReplayStep == ASSUME Inv, NoReplay, [Next]_vars PROVE NoReplay'
  <1> USE InvFacts
  <1>1. ASSUME NEW o \in Owners, Refresh(o) PROVE NoReplay'
    <2>1. accepted' = accepted /\ account' = account /\ content' = content
      BY <1>1 DEF Refresh, ReadRows, RefreshFails, ReadSummary, DayUnread, DayRead, entryVars
    <2>2. AskedStay
      BY <2>1 DEF AskedStay
    <2>3. CASE ReadRows(o) \/ RefreshFails(o)
      <3>1. op' = op /\ saved' = saved
        BY <2>3 DEF ReadRows, RefreshFails, entryVars
      <3> QED BY <2>1, <2>2, <3>1, NoReplayKept DEF EditsStay, Editing, BoundariesStay
    <2>4. CASE ReadSummary(o)
      <3>1. EditsStay
        BY <2>4, DayEndsEdits DEF ReadSummary, EditsStay, Editing
      <3>2. saved' = saved
        BY <2>4 DEF ReadSummary, entryVars
      <3> QED BY <2>1, <2>2, <3>1, <3>2, NoReplayKept DEF BoundariesStay
    <2>5. ASSUME NEW t \in Thermostats, DayUnread(o, t) PROVE NoReplay'
      <3>1. EditsStay /\ saved' = saved
        BY <2>5, DayEndsEdits DEF DayUnread, entryVars
      <3> QED BY <2>1, <2>2, <3>1, NoReplayKept DEF BoundariesStay
    <2>6. ASSUME NEW t \in Thermostats, DayRead(o, t) PROVE NoReplay'
      <3>1. EditsStay
        BY <2>6, DayMet, DayEndsEdits
      <3>2. PICK rows \in Usable(o, t) :
              \/ saved' = saved
              \/ /\ saved[t].at = task[o].plan[t]
                 /\ saved' = [saved EXCEPT ![t] = Reconciled(@, Assess(task[o].plan[t], rows))]
        BY <2>6, DayMet
      <3>3. \A u \in Thermostats : Boundary(saved'[u]) = Boundary(saved[u])
        <4>1. task[o].pc = "day" /\ t \in task[o].left
          BY <2>6 DEF DayRead, Holds
        <4> QED BY <3>2, <4>1, Measured DEF Boundary
      <3>4. Boundaries(saved') = Boundaries(saved)
        BY <3>3 DEF Boundaries
      <3> QED BY <2>1, <2>2, <3>1, <3>4, NoReplayKept DEF BoundariesStay
    <2> QED BY <1>1, <2>3, <2>4, <2>5, <2>6 DEF Refresh
  <1>2. ASSUME NEW s \in Slots, FilterAction(s) PROVE NoReplay'
    <2>1. ASSUME NEW r \in Requests, NEW t \in Thermostats, SetDate(s, t, r)
          PROVE  NoReplay'
      BY <2>1, SetDateReplay
    <2>2. ASSUME NEW r \in Requests, NEW t \in Thermostats, PressButton(s, t, r)
          PROVE  NoReplay'
      <3>1. now \in Moment /\ now <= now
        BY Numbers DEF TypeOK
      <3> QED BY <2>2, <3>1, MarkReplay DEF PressButton, Fresh
    <2>3. ASSUME NEW r \in Requests, NEW t \in Thermostats, NEW at \in 0..MaxNow,
                 Repair(s, t, r, at)
          PROVE  NoReplay'
      BY <2>3, MarkReplay DEF Repair, Fresh, Moment
    <2>4. ASSUME NEW r \in Services, Record(s, r) PROVE NoReplay'
      <3> DEFINE t == content[r].t
                 at == content[r].at
      <3>1. /\ Loaded /\ op[s] = NoOp /\ content[r] # None /\ Mark(s, "service", t, r, at)
            /\ Boundary(saved[t]) = content[r].prior
        BY <2>4 DEF Record
      <3>2. t \in Thermostats /\ at \in Moment /\ at <= now /\ r \in Requests
        BY <3>1, BoundsAssumption DEF TypeOK, Asked, AskedOK
      <3>3. accepted[r] = 0
        <4>1. PICK K \in SUBSET Restorable : Harmless(K)
          BY <3>1 DEF NoReplay, Loaded
        <4>2. Unrepeatable(Boundaries(saved))
          BY <4>1 DEF Harmless
        <4>3. Boundaries(saved)[t] = content[r].prior
          BY <3>1, <3>2 DEF Boundaries
        <4> QED BY <3>2, <4>2, <4>3, Numbers DEF Unrepeatable
      <3> HIDE DEF t, at
      <3>4. content[r].t = t
        BY DEF t
      <3> QED BY <3>1, <3>2, <3>3, <3>4, MarkReplay
    <2>5. CASE Dismissed(s)
      <3>1. saved' = saved /\ account' = account /\ accepted' = accepted /\ content' = content
        BY <2>5 DEF Dismissed, entryVars
      <3>2. EditsStay
        BY <2>5 DEF Dismissed, EditsStay, Editing, TypeOK, Action
      <3> QED BY <3>1, <3>2, NoReplayKept DEF AskedStay, BoundariesStay
    <2>6. CASE ActionFails(s)
      <3>1. account' = account /\ accepted' = accepted /\ content' = content
        BY <2>6 DEF ActionFails
      <3>2. EditsStay
        BY <2>6, Blank DEF ActionFails, EditsStay, Editing, TypeOK
      <3>3. BoundariesStay
        <4>1. CASE saved' = saved
          BY <4>1 DEF BoundariesStay
        <4>2. CASE saved' # saved
          <5>1. /\ op[s].kind = "date" /\ Unchallenged(s) /\ saved' = op[s].old.saved
                /\ task[s].pc = "failed"
            BY <2>6, <4>2 DEF ActionFails
          <5>2. Editing(s)
            BY <5>1 DEF Editing, ActionsOK
          <5>3. saved = op[s].new.saved
            BY <5>1 DEF Unchallenged, Options
          <5> QED BY <5>1, <5>2, <5>3 DEF BoundariesStay
        <4> QED BY <4>1, <4>2
      <3> QED BY <3>1, <3>2, <3>3, NoReplayKept DEF AskedStay
    <2> QED BY <1>2, <2>1, <2>2, <2>3, <2>4, <2>5, <2>6 DEF FilterAction
  <1>3. ASSUME NEW r \in Services, NEW t \in Thermostats, NEW at \in 0..MaxNow,
               Capture(r, t, at)
        PROVE  NoReplay'
    <2>1. /\ saved' = saved /\ account' = account /\ accepted' = accepted /\ op' = op
          /\ content[r] = None
      BY <1>3 DEF Capture, entryVars
    <2>2. AskedStay
      BY <1>3, <2>1 DEF Capture, AskedStay, AskedOK, TypeOK
    <2> QED BY <2>1, <2>2, NoReplayKept DEF EditsStay, Editing, BoundariesStay
  <1>4. CASE \/ ProjectionDue \/ ZoneChange \/ RetryFires \/ StartImport \/ Setup
             \/ SaveOptions \/ StartAccountFlow \/ CredentialsValidated
             \/ SourceMoves \/ Tick \/ UNCHANGED vars
    <2>1. UNCHANGED <<saved, account, accepted, op, content>>
      BY <1>4 DEF ProjectionDue, ZoneChange, RetryFires, StartImport, Setup, SaveOptions,
         StartAccountFlow, CredentialsValidated, SourceMoves, Tick, vars, entryVars, workVars
    <2> QED BY <2>1, NoReplayKept DEF EditsStay, Editing, AskedStay, BoundariesStay
  <1>5. CASE Unload
    <2>1. UNCHANGED <<saved, account, accepted, content>>
      BY <1>5 DEF Unload
    <2>2. EditsStay
      <3>1. \A s \in Slots : /\ [op[s] EXCEPT !.closed = TRUE].pc = op[s].pc
                             /\ [op[s] EXCEPT !.closed = TRUE].kind = op[s].kind
                             /\ [op[s] EXCEPT !.closed = TRUE].old = op[s].old
                             /\ [op[s] EXCEPT !.closed = TRUE].new = op[s].new
        BY DEF TypeOK, Action
      <3> QED BY <1>5, <3>1, Blank DEF Unload, EditsStay, Editing
    <2> QED BY <2>1, <2>2, NoReplayKept DEF AskedStay, BoundariesStay
  <1>6. CASE ConfirmAccount
    <2>1. accepted' = accepted /\ op' = op /\ content' = content
      BY <1>6 DEF ConfirmAccount
    <2>2. (saved' = saved /\ account' = account) \/ account' = "second"
      BY <1>6 DEF ConfirmAccount
    <2>3. CASE saved' = saved /\ account' = account
      BY <2>1, <2>3, NoReplayKept DEF EditsStay, Editing, AskedStay, BoundariesStay
    <2>4. CASE account' = "second"
      BY <2>1, <2>4 DEF NoReplay
    <2> QED BY <2>2, <2>3, <2>4
  <1> QED BY <1>1, <1>2, <1>3, <1>4, <1>5, <1>6 DEF Next

LEMMA InitReplay == ASSUME Init PROVE NoReplay
  <1>1. /\ \A r \in Requests : accepted[r] = 0
        /\ \A s \in Slots : ~Editing(s)
    BY Blank DEF Init, Editing
  <1>2. PICK K : K = {Boundaries(saved)}
    OBVIOUS
  <1>3. Harmless(K)
    BY <1>1, <1>2, BoundsAssumption DEF Harmless, ClosedUnderRollback, Unrepeatable
  <1>4. K \in SUBSET Restorable
    BY <1>2 DEF Restorable
  <1> QED BY <1>1, <1>3, <1>4 DEF NoReplay

\* A request is written at most once, however often its client repeats it and
\* whatever is recorded or rolled back between (RequestAppliedOnce).  What it
\* rests on: no boundary that the pending rollbacks could bring back is the
\* one that a written service request replaced.
THEOREM RequestAppliedOnceHolds == Spec => []RequestAppliedOnce
  <1>1. Init => NoReplay
    BY InitReplay
  <1>2. Inv /\ NoReplay /\ [Next]_vars => NoReplay'
    BY NoReplayStep
  <1>3. NoReplay => RequestAppliedOnce
    BY DEF NoReplay, RequestAppliedOnce
  <1> QED BY <1>1, <1>2, <1>3, InvHolds, PTL DEF Spec

(***************************************************************************)
(* A pending boundary is retried                                           *)
(***************************************************************************)
\* While a refresh ends or goes on, those behind it still come.
LEMMA StillToCome ==
  ASSUME Inv, NEW o \in Owners, task[o].pc \in Refreshing, RefreshToCome,
         \A p \in Owners : p # o => task'[p] = task[p],
         \A s \in Slots : s # o => op'[s] = op[s]
  PROVE  RefreshToCome'
  <1>1. ASSUME NEW p \in Owners, task[p].pc = "queued" PROVE RefreshToCome'
    BY <1>1 DEF Refreshing, RefreshToCome
  <1>2. ASSUME NEW s \in Slots, op[s].pc = "dismiss" PROVE RefreshToCome'
    <2>1. task[s].pc = "none"
      BY <1>2, InvFacts DEF ActionsOK
    <2>2. s # o
      BY <2>1 DEF Refreshing
    <2> QED BY <1>2, <2>2 DEF RefreshToCome
  <1> QED BY <1>1, <1>2 DEF RefreshToCome

\* The refresh that ends arms the timer for what it leaves pending.
LEMMA FinishCovered ==
  ASSUME Inv, NEW o \in Owners, NEW src, NEW rows, NEW pend \in BOOLEAN,
         queue # <<>>, Head(queue) = o, task[o].pc \in Refreshing, Finish(o, src, rows, pend),
         rows = saved', saved' \in Rows, RowsIn(saved', accepted, now, source),
         UNCHANGED <<open, account, now>>,
         \A u \in Thermostats : PendingRow(u)' /\ ~pend => RefreshToCome
  PROVE  Covered'
  <1> USE InvFacts
  <1>1. /\ \A p \in Owners : p # o => task'[p] = task[p]
        /\ \A s \in Slots : s # o => op'[s] = op[s]
        /\ task'[o] = NoTask
    BY DEF Finish, TypeOK
  <1>2. \A p \in Owners : task'[p].pc \notin Refreshing
    <2>1. \A p \in Owners : p # o => task[p].pc \notin Refreshing
      BY DEF LockHeld
    <2> QED BY <1>1, <2>1, Blank DEF Refreshing
  <1>3. ASSUME NEW u \in Thermostats, PendingRow(u)'
        PROVE  RefreshToCome' \/ (now' - saved'[u].at <= FastWindow => retry')
    <2>1. CASE ~pend
      BY <1>1, <1>3, <2>1, StillToCome
    <2>2. CASE pend
      <3>1. retry' = (retry \/ FastRetryable(rows))
        BY <2>2 DEF Finish, ScheduleRetry
      <3>2. saved'[u].at <= now
        BY <1>3 DEF RowsIn, RowIn, PendingRow
      <3>3. now' - saved'[u].at <= FastWindow => FastRetryable(rows)
        BY <1>3, <3>2 DEF FastRetryable, PendingRow
      <3> QED BY <3>1, <3>3
    <2> QED BY <2>1, <2>2
  <1> QED BY <1>2, <1>3 DEF Covered

\* A day that is read, or given up, is covered by what the refresh does next.
LEMMA DayEndsCovered ==
  ASSUME Inv, Covered, NEW o \in Owners, NEW t \in Thermostats, NEW pend \in BOOLEAN,
         NEW rows, Holds(o, "day"), t \in task[o].left, DayEnds(o, t, rows, pend),
         rows = saved', saved' \in Rows, RowsIn(saved', accepted, now, source),
         UNCHANGED <<open, account, now, faults>>,
         \A u \in Thermostats : u # t => saved'[u] = saved[u],
         PendingRow(t)' => pend, faults = 0, open
  PROVE  Covered'
  <1> USE InvFacts
  <1>1. /\ queue # <<>> /\ Head(queue) = o /\ task[o].pc = "day" /\ task[o].pc \in Refreshing
        /\ \A p \in Owners : task[p].pc \in Refreshing => p = o
    BY DEF Holds, Refreshing, LockHeld
  <1>2. task[o].pend \in BOOLEAN /\ (task[o].pend \/ pend) \in BOOLEAN
    BY DEF TypeOK, Task
  <1>3. ASSUME NEW u \in Thermostats, PendingRow(u)', ~(task[o].pend \/ pend)
        PROVE  RefreshToCome \/ (u # t /\ u \in task[o].left)
    <2>1. u # t /\ saved'[u] = saved[u] /\ PendingRow(u)
      BY <1>3 DEF PendingRow
    <2>2. \/ RefreshToCome
          \/ \E p \in Owners : CoveredBy(p, u)
          \/ \A p \in Owners : task[p].pc \notin Refreshing
      BY <2>1 DEF Covered
    <2>3. ASSUME NEW p \in Owners, CoveredBy(p, u) PROVE u \in task[o].left
      <3>1. p = o
        BY <1>1, <2>3 DEF CoveredBy, Refreshing
      <3> QED BY <1>1, <1>3, <2>3, <3>1 DEF CoveredBy
    <2> QED BY <1>1, <2>1, <2>2, <2>3
  <1>4. CASE task[o].left = {t}
    <2>1. Finish(o, task[o].src, rows, task[o].pend \/ pend)
      BY <1>4 DEF DayEnds
    <2>2. \A u \in Thermostats : PendingRow(u)' /\ ~(task[o].pend \/ pend) => RefreshToCome
      BY <1>3, <1>4
    <2> QED BY <1>1, <1>2, <2>1, <2>2, FinishCovered
  <1>5. CASE task[o].left # {t}
    <2>1. /\ task' = [task EXCEPT ![o].left = @ \ {t}, ![o].pend = task[o].pend \/ pend]
          /\ op' = op
      BY <1>5 DEF DayEnds
    <2>2. /\ \A p \in Owners : p # o => task'[p] = task[p]
          /\ task'[o] = [task[o] EXCEPT !.left = @ \ {t}, !.pend = task[o].pend \/ pend]
      BY <2>1 DEF TypeOK
    <2>3. /\ task'[o].pc = "day" /\ task'[o].left = task[o].left \ {t}
          /\ task'[o].pend = (task[o].pend \/ pend)
      BY <1>1, <2>2 DEF TypeOK, Task
    <2>4. ASSUME NEW u \in Thermostats, PendingRow(u)'
          PROVE  RefreshToCome' \/ CoveredBy(o, u)'
      <3>1. CASE task[o].pend \/ pend
        BY <2>3, <3>1 DEF CoveredBy
      <3>2. CASE ~(task[o].pend \/ pend) /\ u # t /\ u \in task[o].left
        BY <2>3, <3>2 DEF CoveredBy
      <3>3. CASE RefreshToCome
        BY <1>1, <2>1, <2>2, <3>3, StillToCome
      <3> QED BY <1>3, <2>4, <3>1, <3>2, <3>3
    <2> QED BY <2>4 DEF Covered
  <1> QED BY <1>4, <1>5

\* Whoever asks for a refresh covers every boundary saved by then.
LEMMA RequestCovers ==
  ASSUME Inv, NEW o \in Owners, Request(o) PROVE Covered'
  <1>1. task'[o].pc = "queued"
    BY InvFacts, Requested
  <1> QED BY <1>1 DEF Covered, RefreshToCome

\* Nothing about the boundaries, the refreshes and the timer changed.
LEMMA CoveredKept ==
  ASSUME Inv, Covered, UNCHANGED <<saved, account, open, retry, task, op, faults>>,
         now' \in Int, now <= now'
  PROVE  Covered'
  <1> SUFFICES ASSUME faults = 0, open, NEW t \in Thermostats, PendingRow(t)
               PROVE  \/ RefreshToCome
                      \/ \E o \in Owners : CoveredBy(o, t)
                      \/ /\ \A o \in Owners : task[o].pc \notin Refreshing
                         /\ now' - saved[t].at <= FastWindow => retry
    BY DEF Covered, PendingRow, RefreshToCome, CoveredBy
  <1>1. saved[t].at \in Int /\ now \in Int /\ FastWindow \in Int
    BY InvFacts, BoundsAssumption DEF PendingRow, TypeOK, Rows, Row, Moment
  <1>2. now' - saved[t].at <= FastWindow => now - saved[t].at <= FastWindow
    BY <1>1
  <1> QED BY <1>2 DEF Covered

LEMMA CoveredStep == ASSUME Inv, Covered, [Next]_vars PROVE Covered'
  <1> USE InvFacts
  <1>1. ASSUME NEW o \in Owners, Refresh(o) PROVE Covered'
    <2>1. CASE ReadRows(o)
      <3>1. /\ task' = [task EXCEPT ![o].pc = "summary",
                          ![o].plan = [t \in Thermostats |->
                             IF account = "first" THEN saved[t].at ELSE None]]
            /\ saved' = saved /\ account' = account
        BY <2>1 DEF ReadRows, entryVars
      <3>2. /\ task'[o].pc = "summary"
            /\ \A t \in Thermostats :
                 task'[o].plan[t] = IF account = "first" THEN saved[t].at ELSE None
        BY <3>1 DEF TypeOK, Task
      <3>3. \A t \in Thermostats : PendingRow(t)' => CoveredBy(o, t)'
        BY <3>1, <3>2 DEF PendingRow, CoveredBy
      <3> QED BY <3>3 DEF Covered
    <2>2. CASE RefreshFails(o)
      <3>1. faults' # 0
        BY <2>2, Numbers DEF RefreshFails
      <3> QED BY <3>1 DEF Covered
    <2>3. CASE ReadSummary(o)
      <3> DEFINE exact == {t \in Thermostats : task[o].plan[t] # None}
      <3>1. /\ queue # <<>> /\ Head(queue) = o /\ task[o].pc = "summary"
            /\ task[o].pc \in Refreshing
            /\ \A p \in Owners : task[p].pc \in Refreshing => p = o
            /\ UNCHANGED <<saved, accepted, open, account, now, faults, source>>
        BY <2>3 DEF ReadSummary, Holds, Refreshing, LockHeld, entryVars, worldVars
      <3>2. SUFFICES ASSUME faults = 0, open PROVE Covered'
        BY <3>1 DEF Covered
      <3>3. ASSUME NEW u \in Thermostats, PendingRow(u)
            PROVE  RefreshToCome \/ u \in exact
        <4>1. \/ RefreshToCome
              \/ \E p \in Owners : CoveredBy(p, u)
              \/ \A p \in Owners : task[p].pc \notin Refreshing
          BY <3>2, <3>3 DEF Covered
        <4>2. ASSUME NEW p \in Owners, CoveredBy(p, u) PROVE u \in exact
          <5>1. p = o
            BY <3>1, <4>2 DEF CoveredBy, Refreshing
          <5> QED BY <3>1, <4>2, <5>1 DEF CoveredBy
        <4> QED BY <3>1, <4>1, <4>2
      <3>4. CASE exact = {}
        <4>1. Finish(o, source, saved, FALSE)
          BY <2>3, <3>4 DEF ReadSummary
        <4>2. \A u \in Thermostats : PendingRow(u)' /\ ~FALSE => RefreshToCome
          BY <3>1, <3>3, <3>4 DEF PendingRow
        <4>3. saved = saved' /\ saved' \in Rows /\ RowsIn(saved', accepted, now, source)
          BY <3>1 DEF TypeOK
        <4> QED BY <3>1, <4>1, <4>2, <4>3, FinishCovered
      <3>5. CASE exact # {}
        <4>1. /\ task' = [task EXCEPT ![o].pc = "day", ![o].src = source,
                                      ![o].zone = zone, ![o].left = exact]
              /\ op' = op
          BY <2>3, <3>5 DEF ReadSummary
        <4> HIDE DEF exact
        <4>2. /\ \A p \in Owners : p # o => task'[p] = task[p]
              /\ task'[o].pc = "day" /\ task'[o].left = exact
          BY <4>1 DEF TypeOK, Task
        <4>3. ASSUME NEW u \in Thermostats, PendingRow(u)'
              PROVE  RefreshToCome' \/ CoveredBy(o, u)'
          <5>1. PendingRow(u)
            BY <3>1, <4>3 DEF PendingRow
          <5>2. CASE RefreshToCome
            BY <3>1, <4>1, <4>2, <5>2, StillToCome
          <5>3. CASE u \in exact
            BY <4>2, <5>3 DEF CoveredBy
          <5> QED BY <3>3, <5>1, <5>2, <5>3
        <4> QED BY <4>3 DEF Covered
      <3> QED BY <3>4, <3>5
    <2>4. ASSUME NEW t \in Thermostats, DayUnread(o, t) PROVE Covered'
      <3>1. /\ Holds(o, "day") /\ t \in task[o].left /\ DayEnds(o, t, saved, TRUE)
            /\ saved' = saved /\ open' = open /\ account' = account /\ now' = now
            /\ faults' = faults \/ faults' = faults + 1
        BY <2>4 DEF DayUnread, entryVars
      <3>2. SUFFICES ASSUME faults = 0, faults' = 0, open PROVE Covered'
        BY <3>1, Numbers DEF Covered
      <3>3. saved = saved' /\ saved' \in Rows /\ RowsIn(saved', accepted, now, source)
        BY <3>1 DEF TypeOK
      <3> QED BY <3>1, <3>2, <3>3, DayEndsCovered
    <2>5. ASSUME NEW t \in Thermostats, DayRead(o, t) PROVE Covered'
      <3> DEFINE at == task[o].plan[t]
      <3>1. /\ Holds(o, "day") /\ t \in task[o].left /\ task[o].pc = "day"
            /\ UNCHANGED <<open, account, now, faults, accepted>>
        BY <2>5 DEF DayRead, Holds, worldVars
      <3>2. SUFFICES ASSUME faults = 0, open PROVE Covered'
        BY <3>1 DEF Covered
      <3>3. PICK rows \in Usable(o, t) :
              \/ /\ saved[t].at # at /\ UNCHANGED saved
                 /\ DayEnds(o, t, saved, saved[t].at # None)
              \/ /\ saved[t].at = at
                 /\ saved' = [saved EXCEPT ![t] = Reconciled(@, Assess(at, rows))]
                 /\ DayEnds(o, t, saved', Assess(at, rows) = None)
        BY <2>5, DayMet
      <3>4. CASE saved[t].at # at
        <4>1. DayEnds(o, t, saved, saved[t].at # None) /\ saved = saved'
          BY <3>3, <3>4
        <4>2. saved' \in Rows /\ RowsIn(saved', accepted, now, source)
          BY <4>1 DEF TypeOK
        <4>3. PendingRow(t)' => saved[t].at # None
          BY <4>1 DEF PendingRow
        <4> QED BY <3>1, <3>2, <4>1, <4>2, <4>3, DayEndsCovered
      <3>5. CASE saved[t].at = at
        <4>1. /\ saved' = [saved EXCEPT ![t] = Reconciled(@, Assess(at, rows))]
              /\ DayEnds(o, t, saved', Assess(at, rows) = None)
          BY <3>3, <3>5
        <4>2. /\ saved' \in Rows /\ RowsIn(saved', accepted, now, source)
              /\ \A u \in Thermostats : u # t => saved'[u] = saved[u]
              /\ saved'[t].base = Assess(at, rows)
          BY <3>1, <3>5, <4>1, Measured
        <4>3. PendingRow(t)' => Assess(at, rows) = None
          BY <4>2 DEF PendingRow
        <4> HIDE DEF at
        <4> QED BY <3>1, <3>2, <4>1, <4>2, <4>3, DayEndsCovered
      <3> QED BY <3>4, <3>5
    <2> QED BY <1>1, <2>1, <2>2, <2>3, <2>4, <2>5 DEF Refresh
  <1>2. ASSUME NEW s \in Slots, FilterAction(s) PROVE Covered'
    <2>1. s \in Owners
      BY DEF Owners
    <2>2. ASSUME NEW kind, NEW t, NEW r, NEW at, Mark(s, kind, t, r, at) PROVE Covered'
      <3>1. CASE kind = "repair"
        BY <2>1, <2>2, <3>1, RequestCovers DEF Mark
      <3>2. CASE kind # "repair"
        <4>1. op' = [op EXCEPT ![s] = [NoOp EXCEPT !.pc = "dismiss", !.kind = kind, !.req = r]]
          BY <2>2, <3>2 DEF Mark, Begin
        <4>2. op'[s].pc = "dismiss"
          BY <4>1 DEF TypeOK, NoOp
        <4> QED BY <4>2 DEF Covered, RefreshToCome
      <3> QED BY <3>1, <3>2
    <2>3. CASE ActionFails(s)
      <3>1. faults' = faults /\ faults > 0
        BY <2>3 DEF ActionFails, LockHeld, worldVars
      <3> QED BY <3>1 DEF Covered
    <2> QED BY <1>2, <2>1, <2>2, <2>3, RequestCovers
            DEF FilterAction, SetDate, PressButton, Repair, Record, Dismissed
  <1>3. CASE \/ \E r \in Services, t \in Thermostats, at \in 0..MaxNow : Capture(r, t, at)
             \/ ProjectionDue \/ ZoneChange
             \/ SaveOptions \/ StartAccountFlow \/ CredentialsValidated
             \/ SourceMoves \/ Tick \/ UNCHANGED vars
    <2>1. UNCHANGED <<saved, account, open, retry, task, op, faults>>
      BY <1>3 DEF Capture, ProjectionDue, ZoneChange, SaveOptions, StartAccountFlow,
         CredentialsValidated, SourceMoves, Tick, vars, entryVars, coordVars, workVars,
         worldVars
    <2>2. now' = now \/ now' = now + 1
      BY <1>3 DEF Capture, ProjectionDue, ZoneChange, SaveOptions, StartAccountFlow,
         CredentialsValidated, SourceMoves, Tick, vars, worldVars
    <2> QED BY <2>1, <2>2, CoveredKept, Numbers
  <1>4. CASE RetryFires \/ StartImport \/ Setup
    <2>1. Importer \in Owners /\ Timer \in Owners
      BY DEF Owners
    <2> QED BY <1>4, <2>1, RequestCovers DEF RetryFires, StartImport, Setup
  <1>5. CASE Unload
    BY <1>5 DEF Unload, Covered
  <1>6. CASE ConfirmAccount
    <2>1. CASE UNCHANGED <<saved, account>>
      BY <1>6, <2>1, CoveredKept, Numbers DEF ConfirmAccount, coordVars, worldVars
    <2>2. CASE account' = "second"
      BY <2>2 DEF Covered, PendingRow
    <2> QED BY <1>6, <2>1, <2>2 DEF ConfirmAccount
  <1> QED BY <1>1, <1>2, <1>3, <1>4, <1>5, <1>6 DEF Next

\* The timer that one refresh arms or cancels is the one that the boundaries
\* saved by then need, whatever filter actions were recorded around it, as long
\* as no read of the cloud failed (RetryArmed).
THEOREM RetryArmedHolds == Spec => []RetryArmed
  <1>1. Init => Covered
    BY DEF Init, NoRow, Covered, PendingRow
  <1>2. Inv /\ Covered /\ [Next]_vars => Covered'
    BY CoveredStep
  <1>3. Inv /\ Covered => RetryArmed
    <2> SUFFICES ASSUME Inv, Covered, faults = 0, open, Idle, FastRetryable(saved)
                 PROVE  retry
      BY DEF RetryArmed, PendingIsRetried
    <2>1. PICK t \in Thermostats : PendingRow(t) /\ now - saved[t].at <= FastWindow
      BY DEF FastRetryable, PendingRow
    <2>2. ~RefreshToCome /\ \A o \in Owners : ~CoveredBy(o, t)
      BY Blank DEF Idle, RefreshToCome, CoveredBy
    <2> QED BY <2>1, <2>2 DEF Covered
  <1> QED BY <1>1, <1>2, <1>3, InvHolds, PTL DEF Spec
=============================================================================
