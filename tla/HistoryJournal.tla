--------------------------- MODULE HistoryJournal ---------------------------
(***************************************************************************)
(* The hourly history journal of one config entry: accepting a sealed plan *)
(* (HistoryWriter.accept), advancing it one quantity/month batch at a time *)
(* (HistoryWriter.advance), and the manager that owns the cached root and  *)
(* its tracked save tasks (HourlyImportManager).  Every action runs from   *)
(* one await of the coroutine to the next.                                 *)
(*                                                                         *)
(* Four owners run beside the coroutine: the save task, which outlives a   *)
(* cancelled caller and an unload; Home Assistant's entry store, which     *)
(* flushes the marker later; Recorder's queue, which outlives an unload    *)
(* and dies with the process; and anyone else who writes statistics.       *)
(*                                                                         *)
(* One native cell stands for the rows of one quantity/month batch.        *)
(* Operation o intends the value o for every cell it has a batch for; its  *)
(* batches are the cells 1..count, in order.  The root's revision only     *)
(* tells successive roots apart and is left out: roots compare by content. *)
(***************************************************************************)
EXTENDS Integers, Sequences

CONSTANTS
  Cells,       \* number of quantity/month cells
  MaxOps,      \* bound: plans sealed in one behaviour
  MaxGen,      \* bound: manager generations (set up, reloaded, restarted)
  MaxFaults,   \* bound: failed saves or reads, cancellations, lost writes, edits,
               \* counted together with the generations
  Foreign      \* a native row no operation wrote

ASSUME CellsAssumption  == Cells \in Nat \ {0}
ASSUME BoundsAssumption == MaxOps \in Nat /\ MaxGen \in Nat /\ MaxFaults \in Nat
ASSUME ForeignAssumption == Foreign \notin Nat

Cell     == 1..Cells
Manager  == 1..MaxGen
Op       == 0..MaxOps            \* 0: nothing adopted, nothing written
Native   == Op \union {Foreign}

\* The durable root.  pend is the batch its intent names, 0 when it has none;
\* proofs[c] is the operation whose proof of cell c the root publishes.
Root == [phase  : {"prepared", "hourly"},
         op     : Op,
         count  : 0..Cells,
         cursor : 0..Cells,
         status : {"accepted", "in_progress", "completed", "blocked"},
         pend   : 0..Cells,
         proofs : [Cell -> Op]]

NoRoot == [phase |-> "hourly", op |-> 0, count |-> 0, cursor |-> 0,
           status |-> "completed", pend |-> 0, proofs |-> [c \in Cell |-> 0]]

SaveWait == {"prepSave", "adoptSave", "replaySave", "resumeSave",
             "intentSave", "proofSave", "failSave"}
PC       == {"idle", "sealed", "work", "readback", "publish"} \union SaveWait

VARIABLES
  disk,        \* the journal file
  sealed,      \* plans sealed so far; each is an operation of its own
  plan,        \* plan[o]: native rows recorded as "before" when o was sealed
  task,        \* the tracked save task of hass.data
  marker,      \* the entry marker in memory holds this adoption's token
  markerDisk,  \* ... and the marker Home Assistant has flushed
  native,      \* Recorder's rows
  queue,       \* Recorder's queued imports, <<cell, operation>>
  gen,         \* generations set up so far
  open,        \* the manager that admits work, 0 when the entry is unloaded
  cache,       \* cache[m]: the manager's _state
  loaded,      \* loaded[m]: its _loaded
  base,        \* base[m]: the root its accept planned against
  pc,          \* pc[m]: where the coroutine under the entry lock awaits
  faults       \* faults so far

durable == <<disk, sealed, plan, markerDisk, native>>
manager == <<cache, loaded, base, pc>>
vars == <<disk, sealed, plan, task, marker, markerDisk, native, queue, gen, open,
          cache, loaded, base, pc, faults>>

NoTask == [state |-> "idle", root |-> NoRoot]

Init ==
  /\ disk = NoRoot
  /\ sealed = 0
  /\ plan = [o \in Op |-> [c \in Cell |-> 0]]
  /\ task = NoTask
  /\ marker = FALSE
  /\ markerDisk = FALSE
  /\ native = [c \in Cell |-> 0]
  /\ queue = <<>>
  /\ gen = 0
  /\ open = 0
  /\ cache = [m \in Manager |-> NoRoot]
  /\ loaded = [m \in Manager |-> FALSE]
  /\ base = [m \in Manager |-> NoRoot]
  /\ pc = [m \in Manager |-> "idle"]
  /\ faults = 0

(***************************************************************************)
(* Roots                                                                   *)
(***************************************************************************)
SavePending == task.state = "running"

\* HistoryWriter.root() admits this durable root.
Readable(r) == IF r.op = 0 THEN ~marker ELSE marker \/ r.phase = "prepared"

\* Mutants of the root operators below: bugs the properties must see.
PreparedKeepsCursor(r, o, k) ==
  [r EXCEPT !.phase = "prepared", !.op = o, !.count = k,
            !.status = IF k = 0 THEN "completed" ELSE "accepted"]
SuppressingPrepared(r)  == r.phase = "prepared"
BlockedWithoutIntent(r) == [r EXCEPT !.status = "blocked", !.pend = 0]
VerifiedAll(r) ==
  [r EXCEPT !.proofs = [c \in Cell |-> IF c <= r.count THEN r.op ELSE r.proofs[c]],
            !.cursor = r.cursor + 1, !.pend = 0,
            !.status = IF r.cursor + 1 = r.count THEN "completed"
                                                 ELSE "in_progress"]

\* _save installs such a root in the cache before it yields.
Suppressing(r) == r.pend # 0 \/ r.phase = "prepared"

\* Batches whose window the durable root still suppresses.
Unfinished(r) == {c \in Cell : r.cursor < c /\ c <= r.count}

Prepared(r, o, k) ==
  [r EXCEPT !.phase = "prepared", !.op = o, !.count = k, !.cursor = 0,
            !.status = IF k = 0 THEN "completed" ELSE "accepted"]
Hourly(r)   == [r EXCEPT !.phase = "hourly"]
Blocked(r)  == [r EXCEPT !.status = "blocked"]
Resumed(r)  == [r EXCEPT !.status = "in_progress"]
Intended(r) == [r EXCEPT !.pend = r.cursor + 1, !.status = "in_progress"]
Verified(r) ==
  [r EXCEPT !.proofs = [r.proofs EXCEPT ![r.cursor + 1] = r.op],
            !.cursor = r.cursor + 1, !.pend = 0,
            !.status = IF r.cursor + 1 = r.count THEN "completed"
                                                 ELSE "in_progress"]

(***************************************************************************)
(* _save: register the task, then wait for it at "next".                   *)
(***************************************************************************)
StartSave(m, r, old, next) ==
  /\ task' = [state |-> "running", root |-> r]
  /\ cache' = [cache EXCEPT ![m] = IF Suppressing(r) THEN r ELSE old]
  /\ pc' = [pc EXCEPT ![m] = next]

\* Mutant: a failure that is not journalled.
FailSilently(m, r) ==
  /\ pc' = [pc EXCEPT ![m] = "idle"]
  /\ task' = NoTask
  /\ cache' = [cache EXCEPT ![m] = r]

\* advance's handler: journal the failure of the unfinished operation of r,
\* the manager's _state.
Fail(m, r) ==
  IF r.status # "completed"
  THEN StartSave(m, Blocked(r), r, "failSave")
  ELSE /\ pc' = [pc EXCEPT ![m] = "idle"]
       /\ task' = NoTask
       /\ cache' = [cache EXCEPT ![m] = r]

Fault == faults + gen < MaxFaults /\ faults' = faults + 1

(***************************************************************************)
(* accept: plan and seal against a settled root, install it prepared, set  *)
(* the marker, then save it hourly.                                        *)
(***************************************************************************)
\* Mutant: a plan is sealed over an operation that is not finished.
SealOverUnfinished(m) ==
  /\ open = m /\ pc[m] = "idle"
  /\ ~SavePending /\ Readable(disk)
  /\ disk.pend = 0 /\ disk.phase = "hourly"
  /\ sealed < MaxOps /\ queue = <<>>
  /\ \A c \in Cell : native[c] # 0 => disk.proofs[c] # 0
  /\ sealed' = sealed + 1
  /\ plan' = [plan EXCEPT ![sealed + 1] = native]
  /\ base' = [base EXCEPT ![m] = disk]
  /\ pc' = [pc EXCEPT ![m] = "sealed"]
  /\ UNCHANGED <<disk, task, marker, markerDisk, native, queue, gen, open,
                 cache, loaded, faults>>

Seal(m) ==
  /\ open = m /\ pc[m] = "idle"
  /\ ~SavePending /\ Readable(disk)
  /\ disk.pend = 0 /\ disk.phase = "hourly" /\ disk.status = "completed"
  /\ sealed < MaxOps
  /\ queue = <<>>                          \* the snapshots are fenced
  /\ \A c \in Cell : native[c] # 0 => disk.proofs[c] # 0
  /\ sealed' = sealed + 1
  /\ plan' = [plan EXCEPT ![sealed + 1] = native]
  /\ base' = [base EXCEPT ![m] = disk]
  /\ pc' = [pc EXCEPT ![m] = "sealed"]
  /\ UNCHANGED <<disk, task, marker, markerDisk, native, queue, gen, open,
                 cache, loaded, faults>>

Install(m) ==
  /\ open = m /\ pc[m] = "sealed"
  /\ ~SavePending /\ disk = base[m]
  /\ \E k \in 0..Cells :
       /\ disk.op = 0 => k # 0             \* an adoption has a batch
       /\ StartSave(m, Prepared(disk, sealed, k), disk, "prepSave")
  /\ loaded' = [loaded EXCEPT ![m] = TRUE]
  /\ base' = [base EXCEPT ![m] = NoRoot]
  /\ UNCHANGED <<durable, marker, queue, gen, open, faults>>

\* The prepared root is durable: finish_accept.
Adopt(m) ==
  /\ open = m /\ pc[m] = "prepSave" /\ task.state = "done"
  /\ marker' = TRUE
  /\ StartSave(m, Hourly(task.root), task.root, "adoptSave")
  /\ UNCHANGED <<durable, queue, gen, open, loaded, base, faults>>

\* accept with the durable operation's own id; a blocked one is resumed.
Replay(m) ==
  /\ open = m /\ pc[m] = "idle"
  /\ disk.op # 0 /\ ~SavePending /\ Readable(disk)
  /\ \/ /\ disk.phase = "prepared"
        /\ marker' = TRUE
        /\ StartSave(m, Hourly(disk), disk, "adoptSave")
     \/ /\ disk.phase = "hourly" /\ disk.status = "blocked"
        /\ StartSave(m, Resumed(disk), disk, "replaySave")
        /\ UNCHANGED marker
     \/ /\ disk.phase = "hourly" /\ disk.status # "blocked"
        /\ cache' = [cache EXCEPT ![m] = disk]
        /\ UNCHANGED <<marker, task, pc>>
  /\ loaded' = [loaded EXCEPT ![m] = TRUE]
  /\ UNCHANGED <<durable, queue, gen, open, base, faults>>

(***************************************************************************)
(* advance: at most one batch under the durable root.                      *)
(***************************************************************************)
Busy(r) == r.status \notin {"blocked", "completed"}
           \/ (r.status = "completed" /\ r.phase = "prepared")

\* has_pending_history: the worker calls advance only for such a cache.
HasPending(r) == r.op # 0 /\ Busy(r) /\ Readable(r) /\ ~SavePending

\* async_writer_partition, run by every import pass: _load a cold cache.
Partition(m) ==
  /\ open = m /\ pc[m] = "idle"
  /\ ~loaded[m] /\ ~SavePending
  /\ cache' = [cache EXCEPT ![m] = disk]
  /\ loaded' = [loaded EXCEPT ![m] = TRUE]
  /\ UNCHANGED <<durable, task, marker, queue, gen, open, base, pc, faults>>

\* advance: _load, and return when that root has nothing to do.
Advance(m) ==
  /\ open = m /\ pc[m] = "idle"
  /\ HasPending(cache[m])
  /\ LET r == IF loaded[m] THEN cache[m] ELSE disk
     IN /\ cache' = [cache EXCEPT ![m] = r]
        /\ pc' = [pc EXCEPT ![m] = IF Busy(r) THEN "work" ELSE "idle"]
  /\ loaded' = [loaded EXCEPT ![m] = TRUE]
  /\ UNCHANGED <<durable, task, marker, queue, gen, open, base, faults>>

\* The cold read fails; the handler still holds the previous cached root.
LoadFails(m) ==
  /\ open = m /\ pc[m] = "idle"
  /\ HasPending(cache[m]) /\ ~loaded[m]
  /\ Fault
  /\ Fail(m, cache[m])
  /\ UNCHANGED <<durable, marker, queue, gen, open, loaded, base>>

Resume(m) ==
  /\ open = m /\ pc[m] = "work" /\ cache[m].phase = "prepared"
  /\ marker' = TRUE
  /\ StartSave(m, Hourly(cache[m]), cache[m], "resumeSave")
  /\ UNCHANGED <<durable, queue, gen, open, loaded, base, faults>>

NextBatch(r) == r.cursor + 1

\* No intent yet: native rows must still be the reviewed ones.
Intend(m) ==
  /\ open = m /\ pc[m] = "work" /\ cache[m].phase = "hourly" /\ marker
  /\ cache[m].pend = 0 /\ queue = <<>>
  /\ LET c == NextBatch(cache[m])
     IN IF native[c] = plan[cache[m].op][c]
        THEN StartSave(m, Intended(cache[m]), cache[m], "intentSave")
        ELSE Fail(m, cache[m])
  /\ UNCHANGED <<durable, marker, queue, gen, open, loaded, base, faults>>

\* A durable intent: compare native rows, and submit those still "before".
Reconcile(m) ==
  /\ open = m /\ pc[m] = "work" /\ cache[m].phase = "hourly" /\ marker
  /\ cache[m].pend # 0 /\ queue = <<>>
  /\ LET c == cache[m].pend
         o == cache[m].op
     IN \/ /\ native[c] = o
           /\ pc' = [pc EXCEPT ![m] = "publish"]
           /\ UNCHANGED <<task, queue, cache>>
        \/ /\ native[c] = plan[o][c] /\ native[c] # o
           /\ queue' = Append(queue, <<c, o>>)
           /\ pc' = [pc EXCEPT ![m] = "readback"]
           /\ UNCHANGED <<task, cache>>
        \/ /\ native[c] \notin {o, plan[o][c]}     \* a third state
           /\ Fail(m, cache[m])
           /\ UNCHANGED queue
  /\ UNCHANGED <<durable, marker, gen, open, loaded, base, faults>>

\* Mutant: the readback is not compared with the intent.
ReadbackTrusting(m) ==
  /\ open = m /\ pc[m] = "readback" /\ queue = <<>>
  /\ pc' = [pc EXCEPT ![m] = "publish"]
  /\ UNCHANGED <<durable, task, cache, marker, queue, gen, open, loaded, base, faults>>

Readback(m) ==
  /\ open = m /\ pc[m] = "readback" /\ queue = <<>>
  /\ IF native[cache[m].pend] = cache[m].op
     THEN pc' = [pc EXCEPT ![m] = "publish"] /\ UNCHANGED <<task, cache>>
     ELSE Fail(m, cache[m])
  /\ UNCHANGED <<durable, marker, queue, gen, open, loaded, base, faults>>

Publish(m) ==
  /\ open = m /\ pc[m] = "publish"
  /\ StartSave(m, Verified(cache[m]), cache[m], "proofSave")
  /\ UNCHANGED <<durable, marker, queue, gen, open, loaded, base, faults>>

(***************************************************************************)
(* The coroutine resumes after its save.                                   *)
(***************************************************************************)
Saved(m) ==
  /\ open = m /\ pc[m] \in SaveWait \ {"prepSave"} /\ task.state = "done"
  /\ cache' = [cache EXCEPT ![m] = task.root]
  /\ pc' = [pc EXCEPT ![m] =
              IF pc[m] = "intentSave"
                 \/ (pc[m] = "resumeSave" /\ task.root.status # "completed")
              THEN "work" ELSE "idle"]
  /\ task' = NoTask
  /\ UNCHANGED <<durable, marker, queue, gen, open, loaded, base, faults>>

SaveRaised(m) ==
  /\ open = m /\ pc[m] \in SaveWait /\ task.state = "failed"
  /\ loaded' = [loaded EXCEPT ![m] = FALSE]
  /\ IF pc[m] \in {"resumeSave", "intentSave", "proofSave"}
     THEN Fail(m, cache[m])
     ELSE pc' = [pc EXCEPT ![m] = "idle"] /\ task' = NoTask /\ UNCHANGED cache
  /\ UNCHANGED <<durable, marker, queue, gen, open, base, faults>>

\* The context changed under the coroutine, or an object, a snapshot or a
\* proof could not be read: the next guard or read raises, also the guard that
\* follows a save.
StepRaises(m) ==
  /\ open = m
  /\ Fault
  /\ \/ /\ pc[m] = "sealed"
        /\ pc' = [pc EXCEPT ![m] = "idle"]
        /\ base' = [base EXCEPT ![m] = NoRoot]
        /\ UNCHANGED <<task, cache>>
     \/ /\ pc[m] = "prepSave" /\ task.state = "done"
        /\ pc' = [pc EXCEPT ![m] = "idle"]
        /\ task' = NoTask
        /\ cache' = [cache EXCEPT ![m] = task.root]
        /\ UNCHANGED base
     \/ /\ pc[m] \in {"work", "readback", "publish"}
        /\ Fail(m, cache[m])
        /\ UNCHANGED base
     \/ /\ pc[m] = "proofSave" /\ task.state = "done"
        /\ Fail(m, task.root)
        /\ UNCHANGED base
  /\ UNCHANGED <<durable, marker, queue, gen, open, loaded>>

\* Mutant: a cancelled save leaves the cache warm.
CancelKeepsCache(m) ==
  /\ open = m /\ pc[m] # "idle"
  /\ Fault
  /\ pc' = [pc EXCEPT ![m] = "idle"]
  /\ base' = [base EXCEPT ![m] = NoRoot]
  /\ UNCHANGED <<durable, task, marker, queue, gen, open, cache, loaded>>

\* CancelledError at any await: nothing is journalled, and a save the
\* coroutine waited for keeps running.
Cancel(m) ==
  /\ open = m /\ pc[m] # "idle"
  /\ Fault
  /\ loaded' = [loaded EXCEPT ![m] = loaded[m] /\ pc[m] \notin SaveWait]
  /\ pc' = [pc EXCEPT ![m] = "idle"]
  /\ base' = [base EXCEPT ![m] = NoRoot]
  /\ UNCHANGED <<durable, task, marker, queue, gen, open, cache>>

(***************************************************************************)
(* The save task, Recorder, Home Assistant and other writers.              *)
(***************************************************************************)
\* Store.async_save wrote the file and its uncached readback matched ...
SaveLands ==
  /\ SavePending
  /\ disk' = task.root
  /\ task' = [task EXCEPT !.state = "done"]
  /\ UNCHANGED <<sealed, plan, marker, markerDisk, native, queue, gen, open, manager,
                 faults>>

\* ... or the task raised, whether or not the file was replaced.
SaveFails ==
  /\ SavePending
  /\ Fault
  /\ disk' \in {disk, task.root}
  /\ task' = [task EXCEPT !.state = "failed"]
  /\ UNCHANGED <<sealed, plan, marker, markerDisk, native, queue, gen, open, manager>>

RecorderRuns ==
  /\ queue # <<>>
  /\ native' = [native EXCEPT ![Head(queue)[1]] = Head(queue)[2]]
  /\ queue' = Tail(queue)
  /\ UNCHANGED <<disk, sealed, plan, task, marker, markerDisk, gen, open, manager, faults>>

RecorderDrops ==
  /\ queue # <<>>
  /\ Fault
  /\ queue' = Tail(queue)
  /\ UNCHANGED <<durable, task, marker, gen, open, manager>>

ForeignWrite ==
  /\ Fault
  /\ \E c \in Cell : native' = [native EXCEPT ![c] = Foreign]
  /\ UNCHANGED <<disk, sealed, plan, task, marker, markerDisk, queue, gen, open, manager>>

FlushMarker ==
  /\ markerDisk # marker
  /\ markerDisk' = marker
  /\ UNCHANGED <<disk, sealed, plan, task, marker, native, queue, gen, open, manager,
                 faults>>

SetUp ==
  /\ open = 0 /\ gen < MaxGen
  /\ gen' = gen + 1
  /\ open' = gen + 1
  /\ UNCHANGED <<durable, task, marker, queue, manager, faults>>

\* close() stops admission; the coroutine, its save and the queue remain.
Unload ==
  /\ open # 0
  /\ open' = 0
  /\ UNCHANGED <<durable, task, marker, queue, gen, manager, faults>>

\* A closed manager's coroutine resumes: _admit raises, in the handler too.
Abandon(m) ==
  /\ open # m /\ pc[m] # "idle"
  /\ pc[m] \in SaveWait => ~SavePending
  /\ pc' = [pc EXCEPT ![m] = "idle"]
  /\ loaded' = [loaded EXCEPT ![m] = FALSE]
  /\ base' = [base EXCEPT ![m] = NoRoot]
  /\ UNCHANGED <<durable, task, marker, queue, gen, open, cache, faults>>

\* The process dies: memory, the queue and an unfinished save are gone.
Crash ==
  /\ open' = 0
  /\ task' = NoTask
  /\ queue' = <<>>
  /\ marker' = markerDisk
  /\ cache' = [m \in Manager |-> NoRoot]
  /\ loaded' = [m \in Manager |-> FALSE]
  /\ base' = [m \in Manager |-> NoRoot]
  /\ pc' = [m \in Manager |-> "idle"]
  /\ UNCHANGED <<durable, gen, faults>>

Step(m) == \/ Seal(m) \/ Install(m) \/ Adopt(m) \/ Replay(m)
           \/ Partition(m) \/ Advance(m) \/ LoadFails(m) \/ Resume(m)
           \/ Intend(m) \/ Reconcile(m) \/ Readback(m) \/ Publish(m)
           \/ Saved(m) \/ SaveRaised(m) \/ StepRaises(m) \/ Cancel(m)
           \/ Abandon(m)

Next == \/ \E m \in Manager : Step(m)
        \/ SaveLands \/ SaveFails \/ RecorderRuns \/ RecorderDrops
        \/ ForeignWrite \/ FlushMarker \/ SetUp \/ Unload \/ Crash

Spec == Init /\ [][Next]_vars

(***************************************************************************)
(* Fairness: the entry worker and the import cadence keep calling advance, *)
(* the event loop resumes every awaiting coroutine, the executor and       *)
(* Recorder finish what they were given, and Home Assistant sets a loaded  *)
(* entry up again.  Nobody is obliged to plan, to replay, to cancel, to    *)
(* unload, or to fail.                                                     *)
(***************************************************************************)
Work(m) == \/ Install(m) \/ Adopt(m) \/ Partition(m) \/ Advance(m)
           \/ Resume(m) \/ Intend(m) \/ Reconcile(m) \/ Readback(m)
           \/ Publish(m) \/ Saved(m) \/ SaveRaised(m) \/ Abandon(m)

Fairness == /\ \A m \in Manager : WF_vars(Work(m))
            /\ WF_vars(SaveLands \/ SaveFails)
            /\ WF_vars(RecorderRuns \/ RecorderDrops)
            /\ WF_vars(SetUp)

FairSpec == Spec /\ Fairness

(***************************************************************************)
(* Properties                                                              *)
(***************************************************************************)
TypeOK ==
  /\ disk \in Root
  /\ sealed \in Op
  /\ plan \in [Op -> [Cell -> Native]]
  /\ task \in [state : {"idle", "running", "done", "failed"}, root : Root]
  /\ marker \in BOOLEAN /\ markerDisk \in BOOLEAN
  /\ native \in [Cell -> Native]
  /\ queue \in Seq(Cell \X Op)
  /\ gen \in 0..MaxGen /\ open \in 0..MaxGen
  /\ cache \in [Manager -> Root]
  /\ loaded \in [Manager -> BOOLEAN]
  /\ base \in [Manager -> Root]
  /\ pc \in [Manager -> PC]
  /\ faults \in 0..MaxFaults

\* Write-ahead: whatever Recorder may still apply is named by the durable
\* root's own intent, so that every later runtime knows to reconcile it.
WriteAhead ==
  \A i \in 1..Len(queue) :
    disk.pend = queue[i][1] /\ disk.op = queue[i][2]

\* A published proof outside the windows the root suppresses is what Recorder
\* holds, unless somebody else wrote the rows.
ProofMatchesNative ==
  \A c \in Cell \ Unfinished(disk) : native[c] \in {disk.proofs[c], Foreign}

\* A warm cache is the durable root whenever no save is awaited; nothing
\* stale is served or built on without a cold load.
WarmCacheIsDurable ==
  \A m \in Manager : open = m /\ loaded[m] /\ pc[m] \notin SaveWait =>
                       cache[m] = disk /\ ~SavePending

\* An unfinished save never loses its place to a second one.
OneSaveAtATime == [][SavePending => task'.root = task.root \/ task' = NoTask]_vars

\* A durable intent leaves the journal only when the root that replaces it
\* publishes that batch's proof.
IntentSurvives ==
  [][disk.pend # 0 =>
       /\ disk'.op = disk.op
       /\ \/ disk'.pend = disk.pend
          \/ disk'.proofs[disk.pend] = disk.op /\ disk'.cursor = disk.pend]_disk

\* A cell's proof advances only from the durable intent for that cell, and
\* while Recorder holds the intended rows.
ProofNeedsIntent ==
  [][\A c \in Cell : disk'.proofs[c] > disk.proofs[c] =>
       /\ disk.pend = c /\ disk'.proofs[c] = disk.op
       /\ native[c] \in {disk.op, Foreign}]_disk

\* Once an operation is accepted no other one replaces it before every one
\* of its batches is verified.
OperationRunsToCompletion ==
  [][disk'.op # disk.op => disk.status = "completed" /\ Unfinished(disk) = {}]_disk

\* An accepted operation never hangs: it completes, or it is durably blocked
\* for a person to see, however its saves, its Recorder writes and its
\* runtimes fail.
Settled == \/ disk.status = "completed" /\ disk.phase = "hourly"
           \/ disk.status = "blocked"
           \/ ~Readable(disk)                 \* reported: history_marker_mismatch
           \/ open = 0 /\ gen = MaxGen        \* nobody sets it up any more
OperationSettles == ~Settled ~> Settled

\* architecture.md:122 "Prepared adoption and exact intent replay survive
\* interruption": the durable root stays admissible to the marker in force.
AdoptionSurvives == disk.op # 0 => Readable(disk)
=============================================================================
