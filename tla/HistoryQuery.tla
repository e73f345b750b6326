---------------------------- MODULE HistoryQuery ----------------------------
(***************************************************************************)
(* Queries of adopted hourly history, which take no lock, beside the       *)
(* writer, which may hold disputed hours or replace proofs meanwhile:      *)
(* HistoryWriter.material, check_material and save_holds, and the fences   *)
(* of HourlyImportManager by which a root that was declared disputed stays *)
(* rejected when neither its replacement nor the entry marker survives.    *)
(*                                                                         *)
(* HistoryJournal has the writer's recovery in full; here one adopted      *)
(* journal is kept down to what its saves make durable.  A cell is one     *)
(* quantity and month.  Roots compare by content, as their digests do.     *)
(***************************************************************************)
EXTENDS Integers, Sequences, FiniteSets

CONSTANTS
  Cells,       \* number of quantity/month cells
  MaxOps,      \* bound: operations accepted after the first
  MaxHolds,    \* bound: holds begun
  MaxFaults,   \* bound: failures, cancellations, restarts, foreign edits
  None

ASSUME CellsAssumption  == Cells \in Nat \ {0}
ASSUME BoundsAssumption == {MaxOps, MaxHolds, MaxFaults} \subseteq Nat
ASSUME NoneAssumption   == None \notin Nat

Cell    == 1..Cells
Foreign == -1          \* a native row no operation wrote

VARIABLES
  file,      \* the journal file
  fences,    \* tokens with a durable invalidation record
  marker,    \* the token of the entry marker, in memory
  flushed,   \* ... and as Home Assistant has saved it
  native,    \* Recorder's rows, by the operation that wrote them
  imports,   \* Recorder's queue, <<cell, operation>>
  task,      \* the tracked save or fence of hass.data
  cache,     \* the manager's _state
  loaded,    \* its _loaded
  invalid,   \* its _invalidated_history_token
  writer,    \* the coroutine under the entry lock
  query,     \* one lock-free query
  holds, faults,
  disputed   \* ghost: cells whose conflict was found and not resolved since

journal == <<file, fences, marker, flushed>>
world   == <<native, imports>>
manager == <<cache, loaded, invalid>>
vars == <<journal, world, task, manager, writer, query, holds, faults, disputed>>

\* left: windows of the operation that are not yet verified; pend: its intent.
FirstRoot == [token |-> 0, op |-> 0, left |-> {}, pend |-> 0,
              proof |-> [c \in Cell |-> 0], held |-> {}]

NoTask   == [kind |-> "none", root |-> None, token |-> None, landed |-> FALSE,
             state |-> "done"]
NoWriter == [pc |-> "idle", root |-> None, cell |-> 0]
NoQuery  == [pc |-> "idle", stage |-> 0, root |-> None, first |-> None,
             kept |-> {}, native |-> <<>>]

Init ==
  /\ file = FirstRoot /\ fences = {} /\ marker = 0 /\ flushed = 0
  /\ native = [c \in Cell |-> 0] /\ imports = <<>>
  /\ task = NoTask
  /\ cache = FirstRoot /\ loaded = TRUE /\ invalid = None
  /\ writer = NoWriter /\ query = NoQuery
  /\ holds = 0 /\ faults = 0 /\ disputed = {}

Fault == faults < MaxFaults /\ faults' = faults + 1

(***************************************************************************)
(* Saves and fences                                                        *)
(***************************************************************************)
SavePending == task.state = "running"

\* A query compares the tracked task and the cached root by identity: kept
\* are those that are still the objects it saw.
Replace(objects) == query' = [query EXCEPT !.kept = @ \ objects]

StartTask(t) == ~SavePending /\ task' = t

\* _save: a root that suppresses hours shows in the cache before it is durable.
SaveRoot(r, suppressing) ==
  /\ StartTask([NoTask EXCEPT !.kind = "root", !.root = r, !.state = "running"])
  /\ IF suppressing THEN cache' = r /\ Replace({"task", "cache"})
                    ELSE Replace({"task"}) /\ UNCHANGED cache

TaskLands ==
  /\ SavePending /\ ~task.landed
  /\ task' = [task EXCEPT !.landed = TRUE]
  /\ IF task.kind = "root"
     THEN file' = task.root /\ UNCHANGED fences
     ELSE fences' = fences \union {task.token} /\ UNCHANGED file
  /\ disputed' = IF task.kind = "root"
                 THEN {c \in disputed : task.root.proof[c] = file.proof[c]}
                 ELSE disputed
  /\ UNCHANGED <<marker, flushed, world, manager, writer, query, holds, faults>>

TaskDone ==
  /\ SavePending /\ task.landed
  /\ task' = [task EXCEPT !.state = "done"]
  /\ UNCHANGED <<journal, world, manager, writer, query, holds, faults, disputed>>

\* A write or its verification fails; the file may have been replaced.
TaskFails ==
  /\ SavePending
  /\ Fault
  /\ task' = [task EXCEPT !.state = "failed"]
  /\ UNCHANGED <<journal, world, manager, writer, query, holds, disputed>>

\* Home Assistant saves the entry some time after it was updated.
FlushMarker ==
  /\ flushed # marker
  /\ flushed' = marker
  /\ UNCHANGED <<file, fences, marker, world, task, manager, writer, query,
                 holds, faults, disputed>>

\* Before the await of _check_history_root_fence: the tracked task is not a
\* failed fence of this root.
FenceTaskSound(r) ==
  ~(task.kind = "fence" /\ task.token = r.token /\ task.state = "failed")

\* HistoryWriter.root() for the writer, which nobody else's save can overtake.
Admitted(r) ==
  /\ ~SavePending
  /\ FenceTaskSound(r)
  /\ r.token \notin fences /\ r.token # invalid
  /\ marker = r.token

(***************************************************************************)
(* The writer: accept, advance and hold                                    *)
(***************************************************************************)
Wait(pc, r, c) == writer' = [pc |-> pc, root |-> r, cell |-> c]

\* accept: a plan is sealed against the root read first.
BeginAccept ==
  /\ writer = NoWriter /\ Admitted(file)
  /\ file.left = {} /\ file.op < MaxOps
  /\ Wait("sealing", file, 0)
  /\ UNCHANGED <<journal, world, task, manager, query, holds, faults, disputed>>

Accepted(r, batches) == [r EXCEPT !.op = @ + 1, !.left = batches]

\* ... and saved if that root is still the durable one.  finish_accept leaves
\* the marker of a journal that is adopted already.
SaveAccepted(batches) ==
  /\ writer.pc = "sealing" /\ Admitted(file) /\ file = writer.root
  /\ loaded' = TRUE
  /\ SaveRoot(Accepted(file, batches), TRUE)
  /\ Wait("accept", Accepted(file, batches), 0)
  /\ UNCHANGED <<journal, world, invalid, holds, faults, disputed>>

\* Mutant: the cursor moves on with the intent instead of with the proof.
IntendedPassed(r, c) == [r EXCEPT !.pend = c, !.left = @ \ {c}]

Intended(r, c) == [r EXCEPT !.pend = c]

\* _load and the intent of the next batch.
BeginAdvance ==
  LET root == IF loaded THEN cache ELSE file
      next == CHOOSE c \in root.left : \A d \in root.left : c <= d
      after == Intended(root, next)
  IN  /\ writer = NoWriter /\ Admitted(root)
      /\ root.left # {}
      /\ loaded' = TRUE
      /\ IF root.pend = 0
         THEN /\ SaveRoot(after, TRUE)
              /\ Wait("intent", after, next)
         ELSE /\ cache' = root /\ Replace(IF loaded THEN {} ELSE {"task", "cache"})
              /\ Wait("submit", root, next) /\ UNCHANGED task
      /\ UNCHANGED <<journal, world, invalid, holds, faults, disputed>>

\* HourlyRecorder: a snapshot queues a task behind every earlier import and
\* waits for it; it then reads metadata and rows in one job.  Imports queue.
Fenced          == imports = <<>>
Snapshot(c)     == native[c]
Enqueued(c, op) == Append(imports, <<c, op>>)

\* Only rows that do not hold the intended values are submitted.
Submit ==
  /\ writer.pc = "submit" /\ Fenced
  /\ imports' = IF Snapshot(writer.cell) = writer.root.op THEN imports
                ELSE Enqueued(writer.cell, writer.root.op)
  /\ Wait("readback", writer.root, writer.cell)
  /\ UNCHANGED <<journal, native, task, manager, query, holds, faults, disputed>>

Published(r, c) == [r EXCEPT !.proof[c] = r.op, !.left = @ \ {c}, !.pend = 0,
                             !.held = @ \ {c}]

Publish ==
  LET after == Published(cache, writer.cell)
  IN  /\ writer.pc = "readback" /\ Fenced
      /\ Snapshot(writer.cell) = writer.root.op
      /\ SaveRoot(after, FALSE) /\ Wait("publish", after, 0)
      /\ UNCHANGED <<journal, world, loaded, invalid, holds, faults, disputed>>

\* advance fails and journals the root of its cache as blocked.
ReadbackFails ==
  /\ writer.pc = "readback" /\ Fenced
  /\ Snapshot(writer.cell) # writer.root.op
  /\ SaveRoot(cache, TRUE) /\ Wait("blocked", cache, 0)
  /\ UNCHANGED <<journal, world, loaded, invalid, holds, faults, disputed>>

\* save_holds: fence the predecessor's token, ...
BeginHold(c) ==
  /\ writer = NoWriter /\ Admitted(file)
  /\ file.left = {} /\ c \notin file.held /\ holds < MaxHolds
  /\ holds' = holds + 1
  /\ StartTask([NoTask EXCEPT !.kind = "fence", !.token = file.token, !.state = "running"])
  /\ Replace({"task"})
  /\ invalid' = file.token
  /\ disputed' = disputed \union {c}
  /\ Wait("fence", file, c)
  /\ UNCHANGED <<journal, world, cache, loaded, faults>>

Held(r, c) == [r EXCEPT !.token = @ + 1, !.held = @ \union {c}]

\* ... then set the entry marker and save the root that holds the cell.
SaveHeld ==
  LET after == Held(writer.root, writer.cell)
  IN  /\ writer.pc = "fence" /\ task.state = "done"
      /\ marker' = after.token
      /\ StartTask([NoTask EXCEPT !.kind = "root", !.root = after, !.state = "running"])
      /\ cache' = writer.root /\ loaded' = TRUE /\ Replace({"task", "cache"})
      /\ Wait("hold", after, 0)
      /\ UNCHANGED <<file, fences, flushed, world, invalid, holds, faults, disputed>>

AwaitsSave  == writer.pc \in {"accept", "intent", "publish", "blocked", "hold"}
AwaitsTask  == AwaitsSave \/ writer.pc = "fence"

\* The writer's save is verified.
Saved ==
  /\ AwaitsSave
  /\ task.state = "done"
  /\ cache' = writer.root /\ Replace({"cache"})
  /\ writer' = IF writer.pc = "intent" THEN [writer EXCEPT !.pc = "submit"] ELSE NoWriter
  /\ UNCHANGED <<journal, world, task, loaded, invalid, holds, faults, disputed>>

\* ... or it is not; a failed advance saves its cached root as blocked.
SaveFailed ==
  /\ AwaitsTask
  /\ task.state = "failed"
  /\ loaded' = FALSE
  /\ IF writer.pc \in {"intent", "publish"}
     THEN SaveRoot(cache, TRUE) /\ Wait("blocked", cache, 0)
     ELSE writer' = NoWriter /\ UNCHANGED <<task, cache, query>>
  /\ UNCHANGED <<journal, world, invalid, holds, faults, disputed>>

\* A caller of accept or save_holds is cancelled; a tracked task goes on.
\* advance runs in tasks of the entry only, which end with it.
Cancel ==
  /\ writer.pc \in {"sealing", "accept", "fence", "hold"}
  /\ Fault
  /\ writer' = NoWriter
  /\ loaded' = (loaded /\ ~AwaitsTask)
  /\ UNCHANGED <<journal, world, task, cache, invalid, query, holds, disputed>>

(***************************************************************************)
(* The query.  root() is awaited three times: by material, and by          *)
(* check_material at its end and again after the projection.  Each awaits  *)
(* the executor twice: for the file, and for the invalidation record.      *)
(***************************************************************************)
\* A writer whose task is done resumes two turns of the loop later; a job
\* given to the executor after that comes back no sooner than in three.
WriterAwoken == AwaitsTask /\ ~SavePending

\* root() loads the file.
QueryLoads ==
  /\ query.pc \in {"idle", "answered", "check"}
  /\ ~SavePending
  /\ query' = IF query.pc = "check"
              THEN [query EXCEPT !.pc = "loaded", !.root = file, !.kept = {"cache"}]
              ELSE [NoQuery EXCEPT !.pc = "loaded", !.root = file]
  /\ UNCHANGED <<journal, world, task, manager, writer, holds, faults, disputed>>

QueryFails == query' = NoQuery

\* _check_history_root_fence up to its await, which looks for the record.
QueryAsks ==
  /\ query.pc = "loaded" /\ ~WriterAwoken
  /\ IF SavePending \/ ~FenceTaskSound(query.root)
     THEN QueryFails /\ UNCHANGED invalid
     ELSE IF query.root.token \in fences
     THEN QueryFails /\ invalid' = query.root.token
     ELSE query' = [query EXCEPT !.pc = "asked", !.kept = @ \union {"task"}] /\ UNCHANGED invalid
  /\ UNCHANGED <<journal, world, task, cache, loaded, writer, holds, faults, disputed>>

\* Mutant: absence of the record is taken at its word.
RootAdmittedUnfenced == marker = query.root.token

\* ... and after it, with root()'s check of the marker.
RootAdmitted ==
  /\ "task" \in query.kept
  /\ query.root.token # invalid
  /\ marker = query.root.token

\* Mutant: the durable root is not compared with the one that was read first.
CheckedUncompared == "cache" \in query.kept /\ ~SavePending

Checked ==
  /\ query.root = query.first
  /\ "cache" \in query.kept /\ ~SavePending

QueryRooted ==
  /\ query.pc = "asked"
  /\ \/ ~(RootAdmitted /\ (query.stage > 0 => Checked)) /\ QueryFails
     \/ /\ RootAdmitted
        /\ \/ /\ query.stage = 0
              /\ query' = [query EXCEPT !.pc = "reading", !.first = query.root]
           \/ /\ query.stage = 1 /\ Checked
              /\ query' = [query EXCEPT !.pc = "check", !.stage = 2]
           \/ /\ query.stage = 2 /\ Checked
              /\ query' = [query EXCEPT !.pc = "answered"]
  /\ UNCHANGED <<journal, world, task, manager, writer, holds, faults, disputed>>

\* One cell's native rows, behind Recorder's queue.  Holds and proofs are
\* immutable objects of the root.
QueryReads ==
  LET rows == Append(query.native, Snapshot(Len(query.native) + 1))
  IN  /\ query.pc = "reading" /\ Fenced
      /\ query' = [query EXCEPT
                     !.native = rows,
                     !.pc = IF Len(rows) = Cells THEN "check" ELSE "reading",
                     !.stage = IF Len(rows) = Cells THEN 1 ELSE 0]
      /\ UNCHANGED <<journal, world, task, manager, writer, holds, faults, disputed>>

\* _hour: a bucket of the cell is ready.
Ready(r, rows, c) == c \notin r.left /\ c \notin r.held /\ rows[c] = r.proof[c]

(***************************************************************************)
(* Recorder, reloads and crashes                                           *)
(***************************************************************************)
RecorderRuns ==
  /\ imports # <<>>
  /\ native' = [native EXCEPT ![Head(imports)[1]] = Head(imports)[2]]
  /\ imports' = Tail(imports)
  /\ UNCHANGED <<journal, task, manager, writer, query, holds, faults, disputed>>

ForeignEdit(c) ==
  /\ Fault
  /\ native' = [native EXCEPT ![c] = Foreign]
  /\ UNCHANGED <<journal, imports, task, manager, writer, query, holds, disputed>>

\* A replacement manager; the tracked task and Recorder's queue survive.
Reload ==
  /\ Fault
  /\ cache' = None /\ loaded' = FALSE /\ invalid' = None
  /\ writer' = NoWriter /\ query' = NoQuery
  /\ UNCHANGED <<journal, world, task, holds, disputed>>

\* The process dies.  A hold survives once its invalidation record is durable.
Crash ==
  /\ Fault
  /\ marker' = flushed
  /\ imports' = <<>> /\ task' = NoTask
  /\ cache' = None /\ loaded' = FALSE /\ invalid' = None
  /\ writer' = NoWriter /\ query' = NoQuery
  /\ disputed' = {c \in disputed : c \in file.held \/ file.token \in fences}
  /\ UNCHANGED <<file, fences, flushed, native, holds>>

WriterStep ==
  \/ BeginAccept \/ \E batches \in SUBSET Cell : SaveAccepted(batches)
  \/ BeginAdvance \/ Submit \/ Publish \/ ReadbackFails
  \/ (\E c \in Cell : BeginHold(c)) \/ SaveHeld
  \/ Saved \/ SaveFailed \/ Cancel

QueryStep == QueryLoads \/ QueryAsks \/ QueryRooted \/ QueryReads

Next ==
  \/ WriterStep \/ QueryStep
  \/ TaskLands \/ TaskDone \/ TaskFails \/ FlushMarker
  \/ RecorderRuns \/ (\E c \in Cell : ForeignEdit(c)) \/ Reload \/ Crash

Spec == Init /\ [][Next]_vars

------------------------------------------------------------------------------
Answers == query'.pc = "answered" /\ query.pc # "answered"
ServedCells == {c \in Cell : Ready(query'.first, query'.native, c)}

\* A query answers from one root: the one that is durable as it answers, that
\* nothing has invalidated and no save is about to replace, although it was
\* read in pieces while the writer ran (check_material).
ServedIsCurrent ==
  [][Answers => /\ query'.first = file
                /\ file.token \notin fences
                /\ ~SavePending]_vars

\* From the moment a source conflict is found, no query calls the hour ready
\* until an operation has published a new proof of it; not after a failed or
\* cancelled save, a reload, nor a crash once the invalidation record is
\* durable (save_holds, _check_history_root_fence).
DisputedNotServed == [][Answers => ServedCells \intersect disputed = {}]_vars

\* What a query calls ready is, as it answers, what the last verified
\* operation put into Recorder, and no accepted operation is replacing it;
\* only somebody else may have edited it since it was read.
ReadyIsNative ==
  [][Answers => \A c \in ServedCells :
        /\ native[c] \in {file.proof[c], Foreign}
        /\ c \notin file.left]_vars
=============================================================================
