--------------------------- MODULE ObjectCollection ---------------------------
(***************************************************************************)
(* The immutable objects beside one entry's journal: staging and sealing   *)
(* them (HourlyStore.async_write_object), deleting those the durable root  *)
(* no longer reaches (HistoryWriter.collect, HourlyStore._collect_objects) *)
(* and holding deletion while Home Assistant reads a backup.               *)
(*                                                                         *)
(* Executor jobs run beside the event loop and outlive a cancelled caller  *)
(* and an unload: a write, a save, and the sweep, which looks at one file  *)
(* at a time and may be between its stop() check and its unlink.           *)
(*                                                                         *)
(* A name is a file: an Object (proof or operation), a Delta (manifest of  *)
(* an integration delta) or the Source with a delta's original bytes.      *)
(* Staged archive originals are never deletion candidates and are left out,*)
(* as are invalidation records, which a sweep keeps by their prefix.       *)
(***************************************************************************)
EXTENDS Integers, FiniteSets

CONSTANTS
  Object, Delta, Source,
  original,    \* original[d]: the content a delta's manifest names
  MaxOps,      \* bound: operations accepted in one behaviour
  MaxGen,      \* bound: manager generations
  MaxFaults,   \* bound: failed saves or unlinks, cancellations
  None         \* no file

ASSUME NamesAssumption ==
  /\ IsFiniteSet(Object) /\ IsFiniteSet(Delta)
  /\ Object \cap Delta = {} /\ Object \cap Source = {} /\ Delta \cap Source = {}
  /\ original \in [Delta -> Source]
  /\ None \notin Object \union Delta \union Source
ASSUME BoundsAssumption ==
  MaxOps \in Nat /\ MaxGen \in Nat /\ MaxFaults \in Nat

Manager == 1..MaxGen

\* What a root [keep, owed, deltas] reaches: the objects it names, the proofs
\* its unfinished operation still has to publish, and its source deltas.
Reach(r) == r.keep \union r.owed \union r.deltas
            \union {original[d] : d \in r.deltas}

VARIABLES
  files,      \* names in the object directories
  unsynced,   \* unlinked sources and manifests whose directory is not yet synced
  root,       \* the durable root
  save,       \* the tracked save task
  base,       \* base[d]: the source revision a delta was built on
  lone,       \* originals whose last write no manifest has followed (history)
  ops, gen, open, faults,
  pc, work, item, next,  \* per manager: names to write, the one being written, and
                         \* the root to install then
  seen,       \* per manager: what collect derived from the root it read
  sweep,      \* the running sweep
  jobs,       \* write jobs <<manager, operation, name>> in the executor
  paused, backup

vars == <<files, unsynced, root, save, base, lone, ops, gen, open, faults, pc, work,
          item, next, seen, sweep, jobs, paused, backup>>
disk == <<files, unsynced, root>>
life == <<ops, gen, open>>
hold == <<paused, backup>>
acquired == <<base, lone>>
writing == <<work, item, next>>
flow == <<pc, writing, seen>>

NoRoot  == [keep |-> {}, owed |-> {}, deltas |-> {}]
NoSave  == [on |-> FALSE, root |-> NoRoot, by |-> 0]
NoSweep == [by |-> 0, keep |-> {}, retired |-> {}, visit |-> {}, target |-> None]
NoSeen  == [root |-> NoRoot, retired |-> {}]

Init ==
  /\ files = {} /\ unsynced = {} /\ root = NoRoot /\ save = NoSave
  /\ base = << >> /\ lone = {}
  /\ ops = 0 /\ gen = 0 /\ open = 0 /\ faults = 0
  /\ pc = [m \in Manager |-> "idle"]
  /\ work = [m \in Manager |-> {}]
  /\ item = [m \in Manager |-> None]
  /\ next = [m \in Manager |-> NoRoot]
  /\ seen = [m \in Manager |-> NoSeen]
  /\ sweep = NoSweep /\ jobs = {}
  /\ paused = FALSE /\ backup = "no"

Fault == faults < MaxFaults /\ faults' = faults + 1

(***************************************************************************)
(* Writing: a refresh stages a delta, source before manifest, and accepts  *)
(* an operation whose objects are all written before its root is saved.    *)
(***************************************************************************)
\* Content is shared only by deltas that name the same baseline revision.
Stageable(d) ==
  /\ d \notin DOMAIN base
  /\ \A e \in DOMAIN base : original[e] = original[d] => base[e] = root.deltas

Begin(m) ==
  /\ open = m /\ pc[m] = "idle" /\ ops < MaxOps
  /\ ~save.on /\ root.owed = {}
  /\ \E added \in SUBSET Delta, kept \in SUBSET root.deltas,
        keep, owed \in SUBSET Object :
       /\ Cardinality(added) <= 1 /\ \A d \in added : Stageable(d)
       /\ keep # {} /\ owed \cap (keep \union root.keep) = {}
       /\ keep \ root.keep # {}               \* its own manifest is an object
       /\ next' = [next EXCEPT ![m] = [keep |-> keep, owed |-> owed,
                                       deltas |-> kept \union added]]
       /\ work' = [work EXCEPT ![m] = {original[d] : d \in added} \union added
                                      \union owed \union (keep \ root.keep)]
       /\ base' = [d \in DOMAIN base \union added |->
                     IF d \in added THEN root.deltas ELSE base[d]]
  /\ ops' = ops + 1
  /\ pc' = [pc EXCEPT ![m] = "write"]
  /\ UNCHANGED <<disk, save, lone, gen, open, faults, item, seen, sweep, jobs, hold>>

\* An original is written before its manifest, and both before the objects.
Turn(names) ==
  CASE names \cap Source # {} -> names \cap Source
    [] names \cap Source = {} /\ names \cap Delta # {} -> names \cap Delta
    [] OTHER -> names

Submit(m) ==
  /\ \E n \in Turn(work[m]) :
       /\ item' = [item EXCEPT ![m] = n]
       /\ work' = [work EXCEPT ![m] = @ \ {n}]
       /\ jobs' = jobs \union {<<m, ops, n>>}
  /\ pc' = [pc EXCEPT ![m] = "writing"]
  /\ UNCHANGED <<disk, save, acquired, life, faults, next, seen, sweep, hold>>

\* Mutant: a write does not wait for a running sweep.
WriteAtOnce(m) == pc[m] = "write" /\ Submit(m)

\* async_write_object: wait for a sweep that was running, then hand the write
\* to the executor; a manager closed while it waited does not notice.
Write(m) ==
  /\ pc[m] = "write"
  /\ sweep.by = 0 \/ open # m
  /\ Submit(m)

\* write_object: an existing file is verified, a missing one installed.
JobRuns ==
  \E j \in jobs :
    LET n == j[3]
    IN  /\ files' = files \union {n}
        /\ unsynced' = unsynced \ {n}
        /\ lone' = CASE n \in Source -> lone \union ({n} \ files)
                     [] n \in Delta /\ sweep.by = 0 -> lone \ {original[n]}
                     [] OTHER -> lone
        /\ jobs' = jobs \ {j}
        /\ UNCHANGED <<root, save, base, life, faults, flow, sweep, hold>>

\* The read that follows each write finds the object; after the last one the
\* root that reaches them is saved.
Written(m) ==
  /\ open = m /\ pc[m] = "writing"
  /\ <<m, ops, item[m]>> \notin jobs /\ item[m] \in files
  /\ item' = [item EXCEPT ![m] = None]
  /\ IF work[m] # {}
     THEN pc' = [pc EXCEPT ![m] = "write"] /\ UNCHANGED save
     ELSE /\ pc' = [pc EXCEPT ![m] = "saving"]
          /\ save' = [on |-> TRUE, root |-> next[m], by |-> m]
  /\ UNCHANGED <<disk, acquired, life, faults, work, next, seen, sweep, jobs, hold>>

\* advance reads one retained proof of the accepted operation and publishes it
\* with a save of its own.
Publish(m) ==
  /\ open = m /\ pc[m] = "idle" /\ ~save.on
  /\ \E p \in root.owed \cap files :
       save' = [on |-> TRUE, by |-> m,
                root |-> [root EXCEPT !.owed = @ \ {p}, !.keep = @ \union {p}]]
  /\ pc' = [pc EXCEPT ![m] = "saving"]
  /\ UNCHANGED <<disk, acquired, life, faults, writing, seen, sweep, jobs, hold>>

SaveEnds ==
  /\ save.on
  /\ \/ root' = save.root /\ UNCHANGED faults
     \/ Fault /\ root' \in {root, save.root}
  /\ save' = NoSave
  /\ pc' = [m \in Manager |-> IF m = save.by /\ pc[m] = "saving" THEN "idle" ELSE pc[m]]
  /\ UNCHANGED <<files, unsynced, acquired, life, writing, seen, sweep, jobs, hold>>

(***************************************************************************)
(* collect: at rest, name what the root does not reach, check the root     *)
(* again, and hand the sweep to the executor.                              *)
(***************************************************************************)
\* _stale_delta: built on another source revision than the root's.
Stale(d, r) == base[d] # r.deltas

\* unreachable_deltas: for each stale manifest <<d, d>>, and before it <<d, its
\* original>> unless a manifest that stays still names that original.
Retired(r) ==
  LET manifests  == files \cap Delta
      candidates == {d \in manifests \ r.deltas : Stale(d, r)}
      kept       == {original[d] : d \in (manifests \ candidates) \union r.deltas}
  IN  {<<d, d>> : d \in candidates}
      \union {<<d, original[d]>> : d \in {e \in candidates : original[e] \notin kept}}

\* root(): no save may be pending; collect runs only for a completed operation.
AtRest == ~save.on /\ root.owed = {} /\ root # NoRoot

Collect(m) ==
  /\ open = m /\ pc[m] = "idle" /\ AtRest
  /\ seen' = [seen EXCEPT ![m] = [root |-> root, retired |-> Retired(root)]]
  /\ pc' = [pc EXCEPT ![m] = "collect"]
  /\ UNCHANGED <<disk, save, acquired, life, faults, writing, sweep, jobs, hold>>

\* async_collect_objects: nothing to do when closed, paused or running.
StartSweep(m) ==
  /\ open = m /\ pc[m] = "collect"
  /\ IF ~AtRest \/ seen[m].root # root \/ paused \/ sweep.by # 0
     THEN pc' = [pc EXCEPT ![m] = "idle"] /\ UNCHANGED sweep
     ELSE /\ pc' = [pc EXCEPT ![m] = "sweeping"]
          /\ sweep' = [by |-> m, keep |-> root.keep, retired |-> seen[m].retired,
                       visit |-> Object, target |-> None]
  /\ seen' = [seen EXCEPT ![m] = NoSeen]
  /\ UNCHANGED <<disk, save, acquired, life, faults, writing, jobs, hold>>

Stop == paused \/ open # sweep.by

\* What may be retired now; manifests come in the order of their digests, which
\* here is any order.
Due(retired) ==
  {x \in retired : x[2] \in Delta => <<x[1], original[x[1]]>> \notin retired}

\* stop() is false: the sweep turns to a file, ...
SweepPick ==
  /\ sweep.by # 0 /\ sweep.target = None /\ ~Stop
  /\ \/ \E x \in Due(sweep.retired) :
          sweep' = [sweep EXCEPT !.target = x[2], !.retired = @ \ {x}]
     \/ /\ sweep.retired = {} /\ unsynced = {}
        /\ \E o \in sweep.visit :
             sweep' = [sweep EXCEPT !.target = IF o \in files \ sweep.keep THEN o
                                                                         ELSE None,
                                    !.visit = @ \ {o}]
  /\ UNCHANGED <<disk, save, acquired, life, faults, flow, jobs, hold>>

\* ... and unlinks it,
SweepUnlink ==
  /\ sweep.target # None
  /\ files' = files \ {sweep.target}
  /\ unsynced' = unsynced \union (({sweep.target} \cap files) \ Object)
  /\ lone' = lone \ {sweep.target}
  /\ sweep' = [sweep EXCEPT !.target = None]
  /\ UNCHANGED <<root, save, base, life, faults, flow, jobs, hold>>

\* Mutant: an error skips one retired name.
SweepErrorSkips ==
  /\ sweep.target # None
  /\ Fault
  /\ sweep' = [sweep EXCEPT !.target = None]
  /\ UNCHANGED <<disk, save, acquired, life, flow, jobs, hold>>

\* ... or fails to: an error skips one object, but ends the retired names.
SweepError ==
  /\ sweep.target # None
  /\ Fault
  /\ sweep' = [sweep EXCEPT !.target = None,
                            !.retired = IF sweep.target \in Object THEN @ ELSE {}]
  /\ UNCHANGED <<disk, save, acquired, life, flow, jobs, hold>>

\* After the retired names each changed directory is synced, manifests first.
SweepSync ==
  /\ sweep.by # 0 /\ sweep.target = None
  /\ sweep.retired = {} \/ Stop
  /\ unsynced # {}
  /\ unsynced' = IF unsynced \cap Delta # {} THEN unsynced \ Delta ELSE {}
  /\ UNCHANGED <<files, root, save, acquired, life, faults, flow, sweep, jobs, hold>>

\* The future is done: its callback unregisters it and its caller resumes.
SweepEnds ==
  /\ sweep.by # 0 /\ sweep.target = None /\ unsynced = {}
  /\ Stop \/ (sweep.retired = {} /\ sweep.visit = {})
  /\ sweep' = NoSweep
  /\ pc' = [m \in Manager |-> IF m = sweep.by /\ pc[m] = "sweeping" THEN "idle"
                                                                 ELSE pc[m]]
  /\ UNCHANGED <<disk, save, acquired, life, faults, writing, seen, jobs, hold>>

(***************************************************************************)
(* Backups, cancellation, reload, restart.                                 *)
(***************************************************************************)
\* Mutant: the backup does not wait for the running sweep.
PauseOnly ==
  /\ backup = "no"
  /\ paused' = TRUE /\ backup' = "reading"
  /\ UNCHANGED <<disk, save, acquired, life, faults, flow, sweep, jobs>>

Pause ==
  /\ backup = "no"
  /\ paused' = TRUE
  /\ backup' = IF sweep.by # 0 THEN "waiting" ELSE "reading"
  /\ UNCHANGED <<disk, save, acquired, life, faults, flow, sweep, jobs>>

BackupReads ==
  /\ backup = "waiting" /\ sweep.by = 0
  /\ backup' = "reading"
  /\ UNCHANGED <<disk, save, acquired, life, faults, flow, sweep, jobs, paused>>

EndBackup ==
  /\ backup = "reading"
  /\ paused' = FALSE /\ backup' = "no"
  /\ UNCHANGED <<disk, save, acquired, life, faults, flow, sweep, jobs>>

\* The coroutine ends; what it handed to the executor goes on.
Leave(m) ==
  /\ pc' = [pc EXCEPT ![m] = "idle"]
  /\ work' = [work EXCEPT ![m] = {}]
  /\ item' = [item EXCEPT ![m] = None]
  /\ next' = [next EXCEPT ![m] = NoRoot]
  /\ seen' = [seen EXCEPT ![m] = NoSeen]
  /\ UNCHANGED <<disk, save, acquired, life, sweep, jobs, hold>>

Cancel(m) == open = m /\ pc[m] # "idle" /\ Fault /\ Leave(m)

\* The next guard of a closed manager's coroutine raises.
Abandon(m) ==
  /\ open # m /\ pc[m] \in {"writing", "saving", "collect", "sweeping"}
  /\ UNCHANGED faults /\ Leave(m)

SetUp ==
  /\ open = 0 /\ gen < MaxGen
  /\ gen' = gen + 1 /\ open' = gen + 1
  /\ UNCHANGED <<disk, save, acquired, ops, faults, flow, sweep, jobs, hold>>

Unload ==
  /\ open # 0 /\ open' = 0
  /\ UNCHANGED <<disk, save, acquired, ops, gen, faults, flow, sweep, jobs, hold>>

\* Originals that a power cut brings back without a manifest: their directory is
\* synced after that of the manifests, and no later pass can name them.
Orphans(back, now) == (back \cap Source) \ {original[d] : d \in now \cap Delta}

\* Jobs and the unlink in hand may or may not have reached the file system; a
\* power cut also undoes unlinks that were not synced.
Crash ==
  /\ \E done \in SUBSET {j[3] : j \in jobs}, gone \in SUBSET ({sweep.target} \cap files),
        back \in SUBSET unsynced :
       LET now == ((files \ gone) \union done) \union back
       IN  /\ files' = now
           /\ unsynced' = (unsynced \union (gone \ Object)) \ (done \union back)
           /\ lone' = lone \union ((done \cap Source) \ files) \union Orphans(back, now)
  /\ open' = 0 /\ save' = NoSave /\ sweep' = NoSweep /\ jobs' = {}
  /\ pc' = [m \in Manager |-> "idle"]
  /\ work' = [m \in Manager |-> {}]
  /\ item' = [m \in Manager |-> None]
  /\ next' = [m \in Manager |-> NoRoot]
  /\ seen' = [m \in Manager |-> NoSeen]
  /\ paused' = FALSE /\ backup' = "no"
  /\ UNCHANGED <<root, base, ops, gen, faults>>

Next ==
  \/ \E m \in Manager :
       \/ Begin(m) \/ Write(m) \/ Written(m) \/ Publish(m) \/ Collect(m)
       \/ StartSweep(m) \/ Cancel(m) \/ Abandon(m)
  \/ JobRuns \/ SaveEnds \/ SweepPick \/ SweepUnlink \/ SweepError \/ SweepSync
  \/ SweepEnds \/ Pause \/ BackupReads \/ EndBackup \/ SetUp \/ Unload \/ Crash

Spec == Init /\ [][Next]_vars

(***************************************************************************)
(* Properties                                                              *)
(***************************************************************************)
\* Nothing that the durable root, or a root on its way to disk, reaches is
\* ever missing: not even an object that a cancelled collection's sweep was
\* about to delete when a new operation sealed the same content.
ReachablePresent ==
  /\ Reach(root) \subseteq files
  /\ save.on => Reach(save.root) \subseteq files

\* An original on disk is named by a manifest, so that a later collection can find
\* it: "an interrupted pass leaves the manifest that names any remaining original
\* for the next" (hourly_storage.py:155).  Left out are only originals that a write
\* put there whose manifest did not follow, because its staging ended or outlived
\* the collection, and those that a power cut brought back alone.
OriginalsNamed ==
  \A s \in files \cap Source : s \in lone \/ \E d \in files \cap Delta : original[d] = s

\* A backup that has begun to read sees no file disappear.
BackupSeesOneGeneration ==
  [][backup = "reading" => files \subseteq files']_files
=============================================================================
