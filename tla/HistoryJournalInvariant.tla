----------------------- MODULE HistoryJournalInvariant -----------------------
(***************************************************************************)
(* The inductive invariant of HistoryJournal, and the abstract ledger the  *)
(* journal implements.                                                     *)
(***************************************************************************)
EXTENDS HistoryJournal

\* A reader is shown the proofs of the durable root outside the windows it
\* suppresses (HistoryWriter.unfinished_windows).
Visible == [c \in Cell |-> IF c \in Unfinished(disk) THEN -1 ELSE disk.proofs[c]]

Ledger == INSTANCE HistoryLedger WITH current <- disk.op, visible <- Visible

\* The journal implements the ledger: windows are hidden from acceptance to
\* verification, and superseded rows never reappear, across failed saves,
\* cancellations, reloads and restarts.
ImplementsLedger == Ledger!LedgerSpec

\* validate_root, and what the writer maintains beyond it.
RootOK(r) ==
  /\ r.cursor <= r.count
  /\ r.status = "completed" <=> r.cursor = r.count
  /\ r.pend # 0 => r.pend = r.cursor + 1 /\ r.phase = "hourly"
  /\ r.status = "completed" => r.pend = 0
  /\ r.op = 0 => r.status = "completed" /\ r.phase = "hourly"

RootsOK ==
  /\ RootOK(disk) /\ RootOK(task.root)
  /\ \A m \in Manager : RootOK(cache[m])

\* Every operation a root names was sealed before it was accepted.
OpsAreSealed ==
  /\ disk.op <= sealed /\ task.root.op <= sealed
  /\ \A m \in Manager : cache[m].op <= sealed

\* The intents of r and of s name the same batch.
SameIntent(r, s) == r.op = s.op /\ r.pend = s.pend

\* A manager never holds another intent than the durable one, even stale.
CacheKeepsIntent ==
  \A m \in Manager :
    open = m /\ cache[m].op # 0 /\ disk.pend # 0 => SameIntent(cache[m], disk)

\* A root on its way to disk is what the open manager already answers with
\* whenever it carries an intent, ...
TaskIntentIsCached ==
  \A m \in Manager :
    SavePending /\ task.root.pend # 0 /\ open = m /\ cache[m].op # 0
      => SameIntent(cache[m], task.root)

\* ... and it either keeps the durable intent or publishes its proof, which
\* it may only do when Recorder has nothing left to apply.
TaskKeepsIntent ==
  SavePending /\ disk.pend # 0 =>
    \/ SameIntent(task.root, disk)
    \/ /\ queue = <<>>
       /\ task.root.op = disk.op
       /\ task.root.cursor = disk.pend
       /\ task.root.proofs[disk.pend] = disk.op

\* Only a finished operation is replaced by another one, also by a root that is
\* on its way to disk or that a failure handler would still journal.
UnfinishedKeepsPlace ==
  /\ SavePending /\ task.root.op # disk.op => disk.status = "completed"
  /\ \A m \in Manager : open = m /\ cache[m].status # "completed" =>
       /\ cache[m].op # disk.op => disk.status = "completed"
       /\ SavePending /\ cache[m].op # task.root.op =>
            task.root.status = "completed"

\* What a coroutine relies on when it resumes.
WaitersOK ==
  \A m \in Manager : open = m =>
    /\ pc[m] \in SaveWait => task.state # "idle"
    /\ pc[m] \in SaveWait /\ task.state = "done" => disk = task.root
    /\ pc[m] \in {"work", "readback", "publish", "intentSave", "resumeSave"}
         => loaded[m]
    /\ pc[m] = "work" => Busy(cache[m])
    /\ pc[m] = "intentSave" => Busy(task.root)
    /\ pc[m] = "resumeSave" => task.root.status # "blocked"
    /\ pc[m] \in {"readback", "publish"} => cache[m].pend # 0
    /\ pc[m] = "publish" => queue = <<>>
    /\ pc[m] = "sealed" =>
         sealed > 0 /\ base[m].pend = 0 /\ base[m].status = "completed"

\* A manager that was never set up has done nothing.
FreshManagers ==
  /\ open <= gen
  /\ \A m \in Manager : m > gen => cache[m] = NoRoot /\ pc[m] = "idle" /\ ~loaded[m]

Inv == /\ TypeOK
       /\ RootsOK
       /\ OpsAreSealed
       /\ WriteAhead
       /\ WarmCacheIsDurable
       /\ CacheKeepsIntent
       /\ TaskIntentIsCached
       /\ TaskKeepsIntent
       /\ UnfinishedKeepsPlace
       /\ WaitersOK
       /\ FreshManagers

(***************************************************************************)
(* The second layer: every root that is durable, on its way to disk, or    *)
(* still to be saved by the open manager agrees with Recorder.             *)
(***************************************************************************)
Sound(r) == \A c \in Cell \ Unfinished(r) : native[c] \in {r.proofs[c], Foreign}

SoundRoots ==
  /\ Sound(disk)
  /\ SavePending => Sound(task.root)
  /\ \A m \in Manager : open = m /\ cache[m].op # 0 => Sound(cache[m])
  /\ \A m \in Manager : open = m /\ pc[m] = "publish" =>
                          native[cache[m].pend] \in {cache[m].op, Foreign}

(***************************************************************************)
(* The third layer: the root on its way to disk, and the roots a failure   *)
(* handler would still journal, are at most one step of the ledger away    *)
(* from the durable root.                                                  *)
(***************************************************************************)
\* r and s show a reader the same; s is at most a change of phase or status.
Same(s, r) == s.op = r.op /\ s.count = r.count /\ s.cursor = r.cursor /\ s.proofs = r.proofs

\* r is s with the proof of the next batch published.
Ahead(r, s) ==
  /\ r.op = s.op /\ r.count = s.count
  /\ r.cursor = s.cursor + 1
  /\ r.proofs = [s.proofs EXCEPT ![r.cursor] = s.op]

\* s accepts a later operation over r, which is finished.
Replaces(s, r) ==
  s.op > r.op /\ r.cursor = r.count /\ s.cursor = 0 /\ s.proofs = r.proofs

\* Journaling s over r shows the same, withdraws the last proof, or accepts.
Revises(s, r) == Same(s, r) \/ Ahead(r, s) \/ Replaces(s, r)

\* No root publishes a proof of an operation that was accepted after its own.
ProofsNotNewer(r) == \A c \in Cell : r.proofs[c] <= r.op

Lineage ==
  /\ ProofsNotNewer(disk) /\ ProofsNotNewer(task.root)
  /\ \A m \in Manager : ProofsNotNewer(cache[m])
  /\ SavePending => \/ Revises(task.root, disk)
                    \/ Ahead(task.root, disk) /\ disk.pend = task.root.cursor
  /\ \A m \in Manager : open = m /\ cache[m].status # "completed" =>
       /\ Revises(cache[m], disk)
       /\ SavePending => Revises(cache[m], task.root)
  /\ \A m \in Manager : open = m /\ pc[m] = "sealed" => base[m].op < sealed
=============================================================================
