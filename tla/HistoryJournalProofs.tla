------------------------ MODULE HistoryJournalProofs ------------------------
(***************************************************************************)
(* The inductive invariant of the journal holds for every number of cells, *)
(* plans, manager generations and faults, and with it the write-ahead      *)
(* rule, the coherence of the manager's cache, the survival of intents and *)
(* the order of operations.  Over that invariant two more layers show that *)
(* the journal publishes what Recorder holds and implements the ledger.    *)
(***************************************************************************)
EXTENDS HistoryJournalInvariant, TLAPS

(***************************************************************************)
(* Roots.                                                                  *)
(***************************************************************************)
Status == {"accepted", "in_progress", "completed", "blocked"}

\* The absent root is a well-formed, finished root without an intent.
LEMMA NoRootOK ==
  /\ NoRoot \in Root /\ RootOK(NoRoot)
  /\ NoRoot.op = 0 /\ NoRoot.pend = 0 /\ NoRoot.status = "completed"
  BY CellsAssumption, BoundsAssumption DEF NoRoot, Root, RootOK, Cell, Op

\* finish_accept keeps everything but the phase.
LEMMA HourlyOK ==
  ASSUME NEW r \in Root, RootOK(r)
  PROVE  /\ Hourly(r) \in Root /\ RootOK(Hourly(r)) /\ SameIntent(Hourly(r), r)
  BY DEF Hourly, Root, RootOK, SameIntent

\* The failure handler keeps the intent of the operation it blocks.
LEMMA BlockedOK ==
  ASSUME NEW r \in Root, RootOK(r), r.status # "completed"
  PROVE  /\ Blocked(r) \in Root /\ RootOK(Blocked(r)) /\ SameIntent(Blocked(r), r)
         /\ r.op # 0
  BY DEF Blocked, Root, RootOK, SameIntent

\* Replaying a blocked operation keeps its intent.
LEMMA ResumedOK ==
  ASSUME NEW r \in Root, RootOK(r), r.status = "blocked"
  PROVE  /\ Resumed(r) \in Root /\ RootOK(Resumed(r)) /\ SameIntent(Resumed(r), r)
         /\ r.op # 0
  BY DEF Resumed, Root, RootOK, SameIntent

\* An unfinished operation can name its next batch as its intent.
LEMMA IntendedOK ==
  ASSUME NEW r \in Root, RootOK(r), r.status # "completed", r.phase = "hourly"
  PROVE  /\ Intended(r) \in Root /\ RootOK(Intended(r))
         /\ Intended(r).op = r.op /\ r.op # 0
  <1> DEFINE p == r.cursor + 1
  <1>1. p \in 0..Cells
    BY CellsAssumption DEF Root, RootOK
  <1>2. Intended(r) \in Root
    <2>1. Intended(r) = [r EXCEPT !.pend = p, !.status = "in_progress"]
      BY DEF Intended
    <2> HIDE DEF p
    <2> QED BY <1>1, <2>1 DEF Root
  <1>3. RootOK(Intended(r)) /\ Intended(r).op = r.op /\ r.op # 0
    BY CellsAssumption DEF Intended, Root, RootOK
  <1> QED BY <1>2, <1>3

\* Publishing consumes the intent and proves exactly its batch.
LEMMA VerifiedOK ==
  ASSUME NEW r \in Root, RootOK(r), r.pend # 0
  PROVE  /\ Verified(r) \in Root /\ RootOK(Verified(r))
         /\ Verified(r).op = r.op /\ Verified(r).phase = "hourly"
         /\ Verified(r).pend = 0 /\ Verified(r).cursor = r.pend
         /\ Verified(r).proofs[r.pend] = r.op
  <1> DEFINE q == [r.proofs EXCEPT ![r.cursor + 1] = r.op]
             s == IF r.cursor + 1 = r.count THEN "completed" ELSE "in_progress"
  <1>1. /\ r.pend = r.cursor + 1 /\ r.cursor < r.count
        /\ r.cursor + 1 \in 0..Cells /\ r.cursor + 1 \in Cell
        /\ r.phase = "hourly" /\ 0 \in 0..Cells
    BY CellsAssumption DEF Root, RootOK, Cell
  <1>2. q \in [Cell -> Op] /\ q[r.cursor + 1] = r.op /\ s \in Status
    BY <1>1 DEF Root, Status
  <1> DEFINE p == r.cursor + 1
  <1>3. Verified(r) = [r EXCEPT !.proofs = q, !.cursor = p, !.pend = 0,
                                !.status = s]
    BY DEF Verified
  <1>4. Verified(r) \in Root
    <2>1. p \in 0..Cells BY <1>1
    <2> HIDE DEF q, s, p
    <2> QED BY <1>1, <1>2, <1>3, <2>1 DEF Root, Status
  <1>5. /\ Verified(r).op = r.op /\ Verified(r).phase = r.phase
        /\ Verified(r).count = r.count /\ Verified(r).cursor = r.cursor + 1
        /\ Verified(r).pend = 0 /\ Verified(r).proofs = q /\ Verified(r).status = s
    <2> HIDE DEF q, s
    <2> QED BY <1>3 DEF Root
  <1>6. RootOK(Verified(r))
    BY <1>1, <1>5 DEF RootOK, Root
  <1> QED BY <1>1, <1>2, <1>4, <1>5, <1>6

\* An accepted operation starts at its first batch, without an intent.
LEMMA PreparedOK ==
  ASSUME NEW r \in Root, NEW o \in Op, o # 0, NEW k \in 0..Cells, r.pend = 0
  PROVE  /\ Prepared(r, o, k) \in Root /\ RootOK(Prepared(r, o, k))
         /\ Prepared(r, o, k).op = o /\ Prepared(r, o, k).pend = 0
  <1>1. 0 \in 0..Cells
    BY CellsAssumption
  <1>2. CASE k = 0
    <2>1. Prepared(r, o, k) \in Root
      BY <1>1, <1>2 DEF Root, Prepared
    <2>2. RootOK(Prepared(r, o, k)) /\ Prepared(r, o, k).op = o /\ Prepared(r, o, k).pend = 0
      BY <1>2 DEF Root, Prepared, RootOK
    <2> QED BY <2>1, <2>2
  <1>3. CASE k # 0
    <2>1. Prepared(r, o, k) \in Root
      BY <1>1, <1>3 DEF Root, Prepared
    <2>2. RootOK(Prepared(r, o, k)) /\ Prepared(r, o, k).op = o /\ Prepared(r, o, k).pend = 0
      BY <1>3 DEF Root, Prepared, RootOK
    <2> QED BY <2>1, <2>2
  <1> QED BY <1>2, <1>3

(***************************************************************************)
(* The three ways in which a coroutine moves: it starts a save, it goes on *)
(* without one, or it fails.                                               *)
(***************************************************************************)
\* Facts every step lemma starts from.
LEMMA InvFacts ==
  ASSUME Inv
  PROVE  /\ TypeOK /\ RootsOK /\ OpsAreSealed /\ WriteAhead /\ WarmCacheIsDurable
         /\ CacheKeepsIntent /\ TaskIntentIsCached /\ TaskKeepsIntent
         /\ UnfinishedKeepsPlace /\ WaitersOK /\ FreshManagers
  BY DEF Inv

\* _save by the open manager, with no other save unfinished, keeps the
\* invariant if the new root keeps the durable intent or publishes its proof.
LEMMA StartSaveStep ==
  ASSUME Inv, NEW m \in Manager, open = m, ~SavePending,
         NEW r \in Root, NEW old \in Root, NEW next \in SaveWait,
         RootOK(r), RootOK(old), r.op <= sealed, old.op <= sealed,
         disk.pend # 0 => \/ SameIntent(r, disk)
                          \/ /\ queue = <<>> /\ ~Suppressing(r)
                             /\ r.op = disk.op /\ r.cursor = disk.pend
                             /\ r.proofs[disk.pend] = disk.op,
         disk.pend # 0 => SameIntent(old, disk),
         r.op # disk.op => disk.status = "completed",
         old.op = r.op \/ old.status = "completed",
         next \in {"intentSave", "resumeSave"} => loaded'[m],
         next = "intentSave" => Busy(r),
         next = "resumeSave" => r.status # "blocked",
         StartSave(m, r, old, next),
         UNCHANGED <<durable, queue, gen, open>>,
         marker' \in BOOLEAN, faults' \in 0..MaxFaults,
         loaded' = loaded \/ \E b \in BOOLEAN : loaded' = [loaded EXCEPT ![m] = b],
         base' = base \/ base' = [base EXCEPT ![m] = NoRoot]
  PROVE  Inv'
  <1> USE InvFacts
  <1>1. TypeOK'
    BY NoRootOK DEF TypeOK, StartSave, durable, PC
  <1>2. RootsOK' /\ OpsAreSealed'
    BY DEF RootsOK, OpsAreSealed, StartSave, durable, TypeOK
  <1>3. WriteAhead'
    BY DEF WriteAhead, durable
  <1>4. WarmCacheIsDurable'
    BY DEF WarmCacheIsDurable, StartSave, TypeOK
  <1>5. CacheKeepsIntent'
    BY DEF CacheKeepsIntent, StartSave, durable, TypeOK
  <1>6. TaskIntentIsCached'
    BY DEF TaskIntentIsCached, StartSave, Suppressing, SameIntent, TypeOK
  <1>7. TaskKeepsIntent'
    BY DEF TaskKeepsIntent, StartSave, durable, SameIntent
  <1>8. WaitersOK'
    BY DEF WaitersOK, StartSave, TypeOK, SaveWait
  <1>10. UnfinishedKeepsPlace'
    <2>1. task'.root = r /\ disk' = disk /\ open' = open
          /\ cache'[m] \in {r, old}
      BY DEF StartSave, durable, TypeOK
    <2> QED BY <2>1 DEF UnfinishedKeepsPlace
  <1>9. FreshManagers'
    <2>1. open' <= gen' /\ gen' = gen
      BY DEF FreshManagers
    <2>2. ASSUME NEW n \in Manager, n > gen
          PROVE  cache'[n] = NoRoot /\ pc'[n] = "idle" /\ ~loaded'[n]
      <3>1. n # m
        BY <2>1, <2>2 DEF Manager, TypeOK
      <3>2. cache'[n] = cache[n] /\ pc'[n] = pc[n] /\ loaded'[n] = loaded[n]
        BY <3>1 DEF StartSave, TypeOK
      <3> QED BY <2>2, <3>2 DEF FreshManagers
    <2> QED BY <2>1, <2>2 DEF FreshManagers
  <1> QED BY <1>1, <1>2, <1>3, <1>4, <1>5, <1>6, <1>7, <1>8, <1>9, <1>10 DEF Inv

\* The coroutine of the open manager moves on without starting a save: its
\* cache is kept or read from disk, a settled save task may be dropped.
LEMMA MoveStep ==
  ASSUME Inv, NEW m \in Manager, open = m, NEW p \in PC \ SaveWait,
         UNCHANGED <<durable, marker, queue, gen, open>>,
         faults' \in 0..MaxFaults,
         task' = task \/ (~SavePending /\ task' = NoTask),
         cache' = cache \/ cache' = [cache EXCEPT ![m] = disk],
         loaded' = loaded \/ \E b \in BOOLEAN : loaded' = [loaded EXCEPT ![m] = b],
         base' = base \/ base' = [base EXCEPT ![m] = NoRoot],
         pc' = [pc EXCEPT ![m] = p],
         loaded'[m] => cache'[m] = disk /\ ~SavePending,
         cache'[m] # cache[m] => ~SavePending,
         p \in {"work", "readback", "publish"} => loaded'[m],
         p = "work" => Busy(cache'[m]),
         p \in {"readback", "publish"} => cache'[m].pend # 0,
         p = "publish" => queue = <<>>,
         p # "sealed"
  PROVE  Inv'
  <1> USE InvFacts
  <1>0. /\ task' \in [state : {"idle", "running", "done", "failed"}, root : Root]
        /\ RootOK(task'.root) /\ task'.root.op <= sealed
    <2>1. CASE task' = task
      BY <2>1 DEF TypeOK, RootsOK, OpsAreSealed
    <2>2. CASE task' = NoTask
      <3>1. NoRoot.op <= sealed
        BY NoRootOK DEF TypeOK, Op
      <3> QED BY <2>2, <3>1, NoRootOK DEF NoTask
    <2> QED BY <2>1, <2>2
  <1>1. TypeOK'
    <2>1. cache' \in [Manager -> Root] /\ pc' \in [Manager -> PC]
      BY DEF TypeOK
    <2>2. base' \in [Manager -> Root]
      BY NoRootOK DEF TypeOK
    <2>3. loaded' \in [Manager -> BOOLEAN]
      BY DEF TypeOK
    <2> QED BY <1>0, <2>1, <2>2, <2>3 DEF TypeOK, durable
  <1>2. RootsOK' /\ OpsAreSealed'
    BY <1>0 DEF RootsOK, OpsAreSealed, durable, TypeOK
  <1>3. WriteAhead'
    BY DEF WriteAhead, durable
  <1>4. WarmCacheIsDurable'
    BY DEF WarmCacheIsDurable, TypeOK, SavePending, durable, NoTask
  <1>5. CacheKeepsIntent'
    BY DEF CacheKeepsIntent, durable, TypeOK, SameIntent
  <1>6. TaskIntentIsCached'
    BY DEF TaskIntentIsCached, TypeOK, SavePending, NoTask
  <1>7. TaskKeepsIntent'
    BY DEF TaskKeepsIntent, durable, SameIntent, SavePending, NoTask
  <1>8. WaitersOK'
    BY DEF WaitersOK, TypeOK, PC
  <1>10. UnfinishedKeepsPlace'
    BY DEF UnfinishedKeepsPlace, TypeOK, durable, SavePending, NoTask
  <1>9. FreshManagers'
    <2>1. open' <= gen' /\ gen' = gen
      BY DEF FreshManagers
    <2>2. ASSUME NEW n \in Manager, n > gen
          PROVE  cache'[n] = NoRoot /\ pc'[n] = "idle" /\ ~loaded'[n]
      <3>1. n # m
        BY <2>1, <2>2 DEF Manager, TypeOK
      <3>2. cache'[n] = cache[n] /\ pc'[n] = pc[n] /\ loaded'[n] = loaded[n]
        BY <3>1 DEF TypeOK
      <3> QED BY <2>2, <3>2 DEF FreshManagers
    <2> QED BY <2>1, <2>2 DEF FreshManagers
  <1> QED BY <1>1, <1>2, <1>3, <1>4, <1>5, <1>6, <1>7, <1>8, <1>9, <1>10 DEF Inv

\* advance's failure handler, reached without an unfinished save.
LEMMA FailStep ==
  ASSUME Inv, NEW m \in Manager, open = m, ~SavePending,
         NEW r \in {cache[m], disk}, Fail(m, r),
         UNCHANGED <<durable, marker, queue, gen, open, base>>,
         faults' \in 0..MaxFaults,
         loaded' = loaded \/ loaded' = [loaded EXCEPT ![m] = FALSE],
         loaded'[m] /\ r # disk => pc[m] \notin SaveWait
  PROVE  Inv'
  <1> USE InvFacts
  <1>1. r \in Root /\ RootOK(r) /\ r.op <= sealed
    BY DEF TypeOK, RootsOK, OpsAreSealed
  <1>2. CASE r.status # "completed"
    <2>1. /\ Blocked(r) \in Root /\ RootOK(Blocked(r)) /\ SameIntent(Blocked(r), r)
          /\ r.op # 0
      BY <1>1, <1>2, BlockedOK
    <2>2. StartSave(m, Blocked(r), r, "failSave")
      BY <1>2 DEF Fail
    <2>3. disk.pend # 0 => SameIntent(r, disk) /\ SameIntent(Blocked(r), disk)
      BY <2>1 DEF CacheKeepsIntent, SameIntent
    <2>4. Blocked(r).op <= sealed /\ marker' \in BOOLEAN /\ "failSave" \in SaveWait
          /\ r.op = Blocked(r).op
      BY <1>1, <2>1 DEF SameIntent, TypeOK, SaveWait
    <2>5. Blocked(r).op # disk.op => disk.status = "completed"
      BY <1>2, <2>4 DEF UnfinishedKeepsPlace
    <2> QED BY <1>1, <2>1, <2>2, <2>3, <2>4, <2>5, StartSaveStep
  <1>3. CASE r.status = "completed"
    <2>1. /\ pc' = [pc EXCEPT ![m] = "idle"] /\ task' = NoTask
          /\ cache' = [cache EXCEPT ![m] = r] /\ cache'[m] = r
      BY <1>3 DEF Fail, TypeOK
    <2>2. cache' = cache \/ cache' = [cache EXCEPT ![m] = disk]
      BY <2>1 DEF TypeOK
    <2>3. loaded'[m] => cache'[m] = disk
      BY <2>1 DEF WarmCacheIsDurable, TypeOK
    <2>4. "idle" \in PC \ SaveWait
      BY DEF PC, SaveWait
    <2> QED BY <2>1, <2>2, <2>3, <2>4, MoveStep
  <1> QED BY <1>2, <1>3

(***************************************************************************)
(* One lemma per action.                                                   *)
(***************************************************************************)
\* accept plans and seals.
LEMMA SealStep == ASSUME Inv, NEW m \in Manager, Seal(m) PROVE Inv'
  <1> USE InvFacts DEF Seal
  <1>1. TypeOK'
    <2>1. sealed + 1 \in Op
      BY BoundsAssumption DEF TypeOK, Op
    <2> QED BY <2>1 DEF TypeOK, PC
  <1>2. RootsOK' /\ OpsAreSealed'
    <2>1. \A r \in Root : r.op <= sealed => r.op <= sealed + 1
      BY BoundsAssumption DEF TypeOK, Op, Root
    <2> QED BY <2>1 DEF RootsOK, OpsAreSealed, TypeOK
  <1>3. WriteAhead'
    BY DEF WriteAhead
  <1>4. WarmCacheIsDurable'
    BY DEF WarmCacheIsDurable, SavePending, TypeOK, SaveWait
  <1>5. CacheKeepsIntent' /\ TaskIntentIsCached' /\ TaskKeepsIntent'
        /\ UnfinishedKeepsPlace'
    BY DEF CacheKeepsIntent, TaskIntentIsCached, TaskKeepsIntent, SavePending,
           SameIntent, UnfinishedKeepsPlace
  <1>6. WaitersOK'
    BY BoundsAssumption DEF WaitersOK, TypeOK, SaveWait, Op
  <1>7. FreshManagers'
    BY DEF FreshManagers, TypeOK, Manager
  <1> QED BY <1>1, <1>2, <1>3, <1>4, <1>5, <1>6, <1>7 DEF Inv

\* accept installs the sealed plan as a prepared root.
LEMMA InstallStep == ASSUME Inv, NEW m \in Manager, Install(m) PROVE Inv'
  <1> USE InvFacts
  <1>1. PICK k \in 0..Cells : StartSave(m, Prepared(disk, sealed, k), disk, "prepSave")
    BY DEF Install
  <1> DEFINE r == Prepared(disk, sealed, k)
  <1>2. /\ open = m /\ ~SavePending /\ disk.pend = 0 /\ sealed \in Op
        /\ disk.status = "completed" /\ sealed # 0
        /\ disk \in Root /\ RootOK(disk) /\ disk.op <= sealed
    BY DEF Install, WaitersOK, TypeOK, RootsOK, OpsAreSealed
  <1>3. r \in Root /\ RootOK(r) /\ r.op = sealed /\ r.pend = 0
    BY <1>2, PreparedOK
  <1>4. r.op <= sealed /\ "prepSave" \in SaveWait
    BY <1>2, <1>3, BoundsAssumption DEF Op, SaveWait
  <1>5. /\ UNCHANGED <<durable, queue, gen, open>> /\ marker' \in BOOLEAN
        /\ faults' \in 0..MaxFaults
        /\ \E b \in BOOLEAN : loaded' = [loaded EXCEPT ![m] = b]
        /\ base' = [base EXCEPT ![m] = NoRoot]
    BY DEF Install, TypeOK
  <1> HIDE DEF r
  <1> QED BY <1>1, <1>2, <1>3, <1>4, <1>5, StartSaveStep DEF r

\* accept continues with finish_accept.
LEMMA AdoptStep == ASSUME Inv, NEW m \in Manager, Adopt(m) PROVE Inv'
  <1> USE InvFacts
  <1>1. /\ open = m /\ ~SavePending /\ disk = task.root
        /\ disk \in Root /\ RootOK(disk) /\ disk.op <= sealed
    BY DEF Adopt, WaitersOK, TypeOK, RootsOK, OpsAreSealed, SavePending, SaveWait
  <1>2. /\ Hourly(disk) \in Root /\ RootOK(Hourly(disk)) /\ SameIntent(Hourly(disk), disk)
        /\ SameIntent(disk, disk)
    BY <1>1, HourlyOK DEF SameIntent
  <1>3. Hourly(disk).op <= sealed /\ Hourly(disk).op = disk.op /\ "adoptSave" \in SaveWait
    BY <1>1, <1>2 DEF SameIntent, SaveWait
  <1>4. /\ UNCHANGED <<durable, queue, gen, open, loaded, base>> /\ marker' \in BOOLEAN
        /\ faults' \in 0..MaxFaults
        /\ StartSave(m, Hourly(disk), disk, "adoptSave")
    BY <1>1 DEF Adopt, TypeOK
  <1> QED BY <1>1, <1>2, <1>3, <1>4, StartSaveStep

\* accept with the id of the durable operation.
LEMMA ReplayStep == ASSUME Inv, NEW m \in Manager, Replay(m) PROVE Inv'
  <1> USE InvFacts
  <1>1. /\ open = m /\ ~SavePending /\ pc[m] = "idle"
        /\ disk \in Root /\ RootOK(disk) /\ disk.op <= sealed /\ SameIntent(disk, disk)
        /\ UNCHANGED <<durable, queue, gen, open, base>> /\ marker' \in BOOLEAN
        /\ faults' \in 0..MaxFaults
        /\ loaded' = [loaded EXCEPT ![m] = TRUE]
    BY DEF Replay, TypeOK, RootsOK, OpsAreSealed, SameIntent
  <1>2. CASE StartSave(m, Hourly(disk), disk, "adoptSave")
    <2>1. /\ Hourly(disk) \in Root /\ RootOK(Hourly(disk))
          /\ SameIntent(Hourly(disk), disk)
      BY <1>1, HourlyOK
    <2>2. Hourly(disk).op <= sealed /\ Hourly(disk).op = disk.op
          /\ "adoptSave" \in SaveWait
      BY <1>1, <2>1 DEF SameIntent, SaveWait
    <2> QED BY <1>1, <1>2, <2>1, <2>2, StartSaveStep
  <1>3. CASE disk.status = "blocked" /\ StartSave(m, Resumed(disk), disk, "replaySave")
    <2>1. /\ Resumed(disk) \in Root /\ RootOK(Resumed(disk))
          /\ SameIntent(Resumed(disk), disk)
      BY <1>1, <1>3, ResumedOK
    <2>2. Resumed(disk).op <= sealed /\ Resumed(disk).op = disk.op
          /\ "replaySave" \in SaveWait
      BY <1>1, <2>1 DEF SameIntent, SaveWait
    <2> QED BY <1>1, <1>3, <2>1, <2>2, StartSaveStep
  <1>4. CASE cache' = [cache EXCEPT ![m] = disk] /\ UNCHANGED <<marker, task, pc>>
    <2>1. /\ "idle" \in PC \ SaveWait /\ pc' = [pc EXCEPT ![m] = "idle"]
          /\ cache'[m] = disk
      BY <1>1, <1>4 DEF TypeOK, PC, SaveWait
    <2> QED BY <1>1, <1>4, <2>1, MoveStep
  <1> QED BY <1>2, <1>3, <1>4 DEF Replay

\* An import pass loads a cold cache.
LEMMA PartitionStep == ASSUME Inv, NEW m \in Manager, Partition(m) PROVE Inv'
  <1>1. /\ open = m /\ ~SavePending /\ pc' = [pc EXCEPT ![m] = "idle"]
        /\ cache' = [cache EXCEPT ![m] = disk] /\ cache'[m] = disk
        /\ loaded' = [loaded EXCEPT ![m] = TRUE]
        /\ UNCHANGED <<durable, marker, queue, gen, open, task, base>>
        /\ faults' \in 0..MaxFaults /\ "idle" \in PC \ SaveWait
    BY InvFacts DEF Partition, TypeOK, PC, SaveWait
  <1> QED BY <1>1, MoveStep

\* advance loads the root and starts, or finds nothing to do.
LEMMA AdvanceStep == ASSUME Inv, NEW m \in Manager, Advance(m) PROVE Inv'
  <1> USE InvFacts
  <1>1. /\ open = m /\ ~SavePending
        /\ loaded' = [loaded EXCEPT ![m] = TRUE]
        /\ UNCHANGED <<durable, marker, queue, gen, open, task, base>>
        /\ faults' \in 0..MaxFaults
    BY DEF Advance, HasPending, TypeOK
  <1>2. cache' = [cache EXCEPT ![m] = disk] /\ cache'[m] = disk
    BY DEF Advance, WarmCacheIsDurable, TypeOK, SaveWait
  <1> DEFINE p == IF Busy(disk) THEN "work" ELSE "idle"
  <1>3. pc' = [pc EXCEPT ![m] = p]
    BY <1>1 DEF Advance, WarmCacheIsDurable, TypeOK, SaveWait
  <1>4. p \in PC \ SaveWait /\ (p = "work" => Busy(cache'[m])) /\ loaded'[m]
        /\ p \notin {"readback", "publish", "sealed"}
    BY <1>1, <1>2 DEF PC, SaveWait, TypeOK
  <1> HIDE DEF p
  <1> QED BY <1>1, <1>2, <1>3, <1>4, MoveStep

\* advance fails on its cold read and journals what the cache still holds.
LEMMA LoadFailsStep == ASSUME Inv, NEW m \in Manager, LoadFails(m) PROVE Inv'
  <1>1. /\ open = m /\ ~SavePending /\ Fail(m, cache[m]) /\ ~loaded'[m]
        /\ UNCHANGED <<durable, marker, queue, gen, open, base, loaded>>
        /\ faults' \in 0..MaxFaults
    BY InvFacts, BoundsAssumption DEF LoadFails, HasPending, Fault, TypeOK
  <1> QED BY <1>1, FailStep

\* A coroutine at work serves the durable root, and no save is unfinished.
LEMMA WorkFacts ==
  ASSUME Inv, NEW m \in Manager, open = m, pc[m] \in {"work", "readback", "publish"}
  PROVE  /\ cache[m] = disk /\ ~SavePending /\ loaded[m]
         /\ disk \in Root /\ RootOK(disk) /\ disk.op <= sealed
         /\ marker \in BOOLEAN /\ faults \in 0..MaxFaults
         /\ pc[m] \notin SaveWait
  <1>1. pc[m] \notin SaveWait
    BY DEF SaveWait
  <1> QED BY <1>1, InvFacts
          DEF WarmCacheIsDurable, WaitersOK, TypeOK, RootsOK, OpsAreSealed

\* advance finishes an interrupted acceptance.
LEMMA ResumeStep == ASSUME Inv, NEW m \in Manager, Resume(m) PROVE Inv'
  <1>1. /\ open = m /\ cache[m] = disk /\ ~SavePending
        /\ disk \in Root /\ RootOK(disk) /\ disk.op <= sealed /\ SameIntent(disk, disk)
        /\ UNCHANGED <<durable, queue, gen, open, loaded, base>> /\ marker' \in BOOLEAN
        /\ faults' \in 0..MaxFaults /\ "resumeSave" \in SaveWait
        /\ StartSave(m, Hourly(disk), disk, "resumeSave")
    BY WorkFacts DEF Resume, SameIntent, SaveWait
  <1>2. /\ Hourly(disk) \in Root /\ RootOK(Hourly(disk)) /\ SameIntent(Hourly(disk), disk)
    BY <1>1, HourlyOK
  <1>3. Hourly(disk).op <= sealed /\ Hourly(disk).op = disk.op
    BY <1>1, <1>2 DEF SameIntent
  <1>4. loaded'[m] /\ Hourly(disk).status # "blocked"
    BY <1>1, WorkFacts, InvFacts DEF Resume, WaitersOK, Busy, Hourly, Root
  <1> QED BY <1>1, <1>2, <1>3, <1>4, StartSaveStep

\* advance makes the next batch its durable intent.
LEMMA IntendStep == ASSUME Inv, NEW m \in Manager, Intend(m) PROVE Inv'
  <1>1. /\ open = m /\ cache[m] = disk /\ ~SavePending /\ loaded[m]
        /\ disk \in Root /\ RootOK(disk) /\ disk.op <= sealed /\ SameIntent(disk, disk)
        /\ UNCHANGED <<durable, marker, queue, gen, open, loaded, base>>
        /\ marker' \in BOOLEAN /\ faults' \in 0..MaxFaults
        /\ disk.pend = 0 /\ disk.phase = "hourly" /\ pc[m] \notin SaveWait
    BY WorkFacts DEF Intend, SameIntent
  <1>2. CASE StartSave(m, Intended(disk), disk, "intentSave")
    <2>1. disk.status # "completed"
      BY <1>1, InvFacts DEF Intend, WaitersOK, Busy
    <2>2. Intended(disk) \in Root /\ RootOK(Intended(disk)) /\ Intended(disk).op = disk.op
      BY <1>1, <2>1, IntendedOK
    <2>3. "intentSave" \in SaveWait /\ loaded'[m]
      BY <1>1 DEF SaveWait
    <2>4. Busy(Intended(disk))
      BY <1>1 DEF Busy, Intended, Root
    <2> QED BY <1>1, <1>2, <2>2, <2>3, <2>4, StartSaveStep
  <1>3. CASE Fail(m, cache[m])
    BY <1>1, <1>3, FailStep
  <1> QED BY <1>1, <1>2, <1>3 DEF Intend

\* advance reads back what Recorder committed.
LEMMA ReadbackStep == ASSUME Inv, NEW m \in Manager, Readback(m) PROVE Inv'
  <1>1. /\ open = m /\ cache[m] = disk /\ ~SavePending /\ loaded[m]
        /\ UNCHANGED <<durable, marker, queue, gen, open, loaded, base>>
        /\ faults' \in 0..MaxFaults /\ queue = <<>> /\ pc[m] \notin SaveWait
    BY WorkFacts DEF Readback
  <1>2. CASE pc' = [pc EXCEPT ![m] = "publish"] /\ UNCHANGED <<task, cache>>
    <2>1. cache[m].pend # 0
      BY <1>1, InvFacts DEF WaitersOK, Readback
    <2>2. "publish" \in PC \ SaveWait
      BY DEF PC, SaveWait
    <2> QED BY <1>1, <1>2, <2>1, <2>2, MoveStep
  <1>3. CASE Fail(m, cache[m])
    BY <1>1, <1>3, FailStep
  <1> QED BY <1>2, <1>3 DEF Readback

\* advance publishes the proof of the verified batch.
LEMMA PublishStep == ASSUME Inv, NEW m \in Manager, Publish(m) PROVE Inv'
  <1>1. /\ open = m /\ cache[m] = disk /\ ~SavePending
        /\ disk \in Root /\ RootOK(disk) /\ disk.op <= sealed /\ SameIntent(disk, disk)
        /\ UNCHANGED <<durable, marker, queue, gen, open, loaded, base>>
        /\ marker' \in BOOLEAN /\ faults' \in 0..MaxFaults
        /\ "proofSave" \in SaveWait
        /\ StartSave(m, Verified(disk), disk, "proofSave")
    BY WorkFacts DEF Publish, SameIntent, SaveWait
  <1>2. disk.pend # 0 /\ queue = <<>>
    BY <1>1, InvFacts DEF Publish, WaitersOK
  <1>3. /\ Verified(disk) \in Root /\ RootOK(Verified(disk))
        /\ Verified(disk).op = disk.op /\ ~Suppressing(Verified(disk))
        /\ Verified(disk).cursor = disk.pend
        /\ Verified(disk).proofs[disk.pend] = disk.op
    BY <1>1, <1>2, VerifiedOK DEF Suppressing
  <1> QED BY <1>1, <1>2, <1>3, StartSaveStep

\* advance reconciles a durable intent with the native rows.
LEMMA ReconcileStep == ASSUME Inv, NEW m \in Manager, Reconcile(m) PROVE Inv'
  <1>1. /\ open = m /\ cache[m] = disk /\ ~SavePending /\ loaded[m]
        /\ disk \in Root /\ disk.pend # 0
        /\ UNCHANGED <<durable, marker, gen, open, loaded, base>>
        /\ faults' \in 0..MaxFaults /\ queue = <<>> /\ pc[m] \notin SaveWait
    BY WorkFacts DEF Reconcile
  <1>2. CASE pc' = [pc EXCEPT ![m] = "publish"] /\ UNCHANGED <<task, queue, cache>>
    <2>1. "publish" \in PC \ SaveWait
      BY DEF PC, SaveWait
    <2> QED BY <1>1, <1>2, <2>1, MoveStep
  <1>3. CASE /\ queue' = Append(queue, <<disk.pend, disk.op>>)
             /\ pc' = [pc EXCEPT ![m] = "readback"]
             /\ UNCHANGED <<task, cache>>
    <2> USE InvFacts
    <2>1. queue' = << <<disk.pend, disk.op>> >> /\ <<disk.pend, disk.op>> \in Cell \X Op
      BY <1>1, <1>3 DEF Root, Cell
    <2>2. TypeOK'
      BY <1>1, <1>3, <2>1 DEF TypeOK, durable, PC
    <2>3. WriteAhead'
      BY <1>1, <2>1 DEF WriteAhead, durable
    <2>4. RootsOK' /\ OpsAreSealed' /\ FreshManagers'
      <3>1. \A n \in Manager : n > gen => n # m
        BY <1>1 DEF FreshManagers, TypeOK, Manager
      <3> QED BY <1>1, <1>3, <3>1
              DEF RootsOK, OpsAreSealed, FreshManagers, durable, TypeOK
    <2>5. WarmCacheIsDurable'
      BY <1>1, <1>3 DEF WarmCacheIsDurable, durable, TypeOK, SavePending
    <2>6. CacheKeepsIntent' /\ TaskIntentIsCached' /\ TaskKeepsIntent'
          /\ UnfinishedKeepsPlace'
      BY <1>1, <1>3 DEF CacheKeepsIntent, TaskIntentIsCached, TaskKeepsIntent,
                        UnfinishedKeepsPlace, SavePending, SameIntent, durable
    <2>7. WaitersOK'
      BY <1>1, <1>3 DEF WaitersOK, TypeOK, SaveWait, durable
    <2> QED BY <2>2, <2>3, <2>4, <2>5, <2>6, <2>7 DEF Inv
  <1>4. CASE Fail(m, cache[m]) /\ UNCHANGED queue
    BY <1>1, <1>4, FailStep
  <1> QED BY <1>1, <1>2, <1>3, <1>4 DEF Reconcile

\* The coroutine resumes after a verified save.
LEMMA SavedStep == ASSUME Inv, NEW m \in Manager, Saved(m) PROVE Inv'
  <1> USE InvFacts
  <1>1. /\ open = m /\ ~SavePending /\ disk = task.root /\ task' = NoTask
        /\ cache' = [cache EXCEPT ![m] = disk] /\ cache'[m] = disk
        /\ UNCHANGED <<durable, marker, queue, gen, open, loaded, base>>
        /\ faults' \in 0..MaxFaults
    BY DEF Saved, WaitersOK, TypeOK, SavePending
  <1> DEFINE p == IF pc[m] = "intentSave"
                     \/ (pc[m] = "resumeSave" /\ disk.status # "completed")
                  THEN "work" ELSE "idle"
  <1>2. pc' = [pc EXCEPT ![m] = p] /\ p \in PC \ SaveWait
    BY <1>1 DEF Saved, PC, SaveWait
  <1>3. p = "work" => loaded'[m] /\ Busy(cache'[m])
    BY <1>1 DEF WaitersOK, Busy
  <1>4. p \notin {"readback", "publish", "sealed"}
    OBVIOUS
  <1> HIDE DEF p
  <1> QED BY <1>1, <1>2, <1>3, <1>4, MoveStep

\* The coroutine resumes after a failed save.
LEMMA SaveRaisedStep == ASSUME Inv, NEW m \in Manager, SaveRaised(m) PROVE Inv'
  <1>1. /\ open = m /\ ~SavePending
        /\ loaded' = [loaded EXCEPT ![m] = FALSE] /\ ~loaded'[m]
        /\ UNCHANGED <<durable, marker, queue, gen, open, base>>
        /\ faults' \in 0..MaxFaults
    BY InvFacts DEF SaveRaised, TypeOK, SavePending
  <1>2. CASE Fail(m, cache[m])
    BY <1>1, <1>2, FailStep
  <1>3. CASE pc' = [pc EXCEPT ![m] = "idle"] /\ task' = NoTask /\ UNCHANGED cache
    <2>1. "idle" \in PC \ SaveWait
      BY DEF PC, SaveWait
    <2> QED BY <1>1, <1>3, <2>1, MoveStep
  <1> QED BY <1>2, <1>3 DEF SaveRaised

\* A guard or a read raises.
LEMMA StepRaisesStep == ASSUME Inv, NEW m \in Manager, StepRaises(m) PROVE Inv'
  <1>1. /\ open = m
        /\ UNCHANGED <<durable, marker, queue, gen, open, loaded>>
        /\ faults' \in 0..MaxFaults
    BY InvFacts, BoundsAssumption DEF StepRaises, Fault, TypeOK
  <1>2. CASE /\ pc[m] = "sealed" /\ pc' = [pc EXCEPT ![m] = "idle"]
             /\ base' = [base EXCEPT ![m] = NoRoot] /\ UNCHANGED <<task, cache>>
    <2>1. "idle" \in PC \ SaveWait /\ (loaded'[m] => cache'[m] = disk /\ ~SavePending)
      BY <1>1, <1>2, InvFacts DEF PC, SaveWait, WarmCacheIsDurable
    <2> QED BY <1>1, <1>2, <2>1, MoveStep
  <1>3. CASE pc[m] \in {"work", "readback", "publish"} /\ Fail(m, cache[m]) /\ UNCHANGED base
    <2>1. ~SavePending /\ pc[m] \notin SaveWait
      BY <1>1, <1>3, WorkFacts
    <2> QED BY <1>1, <1>3, <2>1, FailStep
  <1>4. CASE /\ pc[m] = "prepSave" /\ task.state = "done"
             /\ pc' = [pc EXCEPT ![m] = "idle"] /\ task' = NoTask
             /\ cache' = [cache EXCEPT ![m] = task.root] /\ UNCHANGED base
    <2>1. /\ disk = task.root /\ ~SavePending /\ cache'[m] = disk
          /\ "idle" \in PC \ SaveWait
      BY <1>1, <1>4, InvFacts DEF WaitersOK, SavePending, SaveWait, PC, TypeOK
    <2> QED BY <1>1, <1>4, <2>1, MoveStep
  <1>5. CASE /\ pc[m] = "proofSave" /\ task.state = "done"
             /\ Fail(m, task.root) /\ UNCHANGED base
    <2>1. disk = task.root /\ ~SavePending
      BY <1>1, <1>5, InvFacts DEF WaitersOK, SavePending, SaveWait
    <2>2. Fail(m, disk)
      BY <1>5, <2>1
    <2> QED BY <1>1, <1>5, <2>1, <2>2, FailStep
  <1> QED BY <1>2, <1>3, <1>4, <1>5 DEF StepRaises

\* The coroutine is cancelled, its save keeps running.
LEMMA CancelStep == ASSUME Inv, NEW m \in Manager, Cancel(m) PROVE Inv'
  <1>1. /\ open = m /\ pc' = [pc EXCEPT ![m] = "idle"]
        /\ base' = [base EXCEPT ![m] = NoRoot]
        /\ UNCHANGED <<durable, marker, queue, gen, open, task, cache>>
        /\ faults' \in 0..MaxFaults /\ "idle" \in PC \ SaveWait
    BY InvFacts, BoundsAssumption DEF Cancel, Fault, TypeOK, PC, SaveWait
  <1>2. \E b \in BOOLEAN : loaded' = [loaded EXCEPT ![m] = b]
    BY InvFacts DEF Cancel, TypeOK
  <1>3. loaded'[m] => cache'[m] = disk /\ ~SavePending
    BY <1>1, InvFacts DEF Cancel, WarmCacheIsDurable, TypeOK
  <1> QED BY <1>1, <1>2, <1>3, MoveStep

\* The coroutine of an unloaded manager gives up.
LEMMA AbandonStep == ASSUME Inv, NEW m \in Manager, Abandon(m) PROVE Inv'
  <1> USE InvFacts DEF Abandon
  <1>1. TypeOK'
    BY NoRootOK DEF TypeOK, durable, PC
  <1>2. RootsOK' /\ OpsAreSealed' /\ FreshManagers' /\ WriteAhead'
    BY DEF RootsOK, OpsAreSealed, FreshManagers, WriteAhead, durable, TypeOK
  <1>3. WarmCacheIsDurable' /\ CacheKeepsIntent' /\ TaskIntentIsCached' /\ TaskKeepsIntent'
        /\ UnfinishedKeepsPlace'
    BY DEF WarmCacheIsDurable, CacheKeepsIntent, TaskIntentIsCached, TaskKeepsIntent,
           UnfinishedKeepsPlace,
           durable, TypeOK, SavePending, SameIntent
  <1>4. WaitersOK'
    BY DEF WaitersOK, TypeOK, durable
  <1> QED BY <1>1, <1>2, <1>3, <1>4 DEF Inv

\* A root on its way to disk keeps the intent whose rows Recorder still holds.
LEMMA TaskWritesAhead ==
  ASSUME Inv, SavePending
  PROVE  \A i \in 1..Len(queue) :
           task.root.pend = queue[i][1] /\ task.root.op = queue[i][2]
  <1> SUFFICES ASSUME NEW i \in 1..Len(queue)
               PROVE  task.root.pend = queue[i][1] /\ task.root.op = queue[i][2]
    OBVIOUS
  <1>1. queue \in Seq(Cell \X Op) /\ queue # <<>>
    BY InvFacts DEF TypeOK
  <1>2. queue[i] \in Cell \X Op
    BY <1>1
  <1>3. disk.pend = queue[i][1] /\ disk.op = queue[i][2] /\ disk.pend # 0
    BY <1>2, InvFacts DEF WriteAhead, Cell
  <1> QED BY <1>1, <1>3, InvFacts DEF TaskKeepsIntent, SameIntent

\* The save task wrote and verified the journal file.
LEMMA SaveLandsStep == ASSUME Inv, SaveLands PROVE Inv'
  <1> USE InvFacts DEF SaveLands, manager
  <1>1. TypeOK' /\ RootsOK' /\ OpsAreSealed' /\ FreshManagers'
    BY DEF TypeOK, RootsOK, OpsAreSealed, FreshManagers
  <1>2. WriteAhead'
    BY TaskWritesAhead DEF WriteAhead
  <1>3. WarmCacheIsDurable' /\ CacheKeepsIntent' /\ TaskIntentIsCached' /\ TaskKeepsIntent'
        /\ UnfinishedKeepsPlace'
    BY DEF WarmCacheIsDurable, CacheKeepsIntent, TaskIntentIsCached, TaskKeepsIntent,
           UnfinishedKeepsPlace,
           SavePending, SameIntent, TypeOK
  <1>4. WaitersOK'
    BY DEF WaitersOK, TypeOK
  <1> QED BY <1>1, <1>2, <1>3, <1>4 DEF Inv

\* The save task raised, with or without having replaced the file.
LEMMA SaveFailsStep == ASSUME Inv, SaveFails PROVE Inv'
  <1> USE InvFacts DEF SaveFails, manager
  <1>1. TypeOK'
    <2>1. faults' \in 0..MaxFaults
      BY BoundsAssumption DEF TypeOK, Fault
    <2> QED BY <2>1 DEF TypeOK
  <1>2. RootsOK' /\ OpsAreSealed' /\ FreshManagers'
    BY DEF TypeOK, RootsOK, OpsAreSealed, FreshManagers
  <1>3. WriteAhead'
    BY TaskWritesAhead DEF WriteAhead
  <1>4. WarmCacheIsDurable' /\ CacheKeepsIntent' /\ TaskIntentIsCached' /\ TaskKeepsIntent'
        /\ UnfinishedKeepsPlace'
    BY DEF WarmCacheIsDurable, CacheKeepsIntent, TaskIntentIsCached, TaskKeepsIntent,
           UnfinishedKeepsPlace,
           SavePending, SameIntent, TypeOK
  <1>5. WaitersOK'
    BY DEF WaitersOK, TypeOK
  <1> QED BY <1>1, <1>2, <1>3, <1>4, <1>5 DEF Inv

\* Recorder taking or losing the head of its queue.
LEMMA QueueStep ==
  ASSUME Inv, queue # <<>>, queue' = Tail(queue), native' \in [Cell -> Native],
         faults' \in 0..MaxFaults,
         UNCHANGED <<disk, sealed, plan, markerDisk, task, marker, gen, open, manager>>
  PROVE  Inv'
  <1> USE InvFacts DEF manager
  <1>1. queue' \in Seq(Cell \X Op)
    BY DEF TypeOK
  <1>2. WriteAhead'
    BY DEF WriteAhead, TypeOK
  <1>3. TypeOK' /\ RootsOK' /\ OpsAreSealed' /\ FreshManagers'
    BY <1>1 DEF TypeOK, RootsOK, OpsAreSealed, FreshManagers
  <1>4. WarmCacheIsDurable' /\ CacheKeepsIntent' /\ TaskIntentIsCached' /\ TaskKeepsIntent'
        /\ UnfinishedKeepsPlace'
    BY DEF WarmCacheIsDurable, CacheKeepsIntent, TaskIntentIsCached, TaskKeepsIntent,
           UnfinishedKeepsPlace,
           SavePending, SameIntent
  <1>5. WaitersOK'
    BY DEF WaitersOK
  <1> QED BY <1>2, <1>3, <1>4, <1>5 DEF Inv

\* Recorder applies the head of its queue.
LEMMA RecorderRunsStep == ASSUME Inv, RecorderRuns PROVE Inv'
  <1>1. Head(queue) \in Cell \X Op
    BY InvFacts DEF RecorderRuns, TypeOK
  <1>2. native' \in [Cell -> Native] /\ faults' \in 0..MaxFaults
    BY <1>1, InvFacts DEF RecorderRuns, TypeOK, Native
  <1> QED BY <1>2, QueueStep DEF RecorderRuns

\* Recorder loses the head of its queue.
LEMMA RecorderDropsStep == ASSUME Inv, RecorderDrops PROVE Inv'
  BY InvFacts, BoundsAssumption, QueueStep DEF RecorderDrops, TypeOK, Fault, durable

\* Nothing but Recorder's rows, the markers, and the fault count changes.
LEMMA OutsideStep ==
  ASSUME Inv, native' \in [Cell -> Native], marker' \in BOOLEAN,
         markerDisk' \in BOOLEAN, faults' \in 0..MaxFaults,
         UNCHANGED <<disk, sealed, plan, task, queue, gen, open, manager>>
  PROVE  Inv'
  <1> USE InvFacts DEF manager
  <1>1. TypeOK' /\ RootsOK' /\ OpsAreSealed' /\ FreshManagers' /\ WriteAhead'
    BY DEF TypeOK, RootsOK, OpsAreSealed, FreshManagers, WriteAhead
  <1>2. WarmCacheIsDurable' /\ CacheKeepsIntent' /\ TaskIntentIsCached' /\ TaskKeepsIntent'
        /\ UnfinishedKeepsPlace'
    BY DEF WarmCacheIsDurable, CacheKeepsIntent, TaskIntentIsCached, TaskKeepsIntent,
           UnfinishedKeepsPlace,
           SavePending, SameIntent
  <1>3. WaitersOK'
    BY DEF WaitersOK
  <1> QED BY <1>1, <1>2, <1>3 DEF Inv

\* Somebody else writes a native row.
LEMMA ForeignWriteStep == ASSUME Inv, ForeignWrite PROVE Inv'
  BY InvFacts, BoundsAssumption, OutsideStep DEF ForeignWrite, TypeOK, Fault, Native

\* Home Assistant flushes the entry marker.
LEMMA FlushMarkerStep == ASSUME Inv, FlushMarker PROVE Inv'
  BY InvFacts, OutsideStep DEF FlushMarker, TypeOK

\* A new manager is set up; it starts cold.
LEMMA SetUpStep == ASSUME Inv, SetUp PROVE Inv'
  <1> USE InvFacts DEF SetUp, manager, durable
  <1>1. TypeOK'
    BY BoundsAssumption DEF TypeOK
  <1>2. RootsOK' /\ OpsAreSealed' /\ WriteAhead' /\ TaskKeepsIntent'
    BY DEF RootsOK, OpsAreSealed, WriteAhead, TaskKeepsIntent, SavePending, SameIntent
  <1>3. FreshManagers'
    BY BoundsAssumption DEF FreshManagers, TypeOK, Manager
  <1>4. \A m \in Manager : open' = m =>
          /\ cache[m] = NoRoot /\ pc[m] = "idle" /\ ~loaded[m]
    BY BoundsAssumption DEF FreshManagers, TypeOK, Manager
  <1>5. WarmCacheIsDurable' /\ CacheKeepsIntent' /\ TaskIntentIsCached'
        /\ UnfinishedKeepsPlace'
    BY <1>4, NoRootOK DEF WarmCacheIsDurable, CacheKeepsIntent, TaskIntentIsCached,
                          UnfinishedKeepsPlace, SavePending
  <1>6. WaitersOK'
    BY <1>4 DEF WaitersOK, SaveWait
  <1> QED BY <1>1, <1>2, <1>3, <1>5, <1>6 DEF Inv

\* close() stops the admission of work.
LEMMA UnloadStep == ASSUME Inv, Unload PROVE Inv'
  <1> USE InvFacts DEF Unload, manager, durable
  <1>1. \A m \in Manager : open' # m
    BY BoundsAssumption DEF Manager
  <1>2. TypeOK' /\ FreshManagers'
    BY BoundsAssumption DEF TypeOK, FreshManagers
  <1>3. RootsOK' /\ OpsAreSealed' /\ WriteAhead' /\ TaskKeepsIntent'
    BY DEF RootsOK, OpsAreSealed, WriteAhead, TaskKeepsIntent, SavePending, SameIntent
  <1>4. WarmCacheIsDurable' /\ CacheKeepsIntent' /\ TaskIntentIsCached' /\ WaitersOK'
        /\ UnfinishedKeepsPlace'
    BY <1>1 DEF WarmCacheIsDurable, CacheKeepsIntent, TaskIntentIsCached, WaitersOK,
                UnfinishedKeepsPlace, SavePending
  <1> QED BY <1>2, <1>3, <1>4 DEF Inv

\* The process dies and loses its memory.
LEMMA CrashStep == ASSUME Inv, Crash PROVE Inv'
  <1> USE InvFacts DEF Crash, durable
  <1>1. \A m \in Manager : open' # m
    BY BoundsAssumption DEF Manager
  <1>2. /\ cache' \in [Manager -> Root] /\ base' \in [Manager -> Root]
        /\ task' \in [state : {"idle", "running", "done", "failed"}, root : Root]
        /\ pc' \in [Manager -> PC] /\ loaded' \in [Manager -> BOOLEAN]
    BY NoRootOK DEF NoTask, PC
  <1>3. TypeOK' /\ FreshManagers'
    BY <1>2, BoundsAssumption DEF TypeOK, FreshManagers
  <1>4. RootsOK' /\ OpsAreSealed'
    BY <1>2, NoRootOK DEF RootsOK, OpsAreSealed, NoTask, TypeOK, Op
  <1>5. WriteAhead' /\ TaskKeepsIntent'
    BY DEF WriteAhead, TaskKeepsIntent, SavePending, NoTask
  <1>6. WarmCacheIsDurable' /\ CacheKeepsIntent' /\ TaskIntentIsCached' /\ WaitersOK'
        /\ UnfinishedKeepsPlace'
    BY <1>1 DEF WarmCacheIsDurable, CacheKeepsIntent, TaskIntentIsCached, WaitersOK,
                UnfinishedKeepsPlace, SavePending, NoTask
  <1> QED BY <1>3, <1>4, <1>5, <1>6 DEF Inv

\* The invariant holds of a new installation.
LEMMA InitInv == ASSUME Init PROVE Inv
  <1> USE NoRootOK, CellsAssumption, BoundsAssumption DEF Init
  <1>1. TypeOK
    <2>1. 0 \in Op /\ 0 \in Native /\ NoTask \in
            [state : {"idle", "running", "done", "failed"}, root : Root]
      BY DEF Op, Native, NoTask
    <2>2. plan \in [Op -> [Cell -> Native]] /\ native \in [Cell -> Native]
      BY <2>1
    <2>3. pc \in [Manager -> PC] /\ queue \in Seq(Cell \X Op)
      BY DEF PC
    <2>4. /\ cache \in [Manager -> Root] /\ base \in [Manager -> Root]
          /\ loaded \in [Manager -> BOOLEAN]
      OBVIOUS
    <2>5. /\ disk \in Root /\ sealed \in Op
          /\ task \in [state : {"idle", "running", "done", "failed"}, root : Root]
      BY <2>1, Zenon
    <2>6. marker \in BOOLEAN /\ markerDisk \in BOOLEAN
      BY Zenon
    <2>7. gen \in 0..MaxGen /\ open \in 0..MaxGen /\ faults \in 0..MaxFaults
      OBVIOUS
    <2> QED BY <2>2, <2>3, <2>4, <2>5, <2>6, <2>7 DEF TypeOK
  <1>2. RootsOK /\ OpsAreSealed
    BY DEF RootsOK, OpsAreSealed, NoTask
  <1>3. WriteAhead /\ WarmCacheIsDurable /\ CacheKeepsIntent /\ TaskIntentIsCached
        /\ TaskKeepsIntent /\ UnfinishedKeepsPlace
    BY DEF WriteAhead, WarmCacheIsDurable, CacheKeepsIntent, TaskIntentIsCached,
           TaskKeepsIntent, UnfinishedKeepsPlace, SavePending, NoTask
  <1>4. WaitersOK /\ FreshManagers
    <2>1. \A m \in Manager : cache[m] = NoRoot /\ pc[m] = "idle" /\ ~loaded[m]
      OBVIOUS
    <2>2. open <= gen
      OBVIOUS
    <2> QED BY <2>1, <2>2 DEF WaitersOK, FreshManagers, SaveWait
  <1> QED BY <1>1, <1>2, <1>3, <1>4 DEF Inv

\* Stuttering keeps the invariant.
LEMMA StutterInv == ASSUME Inv, UNCHANGED vars PROVE Inv'
  BY OutsideStep, InvFacts DEF vars, manager, TypeOK

\* Every step keeps the invariant.
LEMMA NextInv == ASSUME Inv, [Next]_vars PROVE Inv'
  <1>1. ASSUME NEW m \in Manager, Step(m) PROVE Inv'
    BY <1>1, SealStep, InstallStep, AdoptStep, ReplayStep, PartitionStep, AdvanceStep,
       LoadFailsStep, ResumeStep, IntendStep, ReconcileStep, ReadbackStep, PublishStep,
       SavedStep, SaveRaisedStep, StepRaisesStep, CancelStep, AbandonStep DEF Step
  <1> QED BY <1>1, SaveLandsStep, SaveFailsStep, RecorderRunsStep, RecorderDropsStep,
             ForeignWriteStep, FlushMarkerStep, SetUpStep, UnloadStep, CrashStep,
             StutterInv DEF Next

\* Every behaviour of the journal satisfies the inductive invariant.
THEOREM InvHolds == Spec => []Inv
  <1>1. Init => Inv BY InitInv
  <1>2. Inv /\ [Next]_vars => Inv' BY NextInv
  <1> QED BY <1>1, <1>2, PTL DEF Spec

(***************************************************************************)
(* What follows for the properties of HistoryJournal.                      *)
(***************************************************************************)
\* The journal file only ever becomes the root of the tracked save task.
LEMMA DiskStep ==
  ASSUME [Next]_vars
  PROVE  disk' = disk \/ (SavePending /\ disk' = task.root)
  BY DEF Next, Step, Seal, Install, Adopt, Replay, Partition, Advance, LoadFails, Resume,
         Intend, Reconcile, Readback, Publish, Saved, SaveRaised, StepRaises, Cancel,
         Abandon, SaveLands, SaveFails, RecorderRuns, RecorderDrops, ForeignWrite,
         FlushMarker, SetUp, Unload, Crash, durable, vars

\* Every variable of the journal keeps its type.
THEOREM TypeHolds == Spec => []TypeOK
  <1>1. Inv => TypeOK
    BY DEF Inv
  <1> QED BY <1>1, InvHolds, PTL

\* Recorder never holds rows that the durable root does not name as its
\* intent: the journal is a write-ahead log for native statistics.
THEOREM WriteAheadHolds == Spec => []WriteAhead
  <1>1. Inv => WriteAhead
    BY DEF Inv
  <1> QED BY <1>1, InvHolds, PTL

\* A warm manager cache is the durable root whenever no save is awaited.
THEOREM WarmCacheHolds == Spec => []WarmCacheIsDurable
  <1>1. Inv => WarmCacheIsDurable
    BY DEF Inv
  <1> QED BY <1>1, InvHolds, PTL

\* A durable intent is only ever replaced by the proof of its own batch, in
\* spite of failed saves, cancellations, reloads and restarts.
THEOREM IntentSurvivesHolds == Spec => IntentSurvives
  <1>1. ASSUME Inv, [Next]_vars
        PROVE  [disk.pend # 0 =>
                  /\ disk'.op = disk.op
                  /\ \/ disk'.pend = disk.pend
                     \/ disk'.proofs[disk.pend] = disk.op /\ disk'.cursor = disk.pend]_disk
    <2>1. disk' = disk \/ (SavePending /\ disk' = task.root)
      BY <1>1, DiskStep
    <2> QED BY <1>1, <2>1, InvFacts DEF TaskKeepsIntent, SameIntent
  <1> QED BY <1>1, InvHolds, PTL DEF Spec, IntentSurvives

\* No second save starts while the tracked one is unfinished.
THEOREM OneSaveHolds == Spec => OneSaveAtATime
  <1> DEFINE A == SavePending => task'.root = task.root \/ task' = NoTask
  <1>1. ASSUME Inv, [Next]_vars PROVE A
    <2> SUFFICES ASSUME SavePending PROVE task'.root = task.root \/ task' = NoTask
      OBVIOUS
    <2> USE <1>1, InvFacts
    <2>1. ASSUME NEW m \in Manager, Step(m) PROVE task' = task
      <3>1. task.state \notin {"done", "failed"}
        BY DEF SavePending
      <3>2. ~(open = m /\ pc[m] \in {"work", "readback", "publish"})
        BY WorkFacts
      <3>3. CASE Seal(m) \/ Install(m) \/ Adopt(m) \/ Replay(m)
        BY <3>1, <3>3 DEF Seal, Install, Adopt, Replay
      <3>4. CASE Partition(m) \/ Advance(m) \/ LoadFails(m)
        BY <3>4 DEF Partition, Advance, LoadFails, HasPending
      <3>5. CASE Resume(m) \/ Intend(m) \/ Reconcile(m) \/ Readback(m) \/ Publish(m)
        BY <3>2, <3>5 DEF Resume, Intend, Reconcile, Readback, Publish
      <3>6. CASE Saved(m) \/ SaveRaised(m)
        BY <3>1, <3>6 DEF Saved, SaveRaised
      <3>7. CASE StepRaises(m)
        BY <3>1, <3>2, <3>7 DEF StepRaises
      <3>8. CASE Cancel(m) \/ Abandon(m)
        BY <3>8 DEF Cancel, Abandon
      <3> QED BY <2>1, <3>3, <3>4, <3>5, <3>6, <3>7, <3>8 DEF Step
    <2>2. CASE SaveLands \/ SaveFails
      BY <2>2 DEF SaveLands, SaveFails, TypeOK
    <2> QED BY <1>1, <2>1, <2>2 DEF Next, vars, RecorderRuns, RecorderDrops, ForeignWrite,
               FlushMarker, SetUp, Unload, Crash
  <1> QED BY <1>1, InvHolds, PTL DEF Spec, OneSaveAtATime

\* An accepted operation is replaced only after its last batch is verified.
THEOREM RunsToCompletionHolds == Spec => OperationRunsToCompletion
  <1>1. ASSUME Inv, [Next]_vars
        PROVE  [disk'.op # disk.op => disk.status = "completed" /\ Unfinished(disk) = {}]_disk
    <2>1. disk' = disk \/ (SavePending /\ disk' = task.root)
      BY <1>1, DiskStep
    <2>2. disk.status = "completed" => Unfinished(disk) = {}
      BY <1>1, InvFacts, CellsAssumption DEF RootsOK, RootOK, TypeOK, Root, Unfinished, Cell
    <2> QED BY <1>1, <2>1, <2>2, InvFacts DEF UnfinishedKeepsPlace
  <1> QED BY <1>1, InvHolds, PTL DEF Spec, OperationRunsToCompletion

(***************************************************************************)
(* The second and third layers: the durable root publishes what Recorder   *)
(* holds, its proofs follow its intents, and the journal implements the    *)
(* ledger that its readers rely on.                                        *)
(***************************************************************************)
\* Soundness only looks at the proofs and at the suppressed windows.
LEMMA SoundSame ==
  ASSUME NEW r, NEW s, Sound(r), s.proofs = r.proofs, s.cursor = r.cursor,
         s.count = r.count
  PROVE  Sound(s)
  BY DEF Sound, Unfinished

\* Roots that only move phase, status or intent stay sound.
LEMMA SoundHourly ==
  ASSUME NEW r \in Root, Sound(r)
  PROVE  Sound(Hourly(r)) /\ Sound(Blocked(r)) /\ Sound(Resumed(r)) /\ Sound(Intended(r))
  <1>1. /\ Hourly(r).proofs = r.proofs /\ Hourly(r).cursor = r.cursor
        /\ Hourly(r).count = r.count
    BY DEF Hourly, Root
  <1>2. /\ Blocked(r).proofs = r.proofs /\ Blocked(r).cursor = r.cursor
        /\ Blocked(r).count = r.count
    BY DEF Blocked, Root
  <1>3. /\ Resumed(r).proofs = r.proofs /\ Resumed(r).cursor = r.cursor
        /\ Resumed(r).count = r.count
    BY DEF Resumed, Root
  <1>4. /\ Intended(r).proofs = r.proofs /\ Intended(r).cursor = r.cursor
        /\ Intended(r).count = r.count
    BY DEF Intended, Root
  <1> QED BY <1>1, <1>2, <1>3, <1>4, SoundSame

\* Accepting an operation over a finished one hides cells and proves none.
LEMMA SoundPrepared ==
  ASSUME NEW r \in Root, RootOK(r), r.status = "completed", Sound(r),
         NEW o \in Op, NEW k \in 0..Cells
  PROVE  Sound(Prepared(r, o, k))
  <1>1. Unfinished(r) = {}
    BY CellsAssumption DEF Unfinished, RootOK, Root, Cell
  <1>2. Prepared(r, o, k).proofs = r.proofs
    BY DEF Prepared, Root
  <1> QED BY <1>1, <1>2 DEF Sound

\* Publishing the proof of rows that Recorder holds is sound.
LEMMA SoundVerified ==
  ASSUME NEW r \in Root, RootOK(r), r.pend # 0, Sound(r),
         native[r.pend] \in {r.op, Foreign}
  PROVE  Sound(Verified(r))
  <1>1. /\ r.pend = r.cursor + 1 /\ r.pend \in Cell /\ r.cursor \in 0..Cells
        /\ r.count \in 0..Cells /\ r.proofs \in [Cell -> Op]
    BY CellsAssumption DEF Root, RootOK, Cell
  <1>2. /\ Verified(r).cursor = r.pend /\ Verified(r).count = r.count
        /\ Verified(r).proofs = [r.proofs EXCEPT ![r.pend] = r.op]
    BY <1>1 DEF Verified, Root
  <1>3. \A c \in Cell : c \in Unfinished(r) <=> c = r.pend \/ c \in Unfinished(Verified(r))
    BY <1>1, <1>2, VerifiedOK, CellsAssumption DEF Unfinished, Cell, RootOK, Root
  <1>4. ASSUME NEW c \in Cell \ Unfinished(Verified(r))
        PROVE  native[c] \in {Verified(r).proofs[c], Foreign}
    <2>1. CASE c = r.pend
      BY <1>1, <1>2, <2>1
    <2>2. CASE c # r.pend
      BY <1>1, <1>2, <1>3, <2>2 DEF Sound
    <2> QED BY <2>1, <2>2
  <1> QED BY <1>4 DEF Sound

\* The open manager starts the save of a sound root.
LEMMA SoundSave ==
  ASSUME SoundRoots, NEW m \in Manager, open = m, TypeOK,
         NEW r \in Root, NEW old \in Root, NEW next \in SaveWait,
         StartSave(m, r, old, next), UNCHANGED <<disk, native, open>>,
         Sound(r), old.op # 0 => Sound(old)
  PROVE  SoundRoots'
  <1>1. task'.root = r /\ cache'[m] \in {r, old} /\ pc'[m] # "publish"
    BY DEF StartSave, TypeOK, SaveWait
  <1> QED BY <1>1 DEF SoundRoots, Sound

\* The coroutine of the open manager moves on without starting a save.
LEMMA SoundMove ==
  ASSUME SoundRoots, NEW m \in Manager, open = m,
         UNCHANGED <<disk, native, open>>,
         SavePending' => SavePending /\ task' = task,
         cache'[m] \in {cache[m], disk},
         pc'[m] = "publish" => native[cache'[m].pend] \in {cache'[m].op, Foreign}
  PROVE  SoundRoots'
  BY DEF SoundRoots, Sound

\* Journaling a failure keeps every root sound.
LEMMA SoundFail ==
  ASSUME SoundRoots, Inv, NEW m \in Manager, open = m, NEW r \in {cache[m], disk},
         Fail(m, r), UNCHANGED <<disk, native, open>>
  PROVE  SoundRoots'
  <1>1. r \in Root /\ RootOK(r) /\ TypeOK
    BY InvFacts DEF TypeOK, RootsOK
  <1>2. CASE r.status # "completed"
    <2>1. Sound(r)
      BY <1>1, <1>2, BlockedOK DEF SoundRoots
    <2>2. StartSave(m, Blocked(r), r, "failSave") /\ "failSave" \in SaveWait
      BY <1>2 DEF Fail, SaveWait
    <2> QED BY <1>1, <1>2, <2>1, <2>2, BlockedOK, SoundHourly, SoundSave
  <1>3. CASE r.status = "completed"
    <2>1. cache'[m] = r /\ pc'[m] = "idle" /\ task' = NoTask
      BY <1>1, <1>3 DEF Fail, TypeOK
    <2> QED BY <2>1, SoundMove DEF SavePending, NoTask
  <1> QED BY <1>2, <1>3

\* Every step of a coroutine keeps every root sound.
LEMMA SoundStep ==
  ASSUME SoundRoots, Inv, NEW m \in Manager, Step(m)
  PROVE  SoundRoots'
  <1> USE InvFacts
  <1>1. CASE Seal(m)
    BY <1>1 DEF Seal, SoundRoots, Sound, TypeOK, SavePending
  <1>2. CASE Install(m)
    <2>1. PICK k \in 0..Cells : StartSave(m, Prepared(disk, sealed, k), disk, "prepSave")
      BY <1>2 DEF Install
    <2>2. /\ open = m /\ disk.pend = 0 /\ sealed \in Op /\ sealed # 0
          /\ disk \in Root /\ RootOK(disk) /\ disk.status = "completed"
          /\ Sound(disk) /\ UNCHANGED <<disk, native, open>> /\ "prepSave" \in SaveWait
      BY <1>2 DEF Install, WaitersOK, TypeOK, RootsOK, SoundRoots, durable, SaveWait
    <2>3. Prepared(disk, sealed, k) \in Root /\ Sound(Prepared(disk, sealed, k))
      BY <2>2, PreparedOK, SoundPrepared
    <2> QED BY <2>1, <2>2, <2>3, SoundSave
  <1>3. CASE Adopt(m)
    <2>1. /\ open = m /\ disk = task.root /\ disk \in Root /\ RootOK(disk) /\ Sound(disk)
          /\ UNCHANGED <<disk, native, open>> /\ "adoptSave" \in SaveWait
          /\ StartSave(m, Hourly(disk), disk, "adoptSave")
      BY <1>3 DEF Adopt, WaitersOK, TypeOK, RootsOK, SaveWait, SoundRoots, durable
    <2> QED BY <2>1, HourlyOK, SoundHourly, SoundSave
  <1>4. CASE Replay(m)
    <2>1. /\ open = m /\ disk \in Root /\ RootOK(disk) /\ Sound(disk)
          /\ UNCHANGED <<disk, native, open>> /\ {"adoptSave", "replaySave"} \subseteq SaveWait
      BY <1>4 DEF Replay, TypeOK, RootsOK, SaveWait, SoundRoots, durable
    <2>2. CASE StartSave(m, Hourly(disk), disk, "adoptSave")
      BY <2>1, <2>2, HourlyOK, SoundHourly, SoundSave
    <2>3. CASE disk.status = "blocked" /\ StartSave(m, Resumed(disk), disk, "replaySave")
      BY <2>1, <2>3, ResumedOK, SoundHourly, SoundSave
    <2>4. CASE cache' = [cache EXCEPT ![m] = disk] /\ UNCHANGED <<marker, task, pc>>
      <3>1. cache'[m] = disk /\ pc'[m] = "idle"
        BY <1>4, <2>4 DEF Replay, TypeOK
      <3> QED BY <2>1, <2>4, <3>1, SoundMove DEF SavePending
    <2> QED BY <1>4, <2>2, <2>3, <2>4 DEF Replay
  <1>5. CASE Partition(m)
    <2>1. cache'[m] = disk /\ pc'[m] = "idle"
      BY <1>5 DEF Partition, TypeOK
    <2> QED BY <1>5, <2>1, SoundMove DEF Partition, durable, SavePending
  <1>6. CASE Advance(m)
    <2>1. cache'[m] \in {cache[m], disk} /\ pc'[m] # "publish"
      BY <1>6 DEF Advance, TypeOK
    <2> QED BY <1>6, <2>1, SoundMove DEF Advance, durable, SavePending
  <1>7. CASE LoadFails(m)
    BY <1>7, SoundFail DEF LoadFails, durable
  <1>8. CASE Resume(m)
    <2>1. /\ open = m /\ cache[m] = disk /\ disk \in Root /\ RootOK(disk) /\ Sound(disk)
          /\ UNCHANGED <<disk, native, open>> /\ "resumeSave" \in SaveWait
      BY <1>8, WorkFacts DEF Resume, SaveWait, SoundRoots, durable
    <2>2. StartSave(m, Hourly(disk), disk, "resumeSave")
      BY <1>8, <2>1 DEF Resume
    <2> QED BY <2>1, <2>2, HourlyOK, SoundHourly, SoundSave
  <1>9. CASE Intend(m)
    <2>1. /\ open = m /\ cache[m] = disk /\ disk \in Root /\ RootOK(disk) /\ Sound(disk)
          /\ UNCHANGED <<disk, native, open>> /\ "intentSave" \in SaveWait
          /\ disk.phase = "hourly"
      BY <1>9, WorkFacts DEF Intend, SaveWait, SoundRoots, durable
    <2>2. CASE StartSave(m, Intended(disk), disk, "intentSave")
      <3>1. disk.status # "completed"
        BY <1>9, <2>1 DEF Intend, WaitersOK, Busy
      <3> QED BY <2>1, <2>2, <3>1, IntendedOK, SoundHourly, SoundSave
    <2>3. CASE Fail(m, cache[m])
      BY <2>1, <2>3, SoundFail
    <2> QED BY <1>9, <2>1, <2>2, <2>3 DEF Intend
  <1>10. CASE Reconcile(m)
    <2>1. /\ open = m /\ cache[m] = disk /\ UNCHANGED <<disk, native, open>>
      BY <1>10, WorkFacts DEF Reconcile, durable
    <2>2. CASE /\ native[cache[m].pend] = cache[m].op
               /\ pc' = [pc EXCEPT ![m] = "publish"] /\ UNCHANGED <<task, queue, cache>>
      BY <2>1, <2>2, SoundMove DEF SavePending
    <2>3. CASE pc' = [pc EXCEPT ![m] = "readback"] /\ UNCHANGED <<task, cache>>
      <3>1. pc'[m] = "readback"
        BY <2>3 DEF TypeOK
      <3> QED BY <2>1, <2>3, <3>1, SoundMove DEF SavePending
    <2>4. CASE Fail(m, cache[m])
      BY <2>1, <2>4, SoundFail
    <2> QED BY <1>10, <2>2, <2>3, <2>4 DEF Reconcile
  <1>11. CASE Readback(m)
    <2>1. open = m /\ UNCHANGED <<disk, native, open>>
      BY <1>11 DEF Readback, durable
    <2>2. CASE /\ native[cache[m].pend] = cache[m].op /\ UNCHANGED <<task, cache>>
      BY <2>1, <2>2, SoundMove DEF SavePending
    <2>3. CASE Fail(m, cache[m])
      BY <2>1, <2>3, SoundFail
    <2> QED BY <1>11, <2>2, <2>3 DEF Readback
  <1>12. CASE Publish(m)
    <2>1. /\ open = m /\ cache[m] = disk /\ disk \in Root /\ RootOK(disk) /\ Sound(disk)
          /\ UNCHANGED <<disk, native, open>> /\ "proofSave" \in SaveWait
          /\ native[disk.pend] \in {disk.op, Foreign} /\ disk.pend # 0
      BY <1>12, WorkFacts DEF Publish, SaveWait, SoundRoots, durable, WaitersOK
    <2>2. StartSave(m, Verified(disk), disk, "proofSave")
      BY <1>12, <2>1 DEF Publish
    <2> QED BY <2>1, <2>2, VerifiedOK, SoundVerified, SoundSave
  <1>13. CASE Saved(m)
    <2>1. /\ open = m /\ cache'[m] = disk /\ pc'[m] # "publish" /\ task' = NoTask
      BY <1>13 DEF Saved, WaitersOK, TypeOK
    <2> QED BY <1>13, <2>1, SoundMove DEF Saved, durable, SavePending, NoTask
  <1>14. CASE SaveRaised(m)
    <2>1. open = m /\ UNCHANGED <<disk, native, open>>
      BY <1>14 DEF SaveRaised, durable
    <2>2. CASE Fail(m, cache[m])
      BY <2>1, <2>2, SoundFail
    <2>3. CASE pc' = [pc EXCEPT ![m] = "idle"] /\ task' = NoTask /\ UNCHANGED cache
      <3>1. pc'[m] = "idle"
        BY <2>3 DEF TypeOK
      <3> QED BY <2>1, <2>3, <3>1, SoundMove DEF SavePending, NoTask
    <2> QED BY <1>14, <2>2, <2>3 DEF SaveRaised
  <1>15. CASE StepRaises(m)
    <2>1. open = m /\ UNCHANGED <<disk, native, open>>
      BY <1>15 DEF StepRaises, durable
    <2>2. CASE pc' = [pc EXCEPT ![m] = "idle"] /\ UNCHANGED <<task, cache>>
      <3>1. pc'[m] = "idle"
        BY <2>2 DEF TypeOK
      <3> QED BY <2>1, <2>2, <3>1, SoundMove DEF SavePending
    <2>3. CASE /\ pc[m] = "prepSave" /\ task.state = "done"
               /\ pc' = [pc EXCEPT ![m] = "idle"] /\ task' = NoTask
               /\ cache' = [cache EXCEPT ![m] = task.root]
      <3>1. pc'[m] = "idle" /\ cache'[m] = disk
        BY <2>1, <2>3 DEF TypeOK, WaitersOK, SaveWait
      <3> QED BY <2>1, <2>3, <3>1, SoundMove DEF SavePending, NoTask
    <2>4. CASE Fail(m, cache[m])
      BY <2>1, <2>4, SoundFail
    <2>5. CASE pc[m] = "proofSave" /\ task.state = "done" /\ Fail(m, task.root)
      <3>1. task.root = disk
        BY <2>1, <2>5 DEF WaitersOK, SaveWait
      <3> QED BY <2>1, <2>5, <3>1, SoundFail
    <2> QED BY <1>15, <2>2, <2>3, <2>4, <2>5 DEF StepRaises
  <1>16. CASE Cancel(m)
    <2>1. pc'[m] = "idle"
      BY <1>16 DEF Cancel, TypeOK
    <2> QED BY <1>16, <2>1, SoundMove DEF Cancel, durable, SavePending
  <1>17. CASE Abandon(m)
    BY <1>17 DEF Abandon, durable, SoundRoots, Sound, SavePending, TypeOK
  <1> QED BY <1>1, <1>2, <1>3, <1>4, <1>5, <1>6, <1>7, <1>8, <1>9, <1>10, <1>11, <1>12,
             <1>13, <1>14, <1>15, <1>16, <1>17 DEF Step

\* Every step keeps every root sound.
LEMMA SoundNext ==
  ASSUME SoundRoots, Inv, [Next]_vars
  PROVE  SoundRoots'
  <1> USE InvFacts DEF manager, durable
  <1>1. CASE SaveLands
    BY <1>1 DEF SaveLands, SoundRoots, Sound, SavePending, TypeOK
  <1>2. CASE SaveFails
    BY <1>2 DEF SaveFails, SoundRoots, Sound, SavePending, TypeOK
  <1>3. CASE RecorderRuns
    <2> DEFINE c == Head(queue)[1]
               o == Head(queue)[2]
    <2>1. c \in Cell /\ o \in Op /\ queue # <<>> /\ disk.pend = c /\ disk.op = o
      BY <1>3 DEF RecorderRuns, TypeOK, WriteAhead
    <2>2. native' = [native EXCEPT ![c] = o] /\ UNCHANGED <<disk, task, open, cache, pc>>
      BY <1>3 DEF RecorderRuns
    <2>3. \A r \in Root : RootOK(r) /\ r.pend = c => c \in Unfinished(r)
      BY <2>1, CellsAssumption DEF Root, RootOK, Unfinished, Cell
    <2> DEFINE Kept(r) == \A d \in Cell \ Unfinished(r) :
                            native'[d] \in {r.proofs[d], Foreign}
    <2>4. \A r \in Root : RootOK(r) /\ r.pend = c /\ Sound(r) => Kept(r)
      BY <2>1, <2>2, <2>3 DEF Sound, TypeOK
    <2> HIDE DEF Kept, c, o
    <2>5. Kept(disk)
      BY <2>1, <2>4 DEF SoundRoots, TypeOK, RootsOK
    <2>6. SavePending => Kept(task.root)
      <3>1. SavePending => task.root.pend = c
        BY <2>1 DEF TaskKeepsIntent, SameIntent, Cell
      <3> QED BY <2>4, <3>1 DEF SoundRoots, TypeOK, RootsOK
    <2>7. ASSUME NEW m \in Manager, open = m, cache[m].op # 0
          PROVE  Kept(cache[m])
      <3>1. cache[m].pend = c
        BY <2>1, <2>7 DEF CacheKeepsIntent, SameIntent, Cell
      <3> QED BY <2>4, <2>7, <3>1 DEF SoundRoots, TypeOK, RootsOK
    <2>8. \A m \in Manager : ~(open = m /\ pc[m] = "publish")
      BY <2>1 DEF WaitersOK
    <2> QED BY <2>2, <2>5, <2>6, <2>7, <2>8 DEF SoundRoots, Sound, SavePending, Kept
  <1>4. CASE RecorderDrops
    BY <1>4 DEF RecorderDrops, SoundRoots, Sound, SavePending
  <1>5. CASE ForeignWrite
    BY <1>5 DEF ForeignWrite, SoundRoots, Sound, Unfinished, SavePending, TypeOK
  <1>6. CASE FlushMarker
    BY <1>6 DEF FlushMarker, SoundRoots, Sound, SavePending
  <1>7. CASE SetUp
    <2>1. \A m \in Manager : open' = m => cache[m] = NoRoot /\ pc[m] = "idle"
      BY <1>7, BoundsAssumption DEF SetUp, FreshManagers, TypeOK, Manager
    <2> QED BY <1>7, <2>1, NoRootOK DEF SetUp, SoundRoots, Sound, SavePending
  <1>8. CASE Unload
    <2>1. \A m \in Manager : open' # m
      BY <1>8, BoundsAssumption DEF Unload, Manager
    <2> QED BY <1>8, <2>1 DEF Unload, SoundRoots, Sound, SavePending
  <1>9. CASE Crash
    <2>1. \A m \in Manager : open' # m
      BY <1>9, BoundsAssumption DEF Crash, Manager
    <2> QED BY <1>9, <2>1 DEF Crash, SoundRoots, Sound, SavePending, NoTask
  <1>10. CASE UNCHANGED vars
    BY <1>10 DEF vars, SoundRoots, Sound, SavePending
  <1> QED BY <1>1, <1>2, <1>3, <1>4, <1>5, <1>6, <1>7, <1>8, <1>9, <1>10, SoundStep DEF Next

\* In every behaviour every root that is or may be journalled agrees with
\* Recorder.
LEMMA SoundRootsHold == Spec => []SoundRoots
  <1>1. Init => SoundRoots
    BY NoRootOK DEF Init, SoundRoots, Sound, NoRoot, NoTask, SavePending
  <1>2. Inv /\ SoundRoots /\ [Next]_vars => SoundRoots'
    BY SoundNext
  <1> QED BY <1>1, <1>2, InvHolds, PTL DEF Spec

\* Every proof a reader is shown describes the rows Recorder holds, unless
\* somebody else wrote them.
THEOREM ProofMatchesNativeHolds == Spec => []ProofMatchesNative
  <1>1. SoundRoots => ProofMatchesNative
    BY DEF SoundRoots, Sound, ProofMatchesNative
  <1> QED BY <1>1, SoundRootsHold, PTL

(***************************************************************************)
(* The third layer: lineage of the roots that may still be journalled.     *)
(***************************************************************************)
\* Phase, status and intent are not shown: such a change revises nothing.
LEMMA SameAfterMove ==
  ASSUME NEW r \in Root
  PROVE  /\ Same(Hourly(r), r) /\ Same(Blocked(r), r)
         /\ Same(Resumed(r), r) /\ Same(Intended(r), r)
  BY DEF Same, Hourly, Blocked, Resumed, Intended, Root

\* Roots that look the same have the same lineage.
LEMMA SameLineage ==
  ASSUME NEW r, NEW s, Same(s, r)
  PROVE  /\ ProofsNotNewer(r) => ProofsNotNewer(s)
         /\ Revises(s, r) /\ Revises(r, s) /\ Revises(r, r)
         /\ \A t : Revises(r, t) => Revises(s, t)
  BY DEF Same, ProofsNotNewer, Revises, Ahead, Replaces

\* The root that publishes the intent of r is one proof ahead of r.
LEMMA VerifiedAhead ==
  ASSUME NEW r \in Root, RootOK(r), r.pend # 0, ProofsNotNewer(r)
  PROVE  Ahead(Verified(r), r) /\ ProofsNotNewer(Verified(r))
  <1>1. /\ r.pend = r.cursor + 1 /\ r.pend \in Cell /\ r.op \in Op
        /\ r.proofs \in [Cell -> Op]
    BY CellsAssumption DEF Root, RootOK, Cell
  <1>2. /\ Verified(r).op = r.op /\ Verified(r).count = r.count
        /\ Verified(r).cursor = r.pend
        /\ Verified(r).proofs = [r.proofs EXCEPT ![r.pend] = r.op]
    BY <1>1 DEF Verified, Root
  <1>3. Ahead(Verified(r), r)
    BY <1>1, <1>2 DEF Ahead
  <1>4. \A c \in Cell : Verified(r).proofs[c] \in {r.proofs[c], r.op}
    BY <1>1, <1>2
  <1>5. ProofsNotNewer(Verified(r))
    BY <1>1, <1>2, <1>4, BoundsAssumption DEF ProofsNotNewer, Op
  <1> QED BY <1>3, <1>5

\* A later operation accepted over a finished root replaces it.
LEMMA PreparedReplaces ==
  ASSUME NEW r \in Root, RootOK(r), r.status = "completed", ProofsNotNewer(r),
         NEW o \in Op, r.op < o, NEW k \in 0..Cells
  PROVE  Replaces(Prepared(r, o, k), r) /\ ProofsNotNewer(Prepared(r, o, k))
  <1>1. /\ Prepared(r, o, k).op = o /\ Prepared(r, o, k).cursor = 0
        /\ Prepared(r, o, k).proofs = r.proofs
    BY DEF Prepared, Root
  <1>2. r.cursor = r.count /\ r.op \in Int /\ o \in Int
        /\ \A c \in Cell : r.proofs[c] \in Int
    BY BoundsAssumption DEF RootOK, Root, Op
  <1> QED BY <1>1, <1>2 DEF Replaces, ProofsNotNewer

\* The open manager starts the save of a root one step from the durable one.
LEMMA LineageSave ==
  ASSUME Lineage, NEW m \in Manager, open = m, TypeOK,
         NEW r \in Root, NEW old \in Root, NEW next \in SaveWait,
         StartSave(m, r, old, next), UNCHANGED <<disk, sealed, open>>,
         base' = base \/ base' = [base EXCEPT ![m] = NoRoot],
         ProofsNotNewer(r), ProofsNotNewer(old),
         Revises(r, disk) \/ (Ahead(r, disk) /\ disk.pend = r.cursor /\ ~Suppressing(r)),
         old.status # "completed" => Revises(old, disk) /\ Revises(old, r)
  PROVE  Lineage'
  <1>1. /\ task'.root = r /\ pc'[m] # "sealed"
        /\ cache'[m] = IF Suppressing(r) THEN r ELSE old
        /\ \A n \in Manager : n # m => cache'[n] = cache[n]
    BY DEF StartSave, TypeOK, SaveWait
  <1>2. Same(r, r)
    BY DEF Same
  <1>3. /\ ProofsNotNewer(cache'[m])
        /\ cache'[m].status # "completed" =>
             Revises(cache'[m], disk) /\ Revises(cache'[m], r)
    BY <1>1, <1>2 DEF Revises
  <1> QED BY <1>1, <1>3 DEF Lineage

\* The coroutine of the open manager moves on without starting a save.
LEMMA LineageMove ==
  ASSUME Lineage, NEW m \in Manager, open = m, TypeOK,
         UNCHANGED <<disk, sealed, open>>,
         task' = task \/ (~SavePending /\ task' = NoTask),
         cache' = cache \/ (cache' = [cache EXCEPT ![m] = disk] /\ ~SavePending),
         base' = base \/ base' = [base EXCEPT ![m] = NoRoot],
         pc'[m] # "sealed"
  PROVE  Lineage'
  <1>1. ProofsNotNewer(NoRoot)
    BY DEF ProofsNotNewer, NoRoot
  <1>2. /\ SavePending' => SavePending /\ task' = task
        /\ ProofsNotNewer(task'.root)
    BY <1>1 DEF SavePending, NoTask, Lineage
  <1>3. CASE cache' = cache
    BY <1>2, <1>3 DEF Lineage
  <1>4. CASE cache' = [cache EXCEPT ![m] = disk] /\ ~SavePending
    <2>1. /\ cache'[m] = disk /\ \A n \in Manager : n # m => cache'[n] = cache[n]
      BY <1>4 DEF TypeOK
    <2>2. Revises(disk, disk)
      BY DEF Revises, Same
    <2> QED BY <1>2, <1>4, <2>1, <2>2 DEF Lineage
  <1> QED BY <1>3, <1>4

\* Journaling a failure revises nothing that the failed root did not.
LEMMA LineageFail ==
  ASSUME Lineage, Inv, NEW m \in Manager, open = m, ~SavePending,
         NEW r \in {cache[m], disk}, Fail(m, r), UNCHANGED <<disk, sealed, open, base>>
  PROVE  Lineage'
  <1>1. r \in Root /\ RootOK(r) /\ TypeOK /\ ProofsNotNewer(r)
    BY InvFacts DEF TypeOK, RootsOK, Lineage
  <1>2. CASE r.status # "completed"
    <2>1. StartSave(m, Blocked(r), r, "failSave") /\ "failSave" \in SaveWait
      BY <1>2 DEF Fail, SaveWait
    <2>2. Revises(r, disk)
      BY <1>2 DEF Lineage, Revises, Same
    <2>3. /\ ProofsNotNewer(Blocked(r)) /\ Revises(r, Blocked(r))
          /\ Revises(Blocked(r), disk)
      BY <1>1, <2>2, SameAfterMove, SameLineage
    <2> QED BY <1>1, <1>2, <2>1, <2>2, <2>3, BlockedOK, LineageSave
  <1>3. CASE r.status = "completed"
    <2>1. /\ cache' = [cache EXCEPT ![m] = r] /\ pc'[m] = "idle" /\ task' = NoTask
      BY <1>1, <1>3 DEF Fail, TypeOK
    <2>2. cache' = cache \/ cache' = [cache EXCEPT ![m] = disk]
      BY <2>1, <1>1 DEF TypeOK
    <2> QED BY <1>1, <2>1, <2>2, LineageMove
  <1> QED BY <1>2, <1>3

\* A save that only changes phase, status or intent of the durable root.
LEMMA LineageResave ==
  ASSUME Lineage, NEW m \in Manager, open = m, TypeOK,
         NEW r \in Root, Same(r, disk), NEW next \in SaveWait,
         StartSave(m, r, disk, next), UNCHANGED <<disk, sealed, open, base>>
  PROVE  Lineage'
  <1>1. /\ ProofsNotNewer(r) /\ ProofsNotNewer(disk)
        /\ Revises(r, disk) /\ Revises(disk, r) /\ Revises(disk, disk)
    BY SameLineage DEF Lineage
  <1>2. disk \in Root
    BY DEF TypeOK
  <1> QED BY <1>1, <1>2, LineageSave

\* Every step of a coroutine keeps the lineage of the roots.
LEMMA LineageStep ==
  ASSUME Lineage, Inv, NEW m \in Manager, Step(m)
  PROVE  Lineage'
  <1> USE InvFacts
  <1>1. CASE Seal(m)
    <2>1. /\ base'[m] = disk /\ sealed' = sealed + 1 /\ disk.op <= sealed
          /\ disk.op \in Int /\ sealed \in Int /\ open = m
          /\ UNCHANGED <<disk, task, open, cache>>
      BY <1>1, BoundsAssumption DEF Seal, TypeOK, Op, Root, OpsAreSealed
    <2>2. base'[m].op < sealed'
      BY <2>1
    <2> QED BY <1>1, <2>1, <2>2 DEF Lineage, SavePending, Seal
  <1>2. CASE Install(m)
    <2>1. PICK k \in 0..Cells : StartSave(m, Prepared(disk, sealed, k), disk, "prepSave")
      BY <1>2 DEF Install
    <2>2. /\ open = m /\ disk.pend = 0 /\ sealed \in Op /\ sealed # 0
          /\ disk \in Root /\ RootOK(disk) /\ disk.status = "completed"
          /\ disk.op < sealed /\ "prepSave" \in SaveWait
          /\ UNCHANGED <<disk, sealed, open>> /\ base' = [base EXCEPT ![m] = NoRoot]
      BY <1>2 DEF Install, WaitersOK, TypeOK, RootsOK, Lineage, durable, SaveWait
    <2>3. /\ Prepared(disk, sealed, k) \in Root /\ ProofsNotNewer(disk)
          /\ Replaces(Prepared(disk, sealed, k), disk)
          /\ ProofsNotNewer(Prepared(disk, sealed, k))
      BY <2>2, PreparedOK, PreparedReplaces DEF Lineage
    <2> QED BY <2>1, <2>2, <2>3, LineageSave DEF Revises
  <1>3. CASE Adopt(m)
    <2>1. /\ open = m /\ disk = task.root /\ disk \in Root /\ RootOK(disk)
          /\ UNCHANGED <<disk, sealed, open, base>> /\ "adoptSave" \in SaveWait
          /\ StartSave(m, Hourly(disk), disk, "adoptSave")
      BY <1>3 DEF Adopt, WaitersOK, TypeOK, RootsOK, SaveWait, durable
    <2> QED BY <2>1, HourlyOK, SameAfterMove, LineageResave
  <1>4. CASE Replay(m)
    <2>1. /\ open = m /\ disk \in Root /\ RootOK(disk) /\ ~SavePending
          /\ UNCHANGED <<disk, sealed, open, base>>
          /\ {"adoptSave", "replaySave"} \subseteq SaveWait
      BY <1>4 DEF Replay, TypeOK, RootsOK, SaveWait, durable
    <2>2. CASE StartSave(m, Hourly(disk), disk, "adoptSave")
      BY <2>1, <2>2, HourlyOK, SameAfterMove, LineageResave
    <2>3. CASE disk.status = "blocked" /\ StartSave(m, Resumed(disk), disk, "replaySave")
      BY <2>1, <2>3, ResumedOK, SameAfterMove, LineageResave
    <2>4. CASE cache' = [cache EXCEPT ![m] = disk] /\ UNCHANGED <<marker, task, pc>>
      <3>1. pc'[m] # "sealed"
        BY <1>4, <2>4 DEF Replay
      <3> QED BY <2>1, <2>4, <3>1, LineageMove
    <2> QED BY <1>4, <2>2, <2>3, <2>4 DEF Replay
  <1>5. CASE Partition(m)
    BY <1>5, LineageMove DEF Partition, durable
  <1>6. CASE Advance(m)
    <2>1. /\ pc'[m] # "sealed" /\ ~SavePending /\ open = m
          /\ cache' = cache \/ cache' = [cache EXCEPT ![m] = disk]
          /\ UNCHANGED <<disk, sealed, open, base, task>>
      BY <1>6 DEF Advance, TypeOK, HasPending, durable
    <2> QED BY <2>1, LineageMove
  <1>7. CASE LoadFails(m)
    BY <1>7, LineageFail DEF LoadFails, HasPending, durable
  <1>8. CASE Resume(m)
    <2>1. /\ open = m /\ cache[m] = disk /\ disk \in Root /\ RootOK(disk)
          /\ UNCHANGED <<disk, sealed, open, base>> /\ "resumeSave" \in SaveWait
      BY <1>8, WorkFacts DEF Resume, SaveWait, durable
    <2>2. StartSave(m, Hourly(disk), disk, "resumeSave")
      BY <1>8, <2>1 DEF Resume
    <2> QED BY <2>1, <2>2, HourlyOK, SameAfterMove, LineageResave
  <1>9. CASE Intend(m)
    <2>1. /\ open = m /\ cache[m] = disk /\ disk \in Root /\ RootOK(disk) /\ ~SavePending
          /\ UNCHANGED <<disk, sealed, open, base>> /\ "intentSave" \in SaveWait
          /\ disk.phase = "hourly"
      BY <1>9, WorkFacts DEF Intend, SaveWait, durable
    <2>2. CASE StartSave(m, Intended(disk), disk, "intentSave")
      <3>1. disk.status # "completed"
        BY <1>9, <2>1 DEF Intend, WaitersOK, Busy
      <3> QED BY <2>1, <2>2, <3>1, IntendedOK, SameAfterMove, LineageResave
    <2>3. CASE Fail(m, cache[m])
      BY <2>1, <2>3, LineageFail
    <2> QED BY <1>9, <2>1, <2>2, <2>3 DEF Intend
  <1>10. CASE Reconcile(m)
    <2>1. /\ open = m /\ ~SavePending /\ UNCHANGED <<disk, sealed, open, base>>
      BY <1>10, WorkFacts DEF Reconcile, durable
    <2>2. CASE UNCHANGED <<task, cache>> /\ pc'[m] # "sealed"
      BY <2>1, <2>2, LineageMove
    <2>3. CASE Fail(m, cache[m])
      BY <2>1, <2>3, LineageFail
    <2> QED BY <1>10, <2>2, <2>3 DEF Reconcile, TypeOK
  <1>11. CASE Readback(m)
    <2>1. /\ open = m /\ ~SavePending /\ UNCHANGED <<disk, sealed, open, base>>
      BY <1>11, WorkFacts DEF Readback, durable
    <2>2. CASE UNCHANGED <<task, cache>> /\ pc'[m] # "sealed"
      BY <2>1, <2>2, LineageMove
    <2>3. CASE Fail(m, cache[m])
      BY <2>1, <2>3, LineageFail
    <2> QED BY <1>11, <2>2, <2>3 DEF Readback, TypeOK
  <1>12. CASE Publish(m)
    <2>1. /\ open = m /\ cache[m] = disk /\ disk \in Root /\ RootOK(disk) /\ disk.pend # 0
          /\ UNCHANGED <<disk, sealed, open, base>> /\ "proofSave" \in SaveWait
          /\ ProofsNotNewer(disk)
      BY <1>12, WorkFacts DEF Publish, SaveWait, durable, WaitersOK, Lineage
    <2>2. StartSave(m, Verified(disk), disk, "proofSave")
      BY <1>12, <2>1 DEF Publish
    <2>3. /\ Verified(disk) \in Root /\ Ahead(Verified(disk), disk)
          /\ ProofsNotNewer(Verified(disk))
          /\ disk.pend = Verified(disk).cursor /\ ~Suppressing(Verified(disk))
      BY <2>1, VerifiedOK, VerifiedAhead DEF Suppressing
    <2>4. Revises(disk, disk) /\ Revises(disk, Verified(disk))
      BY <2>3 DEF Revises, Same
    <2> QED BY <2>1, <2>2, <2>3, <2>4, LineageSave
  <1>13. CASE Saved(m)
    <2>1. /\ open = m /\ cache' = [cache EXCEPT ![m] = disk] /\ pc'[m] # "sealed"
          /\ task' = NoTask /\ ~SavePending /\ UNCHANGED <<disk, sealed, open, base>>
      BY <1>13 DEF Saved, WaitersOK, TypeOK, SavePending, durable
    <2> QED BY <2>1, LineageMove
  <1>14. CASE SaveRaised(m)
    <2>1. open = m /\ UNCHANGED <<disk, sealed, open, base>> /\ ~SavePending
      BY <1>14 DEF SaveRaised, SavePending, durable
    <2>2. CASE Fail(m, cache[m])
      BY <2>1, <2>2, LineageFail
    <2>3. CASE pc' = [pc EXCEPT ![m] = "idle"] /\ task' = NoTask /\ UNCHANGED cache
      BY <2>1, <2>3, LineageMove DEF TypeOK
    <2> QED BY <1>14, <2>2, <2>3 DEF SaveRaised
  <1>15. CASE StepRaises(m)
    <2>1. open = m /\ UNCHANGED <<disk, sealed, open>>
      BY <1>15 DEF StepRaises, durable
    <2>2. CASE /\ pc' = [pc EXCEPT ![m] = "idle"] /\ UNCHANGED <<task, cache>>
               /\ base' = [base EXCEPT ![m] = NoRoot]
      BY <2>1, <2>2, LineageMove DEF TypeOK
    <2>3. CASE /\ pc[m] = "prepSave" /\ task.state = "done"
               /\ pc' = [pc EXCEPT ![m] = "idle"] /\ task' = NoTask
               /\ cache' = [cache EXCEPT ![m] = task.root] /\ UNCHANGED base
      <3>1. task.root = disk /\ ~SavePending /\ pc'[m] # "sealed"
        BY <2>1, <2>3 DEF TypeOK, WaitersOK, SaveWait, SavePending
      <3> QED BY <2>1, <2>3, <3>1, LineageMove
    <2>4. CASE pc[m] \in {"work", "readback", "publish"} /\ Fail(m, cache[m]) /\ UNCHANGED base
      BY <2>1, <2>4, WorkFacts, LineageFail
    <2>5. CASE /\ pc[m] = "proofSave" /\ task.state = "done" /\ Fail(m, task.root)
               /\ UNCHANGED base
      <3>1. task.root = disk /\ ~SavePending
        BY <2>1, <2>5 DEF WaitersOK, SaveWait, SavePending
      <3> QED BY <2>1, <2>5, <3>1, LineageFail
    <2> QED BY <1>15, <2>2, <2>3, <2>4, <2>5 DEF StepRaises
  <1>16. CASE Cancel(m)
    BY <1>16, LineageMove DEF Cancel, durable, TypeOK
  <1>17. CASE Abandon(m)
    BY <1>17 DEF Abandon, durable, Lineage, SavePending, TypeOK
  <1> QED BY <1>1, <1>2, <1>3, <1>4, <1>5, <1>6, <1>7, <1>8, <1>9, <1>10, <1>11, <1>12,
             <1>13, <1>14, <1>15, <1>16, <1>17 DEF Step

\* Every step keeps the lineage of the roots.
LEMMA LineageNext ==
  ASSUME Lineage, Inv, [Next]_vars
  PROVE  Lineage'
  <1> USE InvFacts DEF manager, durable
  <1>1. CASE SaveLands
    BY <1>1 DEF SaveLands, Lineage, SavePending, TypeOK
  <1>2. CASE SaveFails
    BY <1>2 DEF SaveFails, Lineage, SavePending, TypeOK
  <1>3. CASE RecorderRuns \/ RecorderDrops \/ ForeignWrite \/ FlushMarker \/ UNCHANGED vars
    BY <1>3 DEF RecorderRuns, RecorderDrops, ForeignWrite, FlushMarker, vars, Lineage,
                SavePending
  <1>4. CASE SetUp
    <2>1. \A m \in Manager : open' = m => cache[m] = NoRoot /\ pc[m] = "idle"
      BY <1>4, BoundsAssumption DEF SetUp, FreshManagers, TypeOK, Manager
    <2> QED BY <1>4, <2>1, NoRootOK DEF SetUp, Lineage, SavePending
  <1>5. CASE Unload \/ Crash
    <2>1. \A m \in Manager : open' # m
      BY <1>5, BoundsAssumption DEF Unload, Crash, Manager
    <2>2. ProofsNotNewer(NoRoot)
      BY DEF ProofsNotNewer, NoRoot
    <2> QED BY <1>5, <2>1, <2>2 DEF Unload, Crash, Lineage, SavePending, NoTask
  <1> QED BY <1>1, <1>2, <1>3, <1>4, <1>5, LineageStep DEF Next

(***************************************************************************)
(* What follows for readers of the durable root.                           *)
(***************************************************************************)
\* In every behaviour the roots keep their lineage.
THEOREM LineageHolds == Spec => []Lineage
  <1>1. Init => Lineage
    BY NoRootOK DEF Init, Lineage, ProofsNotNewer, NoRoot, NoTask, SavePending
  <1>2. Inv /\ Lineage /\ [Next]_vars => Lineage'
    BY LineageNext
  <1> QED BY <1>1, <1>2, InvHolds, PTL DEF Spec

\* A cell's published proof only advances from the durable intent for that
\* cell, to the operation of that intent, and while Recorder holds its rows.
THEOREM ProofNeedsIntentHolds == Spec => ProofNeedsIntent
  <1>1. ASSUME Inv, SoundRoots, Lineage, [Next]_vars
        PROVE  [\A c \in Cell : disk'.proofs[c] > disk.proofs[c] =>
                  /\ disk.pend = c /\ disk'.proofs[c] = disk.op
                  /\ native[c] \in {disk.op, Foreign}]_disk
    <2> SUFFICES ASSUME NEW c \in Cell, SavePending, disk' = task.root,
                        disk'.proofs[c] > disk.proofs[c]
                 PROVE  /\ disk.pend = c /\ disk'.proofs[c] = disk.op
                        /\ native[c] \in {disk.op, Foreign}
      BY <1>1, DiskStep
    <2> DEFINE r == task.root
    <2>0. disk \in Root /\ r \in Root
      BY <1>1, InvFacts DEF TypeOK
    <2>1. /\ disk \in Root /\ r \in Root
          /\ \A d \in Cell : disk.proofs[d] \in Int /\ r.proofs[d] \in Int
          /\ disk.op \in Int /\ disk.cursor \in Int /\ r.cursor \in Int
      BY <2>0, BoundsAssumption, CellsAssumption DEF Root, Op
    <2>2. ProofsNotNewer(r) /\ ProofsNotNewer(disk)
      BY <1>1 DEF Lineage
    <2>3. ~Same(r, disk) /\ ~Replaces(r, disk)
      BY <2>1 DEF Same, Replaces
    <2>4. ~Ahead(disk, r)
      <3> SUFFICES ASSUME Ahead(disk, r) PROVE FALSE
        OBVIOUS
      <3>1. disk.proofs[c] \in {r.proofs[c], r.op}
        BY <2>1 DEF Ahead, Root
      <3> QED BY <2>1, <2>2, <3>1 DEF ProofsNotNewer, Ahead
    <2>5. Ahead(r, disk) /\ disk.pend = r.cursor
      BY <1>1, <2>3, <2>4 DEF Lineage, Revises
    <2>6. disk.pend = c /\ r.proofs[c] = disk.op
      BY <2>1, <2>5 DEF Ahead, Root
    <2>7. c \notin Unfinished(r)
      BY <2>1, <2>5, <2>6 DEF Unfinished
    <2> QED BY <1>1, <2>6, <2>7 DEF SoundRoots, Sound
  <1> QED BY <1>1, InvHolds, SoundRootsHold, LineageHolds, PTL DEF Spec, ProofNeedsIntent

\* Publishing the next proof reveals the next window.
LEMMA AheadReveals ==
  ASSUME NEW r \in Root, RootOK(r), NEW s \in Root, RootOK(s), Ahead(r, s)
  PROVE  /\ r.cursor \in Cell /\ r.op = s.op
         /\ r.cursor \in Unfinished(s) /\ r.proofs[r.cursor] = s.op
         /\ \A c \in Cell : c \in Unfinished(r) <=> c \in Unfinished(s) /\ c # r.cursor
         /\ \A c \in Cell : c # r.cursor => r.proofs[c] = s.proofs[c]
  <1>1. /\ r.cursor \in 0..Cells /\ s.cursor \in 0..Cells /\ r.count \in 0..Cells
        /\ r.cursor = s.cursor + 1 /\ r.cursor <= r.count /\ r.count = s.count
        /\ r.op = s.op /\ r.proofs = [s.proofs EXCEPT ![r.cursor] = s.op]
        /\ s.proofs \in [Cell -> Op]
    BY DEF Ahead, Root, RootOK
  <1>2. r.cursor \in Cell
    BY <1>1, CellsAssumption DEF Cell
  <1> QED BY <1>1, <1>2, CellsAssumption DEF Unfinished, Cell

\* The journal implements the ledger: every step of every owner accepts,
\* reveals or withdraws a window, or changes nothing a reader is shown.
THEOREM LedgerImplemented == Spec => ImplementsLedger
  <1>1. ASSUME Init PROVE Ledger!LedgerInit
    <2>1. disk = NoRoot
      BY <1>1 DEF Init
    <2>2. disk.op = 0 /\ Unfinished(disk) = {} /\ \A c \in Cell : disk.proofs[c] = 0
      BY <2>1, CellsAssumption DEF NoRoot, Unfinished, Cell
    <2> QED BY <2>2 DEF Ledger!LedgerInit, Visible, Ledger!Cell, Cell
  <1>2. ASSUME Inv, Lineage, [Next]_vars
        PROVE  [Ledger!LedgerNext]_<<disk.op, Visible>>
    <2>1. CASE disk' = disk
      BY <2>1 DEF Visible, Unfinished
    <2>2. CASE SavePending /\ disk' = task.root
      <3> DEFINE r == task.root
      <3>1. /\ disk \in Root /\ RootOK(disk) /\ r \in Root /\ RootOK(r)
            /\ Visible = [c \in Cell |-> IF c \in Unfinished(disk) THEN -1 ELSE disk.proofs[c]]
            /\ Visible' = [c \in Cell |-> IF c \in Unfinished(r) THEN -1 ELSE r.proofs[c]]
            /\ Ledger!Cell = Cell /\ Ledger!Hidden = -1 /\ disk'.op = r.op
        BY <1>2, <2>2, InvFacts
           DEF TypeOK, RootsOK, Visible, Unfinished, Ledger!Cell, Cell, Ledger!Hidden
      <3>2. CASE Same(r, disk)
        BY <3>1, <3>2 DEF Same, Unfinished
      <3>3. CASE Ahead(disk, r)
        <4>1. /\ disk.cursor \in Cell /\ Visible[disk.cursor] = disk.op
              /\ Visible' = [Visible EXCEPT ![disk.cursor] = -1] /\ disk'.op = disk.op
          BY <3>1, <3>3, AheadReveals
        <4>2. Ledger!Withdraw
          BY <3>1, <4>1 DEF Ledger!Withdraw
        <4> QED BY <4>2 DEF Ledger!LedgerNext
      <3>4. CASE Replaces(r, disk)
        <4>1. /\ disk.op \in Int /\ r.op \in (disk.op + 1)..MaxOps /\ r.count \in 0..Cells
              /\ disk.cursor = disk.count /\ r.cursor = 0 /\ r.proofs = disk.proofs
          BY <3>1, <3>4, BoundsAssumption DEF Replaces, Root, Op
        <4>2. \A c \in Cell : c \notin Unfinished(disk) /\ disk.proofs[c] # -1
          BY <3>1, <4>1, BoundsAssumption, CellsAssumption DEF Unfinished, Root, Op, Cell
        <4>3. \A c \in Cell : c \in Unfinished(r) <=> c <= r.count
          BY <4>1, CellsAssumption DEF Unfinished, Cell
        <4>4. Visible' = [c \in Cell |-> IF c <= r.count THEN -1 ELSE Visible[c]]
          BY <3>1, <4>1, <4>2, <4>3
        <4>5. Ledger!Accept
          BY <3>1, <4>1, <4>2, <4>4 DEF Ledger!Accept
        <4> QED BY <4>5 DEF Ledger!LedgerNext
      <3>5. CASE Ahead(r, disk)
        <4>1. /\ r.cursor \in Cell /\ Visible[r.cursor] = -1
              /\ Visible' = [Visible EXCEPT ![r.cursor] = disk.op] /\ disk'.op = disk.op
          BY <3>1, <3>5, AheadReveals
        <4>2. Ledger!Reveal
          BY <3>1, <4>1 DEF Ledger!Reveal
        <4> QED BY <4>2 DEF Ledger!LedgerNext
      <3> QED BY <1>2, <2>2, <3>2, <3>3, <3>4, <3>5 DEF Lineage, Revises
    <2> QED BY <1>2, <2>1, <2>2, DiskStep
  <1> QED BY <1>1, <1>2, InvHolds, LineageHolds, PTL
          DEF Spec, ImplementsLedger, Ledger!LedgerSpec
=============================================================================
