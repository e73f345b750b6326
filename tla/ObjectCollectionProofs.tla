------------------------ MODULE ObjectCollectionProofs ------------------------
(***************************************************************************)
(* Why collection never deletes what it must keep, for every number of     *)
(* objects, deltas, managers, operations and faults: the inductive         *)
(* invariant of ObjectCollection and the theorems that follow from it.     *)
(***************************************************************************)
EXTENDS ObjectCollection, TLAPS

Name == Object \union Delta \union Source
Root == [keep : SUBSET Object, owed : SUBSET Object, deltas : SUBSET Delta]
Stage == {"idle", "write", "writing", "saving", "collect", "sweeping"}

Types ==
  /\ files \subseteq Name /\ unsynced \subseteq Delta \union Source
  /\ root \in Root /\ save \in [on : BOOLEAN, root : Root, by : Nat]
  /\ lone \subseteq Source
  /\ ops \in Nat /\ gen \in Nat /\ open \in Nat
  /\ pc \in [Manager -> Stage]
  /\ work \in [Manager -> SUBSET Name]
  /\ item \in [Manager -> Name \union {None}]
  /\ next \in [Manager -> Root]
  /\ seen \in [Manager -> [root : Root, retired : SUBSET (Delta \X Name)]]
  /\ sweep \in [by : Nat, keep : SUBSET Object, retired : SUBSET (Delta \X Name),
                 visit : SUBSET Object, target : Name \union {None}]
  /\ jobs \subseteq Manager \X Nat \X Name
  /\ paused \in BOOLEAN /\ backup \in {"no", "waiting", "reading"}

\* Only acquired deltas are on disk or on their way to it.
Acquired ==
  /\ (files \union unsynced) \cap Delta \subseteq DOMAIN base
  /\ \A j \in jobs : j[3] \in Delta => j[3] \in DOMAIN base
  /\ \A m \in Manager : (work[m] \union {item[m]}) \cap Delta \subseteq DOMAIN base

\* No sweep deletes a fresh delta: one that the root lists or may still admit.
Fresh(d) == d \in root.deltas \/ base[d] = root.deltas
Stepped(d) == <<d, original[d]>>

Retirable(x) ==
  /\ x[1] \in Delta \cap DOMAIN base /\ x[2] \in {x[1], original[x[1]]}
  /\ ~Fresh(x[1]) /\ x[2] \notin Reach(root)

\* A fresh manifest names the same original, ...
Spare(d) == \E e \in files \cap Delta : Fresh(e) /\ original[e] = original[d]
\* ... or nothing is left of it but a write without a manifest.
Gone(s) == s \notin files \/ s \in lone

Collectable(retired) ==
  \A x \in retired :
    Retirable(x) /\ (x[2] = x[1] => Spare(x[1]) \/ Stepped(x[1]) \in retired)

SweepOK ==
  IF sweep.by = 0
  THEN sweep.target = None /\ sweep.retired = {}
  ELSE /\ ~save.on /\ root.owed = {} /\ sweep.keep = root.keep
       /\ \A x \in sweep.retired :
            /\ Retirable(x)
            /\ x[2] = x[1] => \/ Spare(x[1]) \/ Stepped(x[1]) \in sweep.retired
                              \/ Gone(original[x[1]]) \/ sweep.target = original[x[1]]
       /\ sweep.target # None =>
            /\ sweep.target \in Name \ Reach(root)
            /\ sweep.target \in Delta =>
                 /\ sweep.target \in DOMAIN base /\ ~Fresh(sweep.target)
                 /\ Spare(sweep.target) \/ Gone(original[sweep.target])

\* What the next root reaches is on disk or still to be written; while a sweep
\* runs nothing was written yet, and the rest is what the durable root reaches.
Writes(m) ==
  pc[m] \in {"write", "writing"} =>
    /\ ~save.on
    /\ Reach(next[m]) \subseteq
         files \union work[m] \union {n \in {item[m]} : pc[m] = "writing"}
    /\ sweep.by # 0 => /\ pc[m] = "write"
                       /\ Reach(next[m]) \subseteq Reach(root) \union work[m]

Collects(m) == pc[m] = "collect" => ~save.on /\ Collectable(seen[m].retired)

Managers ==
  /\ open <= gen /\ \A m \in Manager : m > gen => pc[m] = "idle"
  /\ \A m \in Manager : open = m => Writes(m) /\ Collects(m)

Backups == /\ backup # "no" => paused
           /\ backup = "reading" => sweep.by = 0

Inv == /\ Types /\ Acquired /\ ReachablePresent /\ OriginalsNamed
       /\ SweepOK /\ Managers /\ Backups
(***************************************************************************)
(* Types                                                                   *)
(***************************************************************************)
LEMMA Distinct ==
  /\ None \notin Name /\ Manager \subseteq Nat /\ 0 \notin Manager
  /\ \A d \in Delta : original[d] \in Source /\ original[d] \in Name
  /\ \A n \in Object : n \in Name /\ n \notin Delta /\ n \notin Source
  /\ \A n \in Delta : n \in Name /\ n \notin Object /\ n \notin Source
  /\ \A n \in Source : n \in Name /\ n \notin Object /\ n \notin Delta
  /\ \A n \in Name : n \in Object \/ n \in Delta \/ n \in Source
  BY NamesAssumption, BoundsAssumption DEF Name, Manager

LEMMA InitInv == Init => Inv
  <1> SUFFICES ASSUME Init PROVE Inv
    OBVIOUS
  <1>1. NoRoot \in Root /\ Reach(NoRoot) = {}
    BY DEF NoRoot, Root, Reach
  <1>2. Types
    BY <1>1, Distinct DEF Types, Init, NoSave, NoSeen, NoSweep, Stage
  <1>3. Acquired
    BY Distinct DEF Acquired, Init, Name
  <1>4. ReachablePresent /\ OriginalsNamed
    BY <1>1 DEF ReachablePresent, OriginalsNamed, Init, NoSave
  <1>5. SweepOK /\ Managers /\ Backups
    BY Distinct DEF SweepOK, Managers, Writes, Collects, Backups, Init, NoSweep
  <1> QED BY <1>2, <1>3, <1>4, <1>5 DEF Inv

LEMMA TurnNames == ASSUME NEW names \in SUBSET Name PROVE Turn(names) \subseteq names
  BY DEF Turn

LEMMA TypesBegin ==
  ASSUME Inv, NEW m \in Manager, Begin(m)
  PROVE  Types' /\ Acquired'
  <1>1. Types /\ Acquired
    BY DEF Inv
  <1>2. PICK added \in SUBSET Delta, kept \in SUBSET root.deltas,
             keep \in SUBSET Object, owed \in SUBSET Object :
          /\ next' = [next EXCEPT ![m] = [keep |-> keep, owed |-> owed,
                                          deltas |-> kept \union added]]
          /\ work' = [work EXCEPT ![m] = {original[d] : d \in added} \union added
                                         \union owed \union (keep \ root.keep)]
          /\ base' = [d \in DOMAIN base \union added |->
                        IF d \in added THEN root.deltas ELSE base[d]]
    BY DEF Begin
  <1>3. root \in Root /\ root.deltas \in SUBSET Delta
    BY <1>1 DEF Types, Root
  <1>4. [keep |-> keep, owed |-> owed, deltas |-> kept \union added] \in Root
    BY <1>3 DEF Root
  <1>5. next' \in [Manager -> Root]
    BY <1>1, <1>2, <1>4 DEF Types
  <1> DEFINE names == {original[d] : d \in added} \union added
                     \union owed \union (keep \ root.keep)
  <1>6. names \in SUBSET Name /\ names \cap Delta \subseteq added
    BY Distinct
  <1>7. work' \in [Manager -> SUBSET Name] /\ work' = [work EXCEPT ![m] = names]
    BY <1>1, <1>2, <1>6 DEF Types
  <1>8. pc' \in [Manager -> Stage] /\ ops' \in Nat
    BY <1>1 DEF Types, Begin, Stage
  <1>9. Types'
    BY <1>1, <1>5, <1>7, <1>8 DEF Types, Begin, disk, hold
  <1>10. DOMAIN base' = DOMAIN base \union added
    BY <1>2
  <1>11. \A k \in Manager : (work'[k] \union {item[k]}) \cap Delta \subseteq DOMAIN base'
    BY <1>1, <1>6, <1>7, <1>10 DEF Acquired, Types
  <1> QED BY <1>1, <1>9, <1>10, <1>11 DEF Acquired, Begin, disk

LEMMA TypesWrite ==
  ASSUME Inv, NEW m \in Manager, Write(m)
  PROVE  Types' /\ Acquired'
  <1>1. Types /\ Acquired
    BY DEF Inv
  <1>2. PICK n \in Turn(work[m]) :
          /\ item' = [item EXCEPT ![m] = n]
          /\ work' = [work EXCEPT ![m] = @ \ {n}]
          /\ jobs' = jobs \union {<<m, ops, n>>}
    BY DEF Write, Submit
  <1>3. n \in work[m] /\ n \in Name
    BY <1>1, TurnNames DEF Types
  <1>4. /\ item' \in [Manager -> Name \union {None}]
        /\ work' \in [Manager -> SUBSET Name]
        /\ jobs' \subseteq Manager \X Nat \X Name
        /\ pc' \in [Manager -> Stage]
    BY <1>1, <1>2, <1>3 DEF Types, Write, Submit, Stage
  <1>5. Types'
    BY <1>1, <1>4 DEF Types, Write, Submit, disk, acquired, life, hold
  <1>6. \A j \in jobs' : j[3] \in Delta => j[3] \in DOMAIN base
    BY <1>1, <1>2, <1>3 DEF Acquired
  <1>7. \A k \in Manager : (work'[k] \union {item'[k]}) \cap Delta \subseteq DOMAIN base
    BY <1>1, <1>2, <1>3 DEF Acquired, Types
  <1> QED BY <1>1, <1>5, <1>6, <1>7 DEF Acquired, Write, Submit, disk, acquired

LEMMA TypesJobRuns ==
  ASSUME Inv, JobRuns
  PROVE  Types' /\ Acquired'
  <1>1. Types /\ Acquired
    BY DEF Inv
  <1>2. PICK j \in jobs :
          /\ files' = files \union {j[3]}
          /\ unsynced' = unsynced \ {j[3]}
          /\ lone' = CASE j[3] \in Source -> lone \union ({j[3]} \ files)
                       [] j[3] \in Delta /\ sweep.by = 0 -> lone \ {original[j[3]]}
                       [] OTHER -> lone
          /\ jobs' = jobs \ {j}
          /\ UNCHANGED <<root, save, base, life, faults, flow, sweep, hold>>
    BY DEF JobRuns
  <1>3. j[3] \in Name
    BY <1>1 DEF Types
  <1>4. lone' \subseteq Source
    BY <1>1, <1>2, Distinct DEF Types
  <1>5. Types'
    BY <1>1, <1>2, <1>3, <1>4 DEF Types, life, flow, writing, hold
  <1>6. (files' \union unsynced') \cap Delta \subseteq DOMAIN base
    BY <1>1, <1>2 DEF Acquired
  <1> QED BY <1>1, <1>2, <1>5, <1>6 DEF Acquired, flow, writing

LEMMA TypesWritten ==
  ASSUME Inv, NEW m \in Manager, Written(m)
  PROVE  Types' /\ Acquired'
  <1>1. Types /\ Acquired
    BY DEF Inv
  <1>2. item' = [item EXCEPT ![m] = None] /\ item' \in [Manager -> Name \union {None}]
    BY <1>1 DEF Types, Written
  <1>3. pc' \in [Manager -> Stage]
    BY <1>1 DEF Types, Written, Stage
  <1>4. save' \in [on : BOOLEAN, root : Root, by : Nat]
    <2>1. CASE work[m] # {}
      BY <1>1, <2>1 DEF Types, Written
    <2>2. CASE work[m] = {}
      <3>1. save' = [on |-> TRUE, root |-> next[m], by |-> m]
        BY <2>2 DEF Written
      <3> QED BY <1>1, <3>1, Distinct DEF Types
    <2> QED BY <2>1, <2>2
  <1>5. Types'
    BY <1>1, <1>2, <1>3, <1>4 DEF Types, Written, disk, acquired, life, hold
  <1>6. \A k \in Manager : (work[k] \union {item'[k]}) \cap Delta \subseteq DOMAIN base
    BY <1>1, <1>2, Distinct DEF Acquired, Types
  <1> QED BY <1>1, <1>5, <1>6 DEF Acquired, Written, disk, acquired

LEMMA TypesSave ==
  ASSUME Inv, (\E m \in Manager : Publish(m)) \/ SaveEnds
  PROVE  Types' /\ Acquired'
  <1>1. Types /\ Acquired
    BY DEF Inv
  <1>2. CASE \E m \in Manager : Publish(m)
    <2>1. PICK m \in Manager : Publish(m)
      BY <1>2
    <2>2. PICK p \in root.owed \cap files :
            save' = [on |-> TRUE, by |-> m,
                     root |-> [root EXCEPT !.owed = @ \ {p}, !.keep = @ \union {p}]]
      BY <2>1 DEF Publish
    <2>3. [root EXCEPT !.owed = @ \ {p}, !.keep = @ \union {p}] \in Root
      BY <1>1, <2>2 DEF Types, Root
    <2>4. save' \in [on : BOOLEAN, root : Root, by : Nat]
      BY <2>2, <2>3, Distinct
    <2>5. pc' \in [Manager -> Stage]
      BY <1>1, <2>1 DEF Types, Publish, Stage
    <2>6. Types'
      BY <1>1, <2>1, <2>4, <2>5 DEF Types, Publish, disk, acquired, life, writing, hold
    <2> QED BY <1>1, <2>1, <2>6 DEF Acquired, Publish, disk, acquired, writing
  <1>3. CASE SaveEnds
    <2>1. NoSave \in [on : BOOLEAN, root : Root, by : Nat]
      BY DEF NoSave, NoRoot, Root
    <2>2. root' \in Root
      BY <1>1, <1>3 DEF Types, SaveEnds
    <2>3. pc' \in [Manager -> Stage]
      BY <1>1, <1>3 DEF Types, SaveEnds, Stage
    <2>4. Types'
      BY <1>1, <1>3, <2>1, <2>2, <2>3 DEF Types, SaveEnds, acquired, life, writing, hold
    <2> QED BY <1>1, <1>3, <2>4 DEF Acquired, SaveEnds, acquired, writing
  <1> QED BY <1>2, <1>3

LEMMA RetiredNames ==
  ASSUME NEW r PROVE Retired(r) \subseteq Delta \X Name
  BY Distinct DEF Retired

LEMMA TypesCollect ==
  ASSUME Inv, NEW m \in Manager, Collect(m) \/ StartSweep(m)
  PROVE  Types' /\ Acquired'
  <1>1. Types /\ Acquired
    BY DEF Inv
  <1>2. NoSeen \in [root : Root, retired : SUBSET (Delta \X Name)]
    BY DEF NoSeen, NoRoot, Root
  <1>3. pc' \in [Manager -> Stage]
    BY <1>1 DEF Types, Collect, StartSweep, Stage
  <1>4. CASE Collect(m)
    <2>1. [root |-> root, retired |-> Retired(root)]
             \in [root : Root, retired : SUBSET (Delta \X Name)]
      BY <1>1, RetiredNames DEF Types
    <2>2. seen' \in [Manager -> [root : Root, retired : SUBSET (Delta \X Name)]]
      BY <1>1, <1>4, <2>1 DEF Types, Collect
    <2>3. Types'
      BY <1>1, <1>3, <1>4, <2>2 DEF Types, Collect, disk, acquired, life, writing, hold
    <2> QED BY <1>1, <1>4, <2>3 DEF Acquired, Collect, disk, acquired, writing
  <1>5. CASE StartSweep(m)
    <2>1. seen' \in [Manager -> [root : Root, retired : SUBSET (Delta \X Name)]]
      BY <1>1, <1>2, <1>5 DEF Types, StartSweep
    <2>2. sweep' \in [by : Nat, keep : SUBSET Object, retired : SUBSET (Delta \X Name),
                      visit : SUBSET Object, target : Name \union {None}]
      <3>1. /\ m \in Nat /\ root.keep \in SUBSET Object
            /\ seen[m].retired \in SUBSET (Delta \X Name)
        BY <1>1, Distinct DEF Types, Root
      <3>2. \/ sweep' = sweep
            \/ sweep' = [by |-> m, keep |-> root.keep, retired |-> seen[m].retired,
                         visit |-> Object, target |-> None]
        BY <1>5 DEF StartSweep
      <3> QED BY <1>1, <3>1, <3>2 DEF Types
    <2>3. Types'
      BY <1>1, <1>3, <1>5, <2>1, <2>2
      DEF Types, StartSweep, disk, acquired, life, writing, hold
    <2> QED BY <1>1, <1>5, <2>3 DEF Acquired, StartSweep, disk, acquired, writing
  <1> QED BY <1>4, <1>5

LEMMA TypesSweep ==
  ASSUME Inv, SweepPick \/ SweepUnlink \/ SweepError \/ SweepSync \/ SweepEnds
  PROVE  Types' /\ Acquired'
  <1>1. Types /\ Acquired
    BY DEF Inv
  <1>2. CASE SweepPick
    <2>1. sweep' \in [by : Nat, keep : SUBSET Object, retired : SUBSET (Delta \X Name),
                      visit : SUBSET Object, target : Name \union {None}]
      <3>1. CASE \E x \in Due(sweep.retired) :
                   sweep' = [sweep EXCEPT !.target = x[2], !.retired = @ \ {x}]
        <4>1. PICK x \in sweep.retired :
                     sweep' = [sweep EXCEPT !.target = x[2], !.retired = @ \ {x}]
          BY <3>1 DEF Due
        <4>2. x[2] \in Name
          BY <1>1 DEF Types
        <4> QED BY <1>1, <4>1, <4>2 DEF Types
      <3>2. CASE \E o \in sweep.visit :
                   sweep' = [sweep EXCEPT !.target = IF o \in files \ sweep.keep THEN o
                                                                               ELSE None,
                                          !.visit = @ \ {o}]
        <4>1. PICK o \in sweep.visit :
                   sweep' = [sweep EXCEPT !.target = IF o \in files \ sweep.keep THEN o
                                                                               ELSE None,
                                          !.visit = @ \ {o}]
          BY <3>2
        <4>2. o \in Name
          BY <1>1, Distinct DEF Types
        <4> QED BY <1>1, <4>1, <4>2 DEF Types
      <3> QED BY <1>2, <3>1, <3>2 DEF SweepPick
    <2>2. Types'
      BY <1>1, <1>2, <2>1 DEF Types, SweepPick, disk, acquired, life, flow, writing, hold
    <2> QED BY <1>1, <1>2, <2>2 DEF Acquired, SweepPick, disk, acquired, flow, writing
  <1>3. CASE SweepUnlink
    <2>1. sweep' \in [by : Nat, keep : SUBSET Object, retired : SUBSET (Delta \X Name),
                      visit : SUBSET Object, target : Name \union {None}]
      BY <1>1, <1>3 DEF Types, SweepUnlink
    <2>2. Types'
      BY <1>1, <1>3, <2>1 DEF Types, SweepUnlink, life, flow, writing, hold, Name
    <2> QED BY <1>1, <1>3, <2>2 DEF Acquired, SweepUnlink, flow, writing
  <1>4. CASE SweepError
    <2>1. sweep' \in [by : Nat, keep : SUBSET Object, retired : SUBSET (Delta \X Name),
                      visit : SUBSET Object, target : Name \union {None}]
      BY <1>1, <1>4 DEF Types, SweepError
    <2>2. Types'
      BY <1>1, <1>4, <2>1 DEF Types, SweepError, disk, acquired, life, flow, writing, hold
    <2> QED BY <1>1, <1>4, <2>2 DEF Acquired, SweepError, disk, acquired, flow, writing
  <1>5. CASE SweepSync
    <2>1. Types'
      BY <1>1, <1>5 DEF Types, SweepSync, acquired, life, flow, writing, hold
    <2> QED BY <1>1, <1>5, <2>1 DEF Acquired, SweepSync, acquired, flow, writing
  <1>6. CASE SweepEnds
    <2>1. NoSweep \in [by : Nat, keep : SUBSET Object, retired : SUBSET (Delta \X Name),
                       visit : SUBSET Object, target : Name \union {None}]
      BY DEF NoSweep
    <2>2. pc' \in [Manager -> Stage]
      BY <1>1, <1>6 DEF Types, SweepEnds, Stage
    <2>3. Types'
      BY <1>1, <1>6, <2>1, <2>2 DEF Types, SweepEnds, disk, acquired, life, writing, hold
    <2> QED BY <1>1, <1>6, <2>3 DEF Acquired, SweepEnds, disk, acquired, writing
  <1> QED BY <1>2, <1>3, <1>4, <1>5, <1>6

LEMMA TypesLife ==
  ASSUME Inv,
         \/ \E m \in Manager : Cancel(m) \/ Abandon(m)
         \/ Pause \/ BackupReads \/ EndBackup \/ SetUp \/ Unload \/ Crash
  PROVE  Types' /\ Acquired'
  <1>1. Types /\ Acquired
    BY DEF Inv
  <1>2. NoSeen \in [root : Root, retired : SUBSET (Delta \X Name)] /\ NoRoot \in Root
    BY DEF NoSeen, NoRoot, Root
  <1>3. CASE \E m \in Manager : Cancel(m) \/ Abandon(m)
    <2>1. PICK m \in Manager : Leave(m)
      BY <1>3 DEF Cancel, Abandon
    <2>2. /\ pc' \in [Manager -> Stage] /\ work' \in [Manager -> SUBSET Name]
          /\ item' \in [Manager -> Name \union {None}] /\ next' \in [Manager -> Root]
          /\ seen' \in [Manager -> [root : Root, retired : SUBSET (Delta \X Name)]]
      BY <1>1, <1>2, <2>1 DEF Types, Leave, Stage
    <2>3. Types'
      BY <1>1, <2>1, <2>2 DEF Types, Leave, disk, acquired, life, hold
    <2>4. \A k \in Manager : (work'[k] \union {item'[k]}) \cap Delta \subseteq DOMAIN base
      BY <1>1, <2>1, Distinct DEF Acquired, Types, Leave
    <2> QED BY <1>1, <2>1, <2>3, <2>4 DEF Acquired, Leave, disk, acquired
  <1>4. CASE Pause \/ BackupReads \/ EndBackup \/ SetUp \/ Unload
    <2>1. open' \in Nat /\ gen' \in Nat /\ backup' \in {"no", "waiting", "reading"}
      <3>1. UNCHANGED <<open, gen>> \/ (gen' = gen + 1 /\ open' = gen + 1)
                                    \/ (gen' = gen /\ open' = 0)
        BY <1>4 DEF Pause, BackupReads, EndBackup, SetUp, Unload, life
      <3>2. backup' \in {"no", "waiting", "reading", backup}
        BY <1>4 DEF Pause, BackupReads, EndBackup, SetUp, Unload, hold
      <3>3. open \in Nat /\ gen \in Nat /\ backup \in {"no", "waiting", "reading"}
        BY <1>1 DEF Types
      <3> QED BY <3>1, <3>2, <3>3
    <2>11. paused' \in BOOLEAN
      <3>1. paused' = TRUE \/ paused' = FALSE \/ paused' = paused
        BY <1>4 DEF Pause, BackupReads, EndBackup, SetUp, Unload, hold
      <3>2. paused \in BOOLEAN
        BY <1>1 DEF Types
      <3> QED BY <3>1, <3>2, Zenon
    <2>2. UNCHANGED <<disk, save, acquired, ops, flow, sweep, jobs>>
      BY <1>4 DEF Pause, BackupReads, EndBackup, SetUp, Unload, life, hold
    <2>3. Types'
      BY <1>1, <2>1, <2>11, <2>2 DEF Types, disk, acquired, flow, writing
    <2> QED BY <1>1, <2>2, <2>3 DEF Acquired, disk, acquired, flow, writing
  <1>5. CASE Crash
    <2>1. PICK done \in SUBSET {j[3] : j \in jobs},
               gone \in SUBSET ({sweep.target} \cap files), back \in SUBSET unsynced :
            /\ files' = ((files \ gone) \union done) \union back
            /\ unsynced' = (unsynced \union (gone \ Object)) \ (done \union back)
            /\ lone' = lone \union ((done \cap Source) \ files)
                            \union Orphans(back, ((files \ gone) \union done) \union back)
      BY <1>5 DEF Crash
    <2>2. done \subseteq Name /\ done \cap Delta \subseteq DOMAIN base
      BY <1>1 DEF Types, Acquired
    <2>3. files' \subseteq Name /\ unsynced' \subseteq Delta \union Source /\ lone' \subseteq Source
      <3>1. unsynced \subseteq Name /\ gone \subseteq files
        BY <1>1, Distinct DEF Types
      <3> QED BY <1>1, <2>1, <2>2, <3>1, Distinct DEF Types, Orphans
    <2>4. /\ NoSave \in [on : BOOLEAN, root : Root, by : Nat]
          /\ NoSweep \in [by : Nat, keep : SUBSET Object, retired : SUBSET (Delta \X Name),
                          visit : SUBSET Object, target : Name \union {None}]
      BY <1>2 DEF NoSave, NoSweep
    <2>5. /\ pc' \in [Manager -> Stage] /\ work' \in [Manager -> SUBSET Name]
          /\ item' \in [Manager -> Name \union {None}] /\ next' \in [Manager -> Root]
          /\ seen' \in [Manager -> [root : Root, retired : SUBSET (Delta \X Name)]]
      BY <1>2, <1>5 DEF Crash, Stage
    <2>6. /\ UNCHANGED <<root, base, ops, gen, faults>> /\ open' = 0 /\ save' = NoSave
          /\ sweep' = NoSweep /\ jobs' = {} /\ paused' = FALSE /\ backup' = "no"
      BY <1>5 DEF Crash
    <2>7. Types'
      BY <1>1, <2>3, <2>4, <2>5, <2>6 DEF Types
    <2>8. \A k \in Manager : work'[k] = {} /\ item'[k] = None
      BY <1>5 DEF Crash
    <2>9. (files' \union unsynced') \cap Delta \subseteq DOMAIN base
      BY <1>1, <2>1, <2>2 DEF Acquired
    <2> QED BY <2>6, <2>7, <2>8, <2>9, Distinct DEF Acquired
  <1> QED BY <1>3, <1>4, <1>5

(***************************************************************************)
(* What a step must keep for the rest of the invariant to stay             *)
(***************************************************************************)
Grows ==
  /\ root' = root
  /\ DOMAIN base \subseteq DOMAIN base'
  /\ \A d \in DOMAIN base : base'[d] = base[d]
  /\ \A e \in files \cap Delta : Fresh(e) => e \in files'

LEMMA FreshKept ==
  ASSUME Grows PROVE \A d \in DOMAIN base : Fresh(d)' <=> Fresh(d)
  BY DEF Grows, Fresh

LEMMA SpareKept ==
  ASSUME Inv, Grows PROVE \A d : Spare(d) => Spare(d)'
  <1>1. files \cap Delta \subseteq DOMAIN base
    BY DEF Inv, Acquired
  <1> QED BY <1>1, FreshKept DEF Grows, Spare

LEMMA RetirableKept ==
  ASSUME Grows PROVE \A x : Retirable(x) => Retirable(x)'
  BY FreshKept DEF Grows, Retirable

LEMMA CollectableKept ==
  ASSUME Inv, Grows PROVE \A R : Collectable(R) => Collectable(R)'
  BY SpareKept, RetirableKept DEF Collectable

LEMMA SweepKept ==
  ASSUME Inv, Grows, sweep' = sweep, sweep.by # 0 => ~save'.on,
         sweep.by # 0 => \A s \in Source : Gone(s) => Gone(s)'
  PROVE  SweepOK'
  <1>1. SweepOK
    BY DEF Inv
  <1>2. root' = root
    BY DEF Grows
  <1>3. CASE sweep.by = 0
    BY <1>1, <1>3 DEF SweepOK
  <1>4. CASE sweep.by # 0
    <2>1. ~save'.on /\ root'.owed = {} /\ sweep'.keep = root'.keep
      BY <1>1, <1>2, <1>4 DEF SweepOK
    <2>2. ASSUME NEW x \in sweep.retired
          PROVE  /\ Retirable(x)'
                 /\ x[2] = x[1] => \/ Spare(x[1])' \/ Stepped(x[1]) \in sweep.retired
                                   \/ Gone(original[x[1]])' \/ sweep.target = original[x[1]]
      <3>1. Retirable(x) /\ original[x[1]] \in Source
        BY <1>1, <1>4, <2>2, Distinct DEF SweepOK, Retirable
      <3> QED BY <1>1, <1>4, <2>2, <3>1, SpareKept, RetirableKept DEF SweepOK
    <2>3. ASSUME sweep.target # None
          PROVE  /\ sweep.target \in Name \ Reach(root')
                 /\ sweep.target \in Delta =>
                      /\ sweep.target \in DOMAIN base' /\ ~Fresh(sweep.target)'
                      /\ Spare(sweep.target)' \/ Gone(original[sweep.target])'
      <3>1. sweep.target \in Name \ Reach(root')
        BY <1>1, <1>2, <1>4, <2>3 DEF SweepOK
      <3>2. ASSUME sweep.target \in Delta
            PROVE  /\ sweep.target \in DOMAIN base' /\ ~Fresh(sweep.target)'
                   /\ Spare(sweep.target)' \/ Gone(original[sweep.target])'
        <4>1. PICK t : t = sweep.target
          OBVIOUS
        <4>2. t \in DOMAIN base /\ ~Fresh(t) /\ (Spare(t) \/ Gone(original[t]))
          BY <1>1, <1>4, <2>3, <3>2, <4>1 DEF SweepOK
        <4>3. t \in DOMAIN base' /\ ~Fresh(t)'
          BY <4>2, FreshKept DEF Grows
        <4>4. Spare(t)' \/ Gone(original[t])'
          BY <1>4, <3>2, <4>1, <4>2, SpareKept, Distinct
        <4>5. t = sweep'.target
          BY <4>1
        <4> QED BY <4>1, <4>3, <4>4, <4>5 DEF Fresh, Spare
      <3> QED BY <3>1, <3>2
    <2> QED BY <1>4, <2>1, <2>2, <2>3 DEF SweepOK, Stepped, Spare, Gone, Fresh
  <1> QED BY <1>3, <1>4

Rest == ReachablePresent /\ OriginalsNamed /\ SweepOK /\ Managers /\ Backups

LEMMA RestBegin ==
  ASSUME Inv, NEW m \in Manager, Begin(m)
  PROVE  Rest'
  <1>1. /\ UNCHANGED <<files, unsynced, root, save, lone, gen, open, sweep, paused, backup>>
        /\ open = m /\ ~save.on /\ pc' = [pc EXCEPT ![m] = "write"]
    BY DEF Begin, disk, hold
  <1>2. PICK added \in SUBSET Delta, kept \in SUBSET root.deltas,
             keep \in SUBSET Object, owed \in SUBSET Object :
          /\ \A d \in added : Stageable(d)
          /\ next' = [next EXCEPT ![m] = [keep |-> keep, owed |-> owed,
                                          deltas |-> kept \union added]]
          /\ work' = [work EXCEPT ![m] = {original[d] : d \in added} \union added
                                         \union owed \union (keep \ root.keep)]
          /\ base' = [d \in DOMAIN base \union added |->
                        IF d \in added THEN root.deltas ELSE base[d]]
    BY DEF Begin
  <1>3. added \cap DOMAIN base = {}
    BY <1>2 DEF Stageable
  <1>4. Grows
    BY <1>1, <1>2, <1>3 DEF Grows
  <1>5. ReachablePresent' /\ OriginalsNamed' /\ Backups'
    BY <1>1 DEF Inv, ReachablePresent, OriginalsNamed, Backups
  <1>6. SweepOK'
    BY <1>1, <1>4, SweepKept DEF Inv, SweepOK, Gone
  <1>7. /\ next'[m] = [keep |-> keep, owed |-> owed, deltas |-> kept \union added]
        /\ work'[m] = {original[d] : d \in added} \union added
                      \union owed \union (keep \ root.keep)
    BY <1>2 DEF Inv, Types
  <1>8. Reach(next'[m]) \subseteq Reach(root) \union work'[m]
    BY <1>7 DEF Reach
  <1>9. Reach(root) \subseteq files
    BY DEF Inv, ReachablePresent
  <1>10. pc'[m] = "write" /\ \A k \in Manager : k # m => pc'[k] = pc[k]
    BY <1>1 DEF Inv, Types
  <1>11. Writes(m)' /\ Collects(m)'
    BY <1>1, <1>8, <1>9, <1>10 DEF Writes, Collects
  <1>12. Managers'
    BY <1>1, <1>10, <1>11, Distinct DEF Inv, Types, Managers
  <1> QED BY <1>5, <1>6, <1>12 DEF Rest

LEMMA RestWrite ==
  ASSUME Inv, NEW m \in Manager, Write(m)
  PROVE  Rest'
  <1>1. /\ UNCHANGED <<files, unsynced, root, save, base, lone, gen, open, next, seen, sweep,
                       paused, backup>>
        /\ pc[m] = "write" /\ (open = m => sweep.by = 0)
        /\ pc' = [pc EXCEPT ![m] = "writing"]
    BY DEF Write, Submit, disk, acquired, life, hold
  <1>2. PICK n \in Turn(work[m]) :
          /\ item' = [item EXCEPT ![m] = n]
          /\ work' = [work EXCEPT ![m] = @ \ {n}]
    BY DEF Write, Submit
  <1>3. Grows
    BY <1>1 DEF Grows
  <1>4. ReachablePresent' /\ OriginalsNamed' /\ Backups'
    BY <1>1 DEF Inv, ReachablePresent, OriginalsNamed, Backups
  <1>5. SweepOK'
    BY <1>1, <1>3, SweepKept DEF Inv, SweepOK, Gone
  <1>6. /\ pc'[m] = "writing" /\ item'[m] = n /\ work'[m] = work[m] \ {n}
        /\ \A k \in Manager : k # m => pc'[k] = pc[k] /\ work'[k] = work[k] /\ item'[k] = item[k]
    BY <1>1, <1>2 DEF Inv, Types
  <1>7. open <= gen /\ (m > gen => pc[m] = "idle")
    BY DEF Inv, Managers
  <1>8. ASSUME open = m PROVE Writes(m)' /\ Collects(m)'
    <2>1. Writes(m)
      BY <1>8 DEF Inv, Managers
    <2>2. Reach(next[m]) \subseteq files \union work[m]
      BY <1>1, <2>1 DEF Writes
    <2> QED BY <1>1, <1>6, <1>8, <2>1, <2>2 DEF Writes, Collects
  <1>9. ASSUME NEW k \in Manager, open = k, k # m PROVE Writes(k)' /\ Collects(k)'
    <2>1. Writes(k) /\ Collects(k)
      BY <1>9 DEF Inv, Managers
    <2>2. Collectable(seen[k].retired) => Collectable(seen[k].retired)'
      BY <1>1 DEF Collectable, Retirable, Spare, Fresh
    <2> QED BY <1>1, <1>6, <1>9, <2>1, <2>2 DEF Writes, Collects
  <1>10. \A k \in Manager : k > gen => pc'[k] = "idle"
    BY <1>1, <1>6, <1>7 DEF Inv, Managers
  <1>11. Managers'
    BY <1>1, <1>7, <1>8, <1>9, <1>10 DEF Managers
  <1> QED BY <1>4, <1>5, <1>11 DEF Rest

\* A step that only the file system or the sweep takes.
LEMMA ManagersKept ==
  ASSUME Inv, Grows, UNCHANGED <<open, gen, flow, save>>, ReachablePresent',
         sweep'.by \in {sweep.by, 0}, files \subseteq files' \/ sweep.by # 0
  PROVE  Managers'
  <1>1. /\ UNCHANGED <<open, gen, pc, work, item, next, seen, save>>
        /\ root' = root /\ Reach(root) \subseteq files'
    BY DEF flow, writing, Grows, ReachablePresent
  <1>2. ASSUME NEW m \in Manager, open = m PROVE Writes(m)' /\ Collects(m)'
    <2>1. Writes(m) /\ Collects(m)
      BY <1>2 DEF Inv, Managers
    <2>2. Writes(m)'
      <3>1. CASE pc[m] \in {"write", "writing"}
        <4>1. CASE sweep.by = 0
          BY <1>1, <2>1, <3>1, <4>1 DEF Writes
        <4>2. CASE sweep.by # 0
          BY <1>1, <2>1, <3>1, <4>2 DEF Writes
        <4> QED BY <4>1, <4>2
      <3>2. CASE pc[m] \notin {"write", "writing"}
        BY <1>1, <3>2 DEF Writes
      <3> QED BY <3>1, <3>2
    <2>3. Collects(m)'
      <3>1. PICK R : R = seen[m].retired
        OBVIOUS
      <3>2. pc[m] = "collect" => Collectable(R)'
        BY <2>1, <3>1, CollectableKept DEF Collects
      <3>3. R = seen'[m].retired
        BY <1>1, <3>1
      <3>4. pc[m] = "collect" => ~save.on
        BY <2>1 DEF Collects
      <3> QED BY <1>1, <3>2, <3>3, <3>4 DEF Collects, Collectable
    <2> QED BY <2>2, <2>3
  <1> QED BY <1>1, <1>2 DEF Inv, Managers

LEMMA RestJobRuns ==
  ASSUME Inv, JobRuns
  PROVE  Rest'
  <1>1. PICK j \in jobs :
          /\ files' = files \union {j[3]}
          /\ lone' = CASE j[3] \in Source -> lone \union ({j[3]} \ files)
                       [] j[3] \in Delta /\ sweep.by = 0 -> lone \ {original[j[3]]}
                       [] OTHER -> lone
          /\ UNCHANGED <<root, save, base, life, faults, flow, sweep, hold>>
    BY DEF JobRuns
  <1> DEFINE n == j[3]
  <1>2. n \in Name
    BY DEF Inv, Types
  <1>3. /\ n \in Source => lone' = lone \union ({n} \ files)
        /\ n \in Delta => lone' = (IF sweep.by = 0 THEN lone \ {original[n]} ELSE lone)
        /\ n \in Object => lone' = lone
    BY <1>1, Distinct
  <1>4. Grows /\ UNCHANGED <<open, gen, flow, save, sweep, paused, backup>>
    BY <1>1 DEF Grows, life, hold
  <1>5. ReachablePresent'
    BY <1>1 DEF Inv, ReachablePresent
  <1>6. OriginalsNamed'
    <2> SUFFICES ASSUME NEW s \in files' \cap Source, s \notin lone'
                 PROVE  \E d \in files' \cap Delta : original[d] = s
      BY DEF OriginalsNamed
    <2>1. CASE s \in files /\ s \notin lone
      <3>1. \E d \in files \cap Delta : original[d] = s
        BY <2>1 DEF Inv, OriginalsNamed
      <3> QED BY <1>1, <3>1
    <2>2. CASE s \notin files
      BY <1>1, <1>3, <2>2
    <2>3. CASE s \in files /\ s \in lone
      <3>1. n \in Delta /\ s = original[n]
        BY <1>2, <1>3, <2>3, Distinct
      <3> QED BY <1>1, <3>1
    <2> QED BY <2>1, <2>2, <2>3
  <1>7. ASSUME sweep.by # 0 PROVE \A s \in Source : Gone(s) => Gone(s)'
    BY <1>1, <1>2, <1>3, <1>7, Distinct DEF Gone
  <1>8. sweep.by # 0 => ~save'.on
    BY <1>1 DEF Inv, SweepOK
  <1>9. SweepOK'
    BY <1>4, <1>7, <1>8, SweepKept
  <1>10. Managers'
    BY <1>1, <1>4, <1>5, ManagersKept
  <1>11. Backups'
    BY <1>4 DEF Inv, Backups
  <1> QED BY <1>5, <1>6, <1>9, <1>10, <1>11 DEF Rest

LEMMA RestWritten ==
  ASSUME Inv, NEW m \in Manager, Written(m)
  PROVE  Rest'
  <1>1. /\ UNCHANGED <<files, root, base, lone, gen, open, work, next, seen, sweep, paused, backup>>
        /\ open = m /\ pc[m] = "writing" /\ item[m] \in files
        /\ \/ work[m] # {} /\ pc' = [pc EXCEPT ![m] = "write"] /\ save' = save
           \/ /\ work[m] = {} /\ pc' = [pc EXCEPT ![m] = "saving"]
              /\ save' = [on |-> TRUE, root |-> next[m], by |-> m]
    BY DEF Written, disk, acquired, life, hold
  <1>2. Writes(m) /\ m <= gen
    BY <1>1 DEF Inv, Managers
  <1>3. ~save.on /\ Reach(next[m]) \subseteq files \union work[m] /\ sweep.by = 0
    BY <1>1, <1>2 DEF Writes
  <1>4. ReachablePresent'
    BY <1>1, <1>3 DEF Inv, ReachablePresent
  <1>5. OriginalsNamed' /\ Backups'
    BY <1>1 DEF Inv, OriginalsNamed, Backups
  <1>6. SweepOK'
    BY <1>1, <1>3 DEF Inv, SweepOK
  <1>7. pc'[m] \in {"write", "saving"} /\ \A k \in Manager : k # m => pc'[k] = pc[k]
    BY <1>1 DEF Inv, Types
  <1>8. pc'[m] = "write" => save' = save
    BY <1>1 DEF Inv, Types
  <1>9. Writes(m)'
    BY <1>1, <1>3, <1>7, <1>8 DEF Writes
  <1>10. Collects(m)'
    BY <1>7 DEF Collects
  <1>11. \A k \in Manager : k > gen => pc'[k] = "idle"
    BY <1>2, <1>7, Distinct DEF Inv, Managers, Types
  <1> QED BY <1>1, <1>4, <1>5, <1>6, <1>9, <1>10, <1>11 DEF Rest, Inv, Managers

LEMMA RestPublish ==
  ASSUME Inv, NEW m \in Manager, Publish(m)
  PROVE  Rest'
  <1>1. /\ UNCHANGED <<files, root, base, lone, gen, open, work, item, next, seen, sweep,
                       paused, backup>>
        /\ open = m /\ pc[m] = "idle" /\ pc' = [pc EXCEPT ![m] = "saving"]
    BY DEF Publish, disk, acquired, life, writing, hold
  <1>2. PICK p \in root.owed \cap files :
          save' = [on |-> TRUE, by |-> m,
                   root |-> [root EXCEPT !.owed = @ \ {p}, !.keep = @ \union {p}]]
    BY DEF Publish
  <1>3. Reach([root EXCEPT !.owed = @ \ {p}, !.keep = @ \union {p}]) = Reach(root)
    BY <1>2 DEF Reach, Inv, Types, Root
  <1>4. ReachablePresent'
    BY <1>1, <1>2, <1>3 DEF Inv, ReachablePresent
  <1>5. OriginalsNamed' /\ Backups'
    BY <1>1 DEF Inv, OriginalsNamed, Backups
  <1>6. sweep.by = 0
    BY <1>2 DEF Inv, SweepOK
  <1>7. SweepOK'
    BY <1>1, <1>6 DEF Inv, SweepOK
  <1>8. pc'[m] = "saving" /\ m <= gen /\ \A k \in Manager : k # m => pc'[k] = pc[k]
    BY <1>1 DEF Inv, Types, Managers
  <1>9. Writes(m)' /\ Collects(m)'
    BY <1>8 DEF Writes, Collects
  <1>10. \A k \in Manager : k > gen => pc'[k] = "idle"
    BY <1>8, Distinct DEF Inv, Managers, Types
  <1> QED BY <1>1, <1>4, <1>5, <1>7, <1>9, <1>10 DEF Rest, Inv, Managers

LEMMA RestSaveEnds ==
  ASSUME Inv, SaveEnds
  PROVE  Rest'
  <1>1. /\ UNCHANGED <<files, lone, gen, open, sweep, paused, backup>>
        /\ save.on /\ save' = NoSave /\ root' \in {root, save.root}
        /\ pc' = [m \in Manager |-> IF m = save.by /\ pc[m] = "saving" THEN "idle" ELSE pc[m]]
    BY DEF SaveEnds, acquired, life, hold
  <1>2. ~save'.on
    BY <1>1 DEF NoSave
  <1>3. ReachablePresent'
    BY <1>1, <1>2 DEF Inv, ReachablePresent
  <1>4. OriginalsNamed' /\ Backups'
    BY <1>1 DEF Inv, OriginalsNamed, Backups
  <1>5. SweepOK'
    BY <1>1 DEF Inv, SweepOK
  <1>6. ASSUME NEW m \in Manager, open = m PROVE Writes(m)' /\ Collects(m)'
    <2>1. pc[m] \notin {"write", "writing", "collect"}
      BY <1>1, <1>6 DEF Inv, Managers, Writes, Collects
    <2>2. pc'[m] \in {"idle", pc[m]}
      BY <1>1
    <2>3. pc'[m] \notin {"write", "writing", "collect"}
      BY <2>1, <2>2
    <2> QED BY <2>3 DEF Writes, Collects
  <1>7. \A k \in Manager : k > gen => pc'[k] = "idle"
    BY <1>1 DEF Inv, Managers
  <1> QED BY <1>1, <1>3, <1>4, <1>5, <1>6, <1>7 DEF Rest, Inv, Managers

(***************************************************************************)
(* The sweep                                                               *)
(***************************************************************************)
\* What collect derives from the root it read.
LEMMA RetiredCollectable == ASSUME Inv PROVE Collectable(Retired(root))
  <1> DEFINE manifests  == files \cap Delta
             candidates == {d \in manifests \ root.deltas : Stale(d, root)}
             kept       == {original[d] : d \in (manifests \ candidates) \union root.deltas}
  <1>1. Types /\ Acquired /\ Reach(root) \subseteq files
    BY DEF Inv, ReachablePresent
  <1>2. /\ root.keep \subseteq Object /\ root.owed \subseteq Object /\ root.deltas \subseteq Delta
        /\ root.deltas \subseteq manifests
    BY <1>1 DEF Types, Root, Reach
  <1>3. ASSUME NEW d \in candidates
        PROVE  d \in Delta \cap DOMAIN base /\ ~Fresh(d) /\ d \notin Reach(root)
    BY <1>1, <1>2, Distinct DEF Acquired, Fresh, Stale, Reach
  <1>4. ASSUME NEW d \in candidates, original[d] \notin kept
        PROVE  original[d] \notin Reach(root)
    BY <1>2, <1>4, Distinct DEF Reach
  <1>5. ASSUME NEW d \in candidates, original[d] \in kept PROVE Spare(d)
    <2>1. PICK e \in (manifests \ candidates) \union root.deltas : original[e] = original[d]
      BY <1>5
    <2>2. e \in manifests /\ Fresh(e)
      BY <1>2, <2>1 DEF Fresh, Stale
    <2> QED BY <2>1, <2>2 DEF Spare
  <1>6. Retired(root) = {<<d, d>> : d \in candidates}
          \union {<<d, original[d]>> : d \in {e \in candidates : original[e] \notin kept}}
    BY DEF Retired
  <1> HIDE DEF candidates, kept
  <1> SUFFICES ASSUME NEW x \in Retired(root)
               PROVE  Retirable(x) /\ (x[2] = x[1] => Spare(x[1]) \/ Stepped(x[1]) \in Retired(root))
    BY DEF Collectable
  <1>7. CASE \E d \in candidates : x = <<d, d>>
    <2>1. PICK d \in candidates : x = <<d, d>>
      BY <1>7
    <2>2. Retirable(x)
      BY <1>3, <2>1 DEF Retirable
    <2>3. original[d] \notin kept => Stepped(d) \in Retired(root)
      BY <1>6 DEF Stepped
    <2> QED BY <1>5, <2>1, <2>2, <2>3
  <1>8. CASE \E d \in candidates : original[d] \notin kept /\ x = <<d, original[d]>>
    <2>1. PICK d \in candidates : original[d] \notin kept /\ x = <<d, original[d]>>
      BY <1>8
    <2> QED BY <1>3, <1>4, <2>1, Distinct DEF Retirable
  <1> QED BY <1>6, <1>7, <1>8

LEMMA RestCollect ==
  ASSUME Inv, NEW m \in Manager, Collect(m)
  PROVE  Rest'
  <1>1. /\ UNCHANGED <<files, root, save, base, lone, gen, open, work, item, next, sweep,
                       paused, backup>>
        /\ open = m /\ ~save.on
        /\ pc' = [pc EXCEPT ![m] = "collect"]
        /\ seen' = [seen EXCEPT ![m] = [root |-> root, retired |-> Retired(root)]]
    BY DEF Collect, AtRest, disk, acquired, life, writing, hold
  <1>2. pc'[m] = "collect" /\ seen'[m].retired = Retired(root)
        /\ \A k \in Manager : k # m => pc'[k] = pc[k]
    BY <1>1 DEF Inv, Types
  <1>3. ReachablePresent' /\ OriginalsNamed' /\ Backups' /\ SweepOK'
    BY <1>1 DEF Inv, ReachablePresent, OriginalsNamed, Backups, SweepOK, Retirable, Spare, Fresh,
                Gone
  <1>4. Collectable(Retired(root))'
    <2>1. PICK R : R = Retired(root)
      OBVIOUS
    <2>2. Collectable(R)'
      BY <1>1, <2>1, RetiredCollectable DEF Collectable, Retirable, Spare, Fresh
    <2>3. Retired(root)' = R
      BY <1>1, <2>1 DEF Retired, Stale
    <2> QED BY <2>2, <2>3 DEF Collectable
  <1>5. seen'[m].retired = Retired(root)'
    BY <1>1, <1>2 DEF Retired, Stale
  <1>6. Writes(m)' /\ Collects(m)'
    BY <1>1, <1>2, <1>4, <1>5 DEF Writes, Collects, Collectable
  <1>7. m <= gen /\ \A k \in Manager : k > gen => pc'[k] = "idle"
    BY <1>1, <1>2, Distinct DEF Inv, Managers, Types
  <1> QED BY <1>1, <1>3, <1>6, <1>7 DEF Rest, Inv, Managers

LEMMA RestStartSweep ==
  ASSUME Inv, NEW m \in Manager, StartSweep(m)
  PROVE  Rest'
  <1>1. /\ UNCHANGED <<files, root, save, base, lone, gen, open, work, item, next, paused, backup>>
        /\ open = m /\ pc[m] = "collect"
        /\ \/ pc' = [pc EXCEPT ![m] = "idle"] /\ sweep' = sweep
           \/ /\ ~save.on /\ root.owed = {} /\ ~paused
              /\ pc' = [pc EXCEPT ![m] = "sweeping"]
              /\ sweep' = [by |-> m, keep |-> root.keep, retired |-> seen[m].retired,
                           visit |-> Object, target |-> None]
    BY DEF StartSweep, AtRest, disk, acquired, life, writing, hold
  <1>2. pc'[m] \in {"idle", "sweeping"} /\ \A k \in Manager : k # m => pc'[k] = pc[k]
    BY <1>1 DEF Inv, Types
  <1>3. ReachablePresent' /\ OriginalsNamed'
    BY <1>1 DEF Inv, ReachablePresent, OriginalsNamed
  <1>4. Backups'
    <2>1. CASE sweep' = sweep
      BY <1>1, <2>1 DEF Inv, Backups
    <2>2. CASE ~paused
      BY <1>1, <2>2 DEF Inv, Backups
    <2> QED BY <1>1, <2>1, <2>2
  <1>5. SweepOK'
    <2>1. CASE sweep' = sweep
      BY <1>1, <2>1 DEF Inv, SweepOK, Retirable, Spare, Fresh, Gone
    <2>2. CASE /\ ~save.on /\ root.owed = {}
               /\ sweep' = [by |-> m, keep |-> root.keep, retired |-> seen[m].retired,
                            visit |-> Object, target |-> None]
      <3>1. Collectable(seen[m].retired)
        BY <1>1 DEF Inv, Managers, Collects
      <3>2. /\ sweep'.by = m /\ m # 0 /\ sweep'.keep = root.keep
            /\ sweep'.retired = seen[m].retired /\ sweep'.target = None
        BY <2>2, Distinct
      <3>3. PICK R : R = seen[m].retired
        OBVIOUS
      <3>4. Collectable(R)'
        BY <1>1, <3>1, <3>3 DEF Collectable, Retirable, Spare, Fresh
      <3>5. \A x \in sweep'.retired :
              Retirable(x)' /\ (x[2] = x[1] => Spare(x[1])' \/ Stepped(x[1]) \in sweep'.retired)
        BY <3>2, <3>3, <3>4 DEF Collectable
      <3> QED BY <1>1, <2>2, <3>2, <3>5 DEF SweepOK
    <2> QED BY <1>1, <2>1, <2>2
  <1>6. Writes(m)' /\ Collects(m)'
    BY <1>2 DEF Writes, Collects
  <1>7. m <= gen /\ \A k \in Manager : k > gen => pc'[k] = "idle"
    BY <1>1, <1>2, Distinct DEF Inv, Managers, Types
  <1> QED BY <1>1, <1>3, <1>4, <1>5, <1>6, <1>7 DEF Rest, Inv, Managers

LEMMA RestSweepPick ==
  ASSUME Inv, SweepPick
  PROVE  Rest'
  <1>1. /\ UNCHANGED <<files, root, save, base, lone, open, gen, flow, paused, backup>>
        /\ sweep.by # 0 /\ sweep.target = None
    BY DEF SweepPick, disk, acquired, life, hold
  <1>2. Types /\ Acquired /\ SweepOK
    BY DEF Inv
  <1>3. /\ ~save.on /\ root.owed = {} /\ sweep.keep = root.keep
        /\ \A x \in sweep.retired :
             /\ x \in Delta \X Name /\ Retirable(x)
             /\ x[2] = x[1] => \/ Spare(x[1]) \/ Stepped(x[1]) \in sweep.retired
                               \/ Gone(original[x[1]])
    <2>1. \A x \in sweep.retired : x \in Delta \X Name /\ Retirable(x)
      BY <1>1, <1>2 DEF SweepOK, Types
    <2>2. \A x \in sweep.retired : sweep.target # original[x[1]]
      BY <1>1, <2>1, Distinct DEF Retirable
    <2> QED BY <1>1, <1>2, <2>1, <2>2 DEF SweepOK
  <1>4. /\ sweep'.by = sweep.by /\ sweep'.keep = sweep.keep
        /\ sweep'.retired \subseteq sweep.retired
        /\ \A x \in sweep.retired : x \notin sweep'.retired => sweep'.target = x[2]
        /\ sweep'.target # None =>
             \/ \E x \in Due(sweep.retired) : sweep'.target = x[2]
             \/ sweep'.target \in Object \cap files /\ sweep'.target \notin sweep.keep
    <2>1. CASE \E x \in Due(sweep.retired) :
                 sweep' = [sweep EXCEPT !.target = x[2], !.retired = @ \ {x}]
      BY <1>2, <2>1 DEF Types
    <2>2. CASE \E o \in sweep.visit :
                 sweep' = [sweep EXCEPT !.target = IF o \in files \ sweep.keep THEN o ELSE None,
                                        !.visit = @ \ {o}]
      <3>1. PICK o \in sweep.visit :
                 sweep' = [sweep EXCEPT !.target = IF o \in files \ sweep.keep THEN o ELSE None,
                                        !.visit = @ \ {o}]
        BY <2>2
      <3>2. o \in Object
        BY <1>2 DEF Types
      <3> QED BY <1>2, <3>1, <3>2 DEF Types
    <2> QED BY <2>1, <2>2 DEF SweepPick
  <1>5. ASSUME sweep'.target # None
        PROVE  /\ sweep'.target \in Name \ Reach(root)
               /\ sweep'.target \in Delta =>
                    /\ sweep'.target \in DOMAIN base /\ ~Fresh(sweep'.target)
                    /\ Spare(sweep'.target) \/ Gone(original[sweep'.target])
    <2>1. CASE \E x \in Due(sweep.retired) : sweep'.target = x[2]
      <3>1. PICK x \in sweep.retired :
              /\ sweep'.target = x[2]
              /\ x[2] \in Delta => Stepped(x[1]) \notin sweep.retired
        BY <2>1 DEF Due, Stepped
      <3>2. x[2] \in Name \ Reach(root) /\ Retirable(x)
        BY <1>3, <3>1 DEF Retirable
      <3>3. ASSUME x[2] \in Delta
            PROVE  /\ x[2] = x[1] /\ x[2] \in DOMAIN base /\ ~Fresh(x[2])
                   /\ Spare(x[2]) \/ Gone(original[x[2]])
        <4>1. x[2] = x[1]
          BY <3>2, <3>3, Distinct DEF Retirable
        <4>2. Spare(x[1]) \/ Gone(original[x[1]])
          BY <1>3, <3>1, <3>3, <4>1
        <4> QED BY <3>2, <4>1, <4>2 DEF Retirable
      <3> QED BY <3>1, <3>2, <3>3
    <2>2. CASE sweep'.target \in Object \cap files /\ sweep'.target \notin sweep.keep
      <3>1. root.deltas \subseteq Delta
        BY <1>2 DEF Types, Root
      <3> QED BY <1>3, <2>2, <3>1, Distinct DEF Reach
    <2> QED BY <1>4, <1>5, <2>1, <2>2
  <1>6. SweepOK'
    <2>1. \A x \in sweep'.retired :
            /\ Retirable(x)
            /\ x[2] = x[1] => \/ Spare(x[1]) \/ Stepped(x[1]) \in sweep'.retired
                              \/ Gone(original[x[1]]) \/ sweep'.target = original[x[1]]
      BY <1>3, <1>4 DEF Stepped
    <2>2. \A x : (Retirable(x) <=> Retirable(x)')
      BY <1>1 DEF Retirable, Fresh
    <2>3. \A d : (Spare(d) <=> Spare(d)') /\ (Fresh(d) <=> Fresh(d)') /\ (Gone(d) <=> Gone(d)')
      BY <1>1 DEF Spare, Fresh, Gone
    <2>4. \A x \in sweep'.retired :
            /\ Retirable(x)'
            /\ x[2] = x[1] => \/ Spare(x[1])' \/ Stepped(x[1]) \in sweep'.retired
                              \/ Gone(original[x[1]])' \/ sweep'.target = original[x[1]]
      BY <2>1, <2>2, <2>3
    <2>5. PICK t : t = sweep'.target
      OBVIOUS
    <2>6. t # None =>
            /\ t \in Name \ Reach(root)
            /\ t \in Delta => t \in DOMAIN base /\ ~Fresh(t)' /\ (Spare(t)' \/ Gone(original[t])')
      BY <1>5, <2>3, <2>5
    <2>7. sweep'.by # 0 /\ ~save'.on /\ root'.owed = {} /\ sweep'.keep = root'.keep
      BY <1>1, <1>3, <1>4
    <2> QED BY <1>1, <2>4, <2>5, <2>6, <2>7 DEF SweepOK, Fresh, Spare, Gone
  <1>7. ReachablePresent' /\ OriginalsNamed' /\ Backups'
    BY <1>1, <1>4 DEF Inv, ReachablePresent, OriginalsNamed, Backups
  <1>8. Grows
    BY <1>1 DEF Grows
  <1>9. Managers'
    BY <1>1, <1>4, <1>7, <1>8, ManagersKept
  <1> QED BY <1>6, <1>7, <1>9 DEF Rest

LEMMA RestSweepUnlink ==
  ASSUME Inv, SweepUnlink
  PROVE  Rest'
  <1> DEFINE t == sweep.target
  <1>1. /\ UNCHANGED <<root, save, base, open, gen, flow, paused, backup>>
        /\ t # None /\ files' = files \ {t} /\ lone' = lone \ {t}
        /\ sweep' = [sweep EXCEPT !.target = None]
    BY DEF SweepUnlink, life, hold
  <1>2. Types /\ Acquired /\ SweepOK /\ sweep.by # 0
    BY <1>1 DEF Inv, SweepOK
  <1>3. /\ ~save.on /\ root.owed = {} /\ sweep.keep = root.keep
        /\ t \in Name \ Reach(root)
        /\ t \in Delta => t \in DOMAIN base /\ ~Fresh(t) /\ (Spare(t) \/ Gone(original[t]))
        /\ \A x \in sweep.retired :
             /\ Retirable(x)
             /\ x[2] = x[1] => \/ Spare(x[1]) \/ Stepped(x[1]) \in sweep.retired
                               \/ Gone(original[x[1]]) \/ t = original[x[1]]
    BY <1>1, <1>2 DEF SweepOK
  <1>4. /\ sweep'.by = sweep.by /\ sweep'.keep = sweep.keep
        /\ sweep'.retired = sweep.retired /\ sweep'.target = None
    BY <1>1, <1>2 DEF Types
  <1> HIDE DEF t
  <1>5. Grows
    BY <1>1, <1>3 DEF Grows
  <1>6. ReachablePresent'
    BY <1>1, <1>3 DEF Inv, ReachablePresent
  <1>7. \A s : (Gone(s) => Gone(s)') /\ (s = t => Gone(s)')
    BY <1>1 DEF Gone
  <1>8. OriginalsNamed'
    <2> SUFFICES ASSUME NEW s \in files' \cap Source, s \notin lone'
                 PROVE  \E d \in files' \cap Delta : original[d] = s
      BY DEF OriginalsNamed
    <2>1. s \in files \cap Source /\ s \notin lone /\ s # t
      BY <1>1
    <2>2. PICK d \in files \cap Delta : original[d] = s
      BY <2>1 DEF Inv, OriginalsNamed
    <2>3. CASE d # t
      BY <1>1, <2>2, <2>3
    <2>4. CASE d = t
      <3>1. Spare(t) /\ ~Fresh(t)
        BY <1>3, <2>1, <2>2, <2>4 DEF Gone
      <3>2. PICK e \in files \cap Delta : Fresh(e) /\ original[e] = original[t]
        BY <3>1 DEF Spare
      <3> QED BY <1>1, <2>2, <2>4, <3>1, <3>2
    <2> QED BY <2>3, <2>4
  <1>9. SweepOK'
    <2>1. \A x \in sweep'.retired :
            /\ Retirable(x)'
            /\ x[2] = x[1] => \/ Spare(x[1])' \/ Stepped(x[1]) \in sweep'.retired
                              \/ Gone(original[x[1]])' \/ sweep'.target = original[x[1]]
      BY <1>3, <1>4, <1>5, <1>7, SpareKept, RetirableKept
    <2> QED BY <1>1, <1>2, <1>3, <1>4, <2>1 DEF SweepOK
  <1>10. Managers' /\ Backups'
    BY <1>1, <1>2, <1>4, <1>5, <1>6, ManagersKept DEF Inv, Backups
  <1> QED BY <1>6, <1>8, <1>9, <1>10 DEF Rest

LEMMA RestSweepOther ==
  ASSUME Inv, SweepError \/ SweepSync \/ SweepEnds
  PROVE  Rest'
  <1>1. UNCHANGED <<files, root, save, base, lone, open, gen, writing, seen, paused, backup>>
    BY DEF SweepError, SweepSync, SweepEnds, disk, acquired, life, flow, hold
  <1>2. ReachablePresent' /\ OriginalsNamed' /\ Grows
    BY <1>1 DEF Inv, ReachablePresent, OriginalsNamed, Grows
  <1>3. CASE SweepSync
    <2>1. UNCHANGED <<flow, sweep>>
      BY <1>3 DEF SweepSync
    <2>2. SweepOK'
      BY <1>1, <1>2, <2>1, SweepKept DEF Inv, SweepOK, Gone
    <2>3. Managers' /\ Backups'
      BY <1>1, <1>2, <2>1, ManagersKept DEF Inv, Backups
    <2> QED BY <1>2, <2>2, <2>3 DEF Rest
  <1>4. CASE SweepError
    <2>1. /\ UNCHANGED flow /\ sweep.target # None
          /\ sweep' = [sweep EXCEPT !.target = None,
                              !.retired = IF sweep.target \in Object THEN @ ELSE {}]
      BY <1>4 DEF SweepError
    <2>2. /\ sweep'.by = sweep.by /\ sweep'.keep = sweep.keep /\ sweep'.target = None
          /\ sweep'.retired = (IF sweep.target \in Object THEN sweep.retired ELSE {})
      BY <2>1 DEF Inv, Types
    <2>3. SweepOK /\ sweep.by # 0
      BY <2>1 DEF Inv, SweepOK
    <2>4. \A x \in sweep'.retired :
            /\ Retirable(x)'
            /\ x[2] = x[1] => \/ Spare(x[1])' \/ Stepped(x[1]) \in sweep'.retired
                              \/ Gone(original[x[1]])' \/ sweep'.target = original[x[1]]
      <3> SUFFICES ASSUME NEW x \in sweep.retired, sweep.target \in Object,
                          sweep'.retired = sweep.retired
                   PROVE  /\ Retirable(x)'
                          /\ x[2] = x[1] => \/ Spare(x[1])' \/ Stepped(x[1]) \in sweep.retired
                                            \/ Gone(original[x[1]])'
        BY <2>2
      <3>1. /\ Retirable(x)
            /\ x[2] = x[1] => \/ Spare(x[1]) \/ Stepped(x[1]) \in sweep.retired
                              \/ Gone(original[x[1]]) \/ sweep.target = original[x[1]]
        BY <2>3 DEF SweepOK
      <3>2. original[x[1]] \in Source
        BY <3>1, Distinct DEF Retirable
      <3>3. Gone(original[x[1]]) => Gone(original[x[1]])'
        BY <1>1 DEF Gone
      <3> QED BY <1>2, <3>1, <3>2, <3>3, SpareKept, RetirableKept, Distinct
    <2>5. SweepOK'
      BY <1>1, <2>2, <2>3, <2>4 DEF SweepOK
    <2>6. Managers' /\ Backups'
      BY <1>1, <1>2, <2>1, <2>2, ManagersKept DEF Inv, Backups
    <2> QED BY <1>2, <2>5, <2>6 DEF Rest
  <1>5. CASE SweepEnds
    <2>1. /\ sweep' = NoSweep
          /\ pc' = [m \in Manager |-> IF m = sweep.by /\ pc[m] = "sweeping" THEN "idle" ELSE pc[m]]
      BY <1>5 DEF SweepEnds
    <2>2. SweepOK' /\ Backups'
      BY <1>1, <2>1 DEF Inv, SweepOK, Backups, NoSweep
    <2>3. ASSUME NEW m \in Manager, open = m PROVE Writes(m)' /\ Collects(m)'
      <3>1. Writes(m) /\ Collects(m)
        BY <2>3 DEF Inv, Managers
      <3>2. pc'[m] \in {"write", "writing", "collect"} => pc'[m] = pc[m]
        BY <2>1
      <3>3. Collectable(seen[m].retired) => Collectable(seen[m].retired)'
        BY <1>1 DEF Collectable, Retirable, Spare, Fresh
      <3>4. sweep'.by = 0
        BY <2>1 DEF NoSweep
      <3>5. Writes(m)'
        BY <1>1, <3>1, <3>2, <3>4 DEF Writes, writing
      <3>6. Collects(m)'
        BY <1>1, <3>1, <3>2, <3>3 DEF Collects
      <3> QED BY <3>5, <3>6
    <2>4. \A k \in Manager : k > gen => pc'[k] = "idle"
      BY <2>1 DEF Inv, Managers
    <2> QED BY <1>1, <1>2, <2>2, <2>3, <2>4 DEF Rest, Inv, Managers
  <1> QED BY <1>3, <1>4, <1>5

(***************************************************************************)
(* Backups, cancellation, reload, restart                                  *)
(***************************************************************************)
LEMMA RestLeave ==
  ASSUME Inv, NEW m \in Manager, Cancel(m) \/ Abandon(m)
  PROVE  Rest'
  <1>1. /\ UNCHANGED <<files, root, save, base, lone, open, gen, sweep, paused, backup>>
        /\ pc' = [pc EXCEPT ![m] = "idle"]
        /\ work' = [work EXCEPT ![m] = {}] /\ item' = [item EXCEPT ![m] = None]
        /\ next' = [next EXCEPT ![m] = NoRoot] /\ seen' = [seen EXCEPT ![m] = NoSeen]
    BY DEF Cancel, Abandon, Leave, disk, acquired, life, hold
  <1>2. /\ pc'[m] = "idle"
        /\ \A k \in Manager : k # m => /\ pc'[k] = pc[k] /\ work'[k] = work[k] /\ item'[k] = item[k]
                                       /\ next'[k] = next[k] /\ seen'[k] = seen[k]
    BY <1>1 DEF Inv, Types
  <1>3. ReachablePresent' /\ OriginalsNamed' /\ Backups' /\ SweepOK'
    BY <1>1 DEF Inv, ReachablePresent, OriginalsNamed, Backups, SweepOK, Retirable, Spare, Fresh,
                Gone
  <1>4. ASSUME NEW k \in Manager, open = k PROVE Writes(k)' /\ Collects(k)'
    <2>1. CASE k = m
      BY <1>2, <2>1 DEF Writes, Collects
    <2>2. CASE k # m
      <3>1. Writes(k) /\ Collects(k)
        BY <1>4 DEF Inv, Managers
      <3>2. Writes(k)'
        BY <1>1, <1>2, <2>2, <3>1 DEF Writes
      <3>3. Collects(k)'
        <4>1. PICK R : R = seen[k].retired
          OBVIOUS
        <4>2. Collectable(R) => Collectable(R)'
          BY <1>1 DEF Collectable, Retirable, Spare, Fresh
        <4>3. seen'[k].retired = R /\ pc'[k] = pc[k]
          BY <1>2, <2>2, <4>1
        <4> QED BY <1>1, <3>1, <4>1, <4>2, <4>3 DEF Collects, Collectable
      <3> QED BY <3>2, <3>3
    <2> QED BY <2>1, <2>2
  <1>5. \A k \in Manager : k > gen => pc'[k] = "idle"
    BY <1>2 DEF Inv, Managers
  <1> QED BY <1>1, <1>3, <1>4, <1>5 DEF Rest, Inv, Managers

LEMMA RestBackup ==
  ASSUME Inv, Pause \/ BackupReads \/ EndBackup
  PROVE  Rest'
  <1>1. UNCHANGED <<files, root, save, base, lone, open, gen, flow, sweep>>
    BY DEF Pause, BackupReads, EndBackup, disk, acquired, life
  <1>2. ReachablePresent' /\ OriginalsNamed' /\ SweepOK' /\ Grows
    BY <1>1 DEF Inv, ReachablePresent, OriginalsNamed, SweepOK, Retirable, Spare, Fresh, Gone, Grows
  <1>3. Managers'
    BY <1>1, <1>2, ManagersKept
  <1>4. Backups'
    <2>1. CASE Pause
      BY <2>1 DEF Pause, Backups
    <2>2. CASE BackupReads
      BY <2>2 DEF BackupReads, Inv, Backups
    <2>3. CASE EndBackup
      BY <2>3 DEF EndBackup, Backups
    <2> QED BY <2>1, <2>2, <2>3
  <1> QED BY <1>2, <1>3, <1>4 DEF Rest

LEMMA RestSetUp ==
  ASSUME Inv, SetUp \/ Unload
  PROVE  Rest'
  <1>1. UNCHANGED <<files, root, save, base, lone, flow, sweep, paused, backup>>
    BY DEF SetUp, Unload, disk, acquired, hold
  <1>2. ReachablePresent' /\ OriginalsNamed' /\ SweepOK' /\ Backups'
    BY <1>1 DEF Inv, ReachablePresent, OriginalsNamed, SweepOK, Retirable, Spare, Fresh, Gone, Backups
  <1>3. gen \in Nat /\ ((open' = gen + 1 /\ gen' = gen + 1) \/ (open' = 0 /\ gen' = gen))
    BY DEF Inv, Types, SetUp, Unload
  <1>4. open' <= gen' /\ gen <= gen'
    BY <1>3
  <1>5. \A k \in Manager : k > gen' => pc'[k] = "idle"
    <2>1. \A k \in Manager : k > gen' => k > gen
      BY <1>3, Distinct
    <2>2. pc' = pc
      BY <1>1 DEF flow
    <2> QED BY <2>1, <2>2 DEF Inv, Managers
  <1>6. ASSUME NEW k \in Manager, open' = k PROVE Writes(k)' /\ Collects(k)'
    <2>1. k > gen
      BY <1>3, <1>6, Distinct
    <2>2. pc'[k] = "idle"
      BY <1>1, <2>1 DEF flow, Inv, Managers
    <2> QED BY <2>2 DEF Writes, Collects
  <1> QED BY <1>2, <1>4, <1>5, <1>6 DEF Rest, Managers

LEMMA RestCrash ==
  ASSUME Inv, Crash
  PROVE  Rest'
  <1>1. PICK done \in SUBSET {j[3] : j \in jobs},
             gone \in SUBSET ({sweep.target} \cap files), back \in SUBSET unsynced :
          /\ files' = ((files \ gone) \union done) \union back
          /\ lone' = lone \union ((done \cap Source) \ files)
                          \union Orphans(back, ((files \ gone) \union done) \union back)
    BY DEF Crash
  <1>2. /\ root' = root /\ gen' = gen /\ open' = 0 /\ save' = NoSave
        /\ sweep' = NoSweep /\ paused' = FALSE /\ backup' = "no"
        /\ pc' = [m \in Manager |-> "idle"]
    BY DEF Crash
  <1>3. /\ Types /\ SweepOK /\ Reach(root) \subseteq files
    BY DEF Inv, ReachablePresent
  <1>4. /\ gone \cap Reach(root) = {}
        /\ \A d \in gone \cap Delta : ~Fresh(d) /\ (Spare(d) \/ Gone(original[d]))
    <2> SUFFICES ASSUME NEW t \in gone
                 PROVE  /\ t \notin Reach(root)
                        /\ t \in Delta => ~Fresh(t) /\ (Spare(t) \/ Gone(original[t]))
      OBVIOUS
    <2>1. t = sweep.target /\ sweep.target # None
      BY <1>3, Distinct DEF Types
    <2>2. sweep.by # 0
      BY <1>3, <2>1 DEF SweepOK
    <2> QED BY <1>3, <2>1, <2>2 DEF SweepOK
  <1>5. ReachablePresent'
    BY <1>1, <1>2, <1>3, <1>4 DEF ReachablePresent, NoSave
  <1>6. OriginalsNamed'
    <2> SUFFICES ASSUME NEW s \in files' \cap Source, s \notin lone'
                 PROVE  \E d \in files' \cap Delta : original[d] = s
      BY DEF OriginalsNamed
    <2>1. CASE s \in back
      BY <1>1, <2>1 DEF Orphans
    <2>2. CASE s \in files
      <3>1. PICK d \in files \cap Delta : original[d] = s
        BY <1>1, <2>2 DEF Inv, OriginalsNamed
      <3>2. CASE d \notin gone
        BY <1>1, <3>1, <3>2
      <3>3. CASE d \in gone
        <4>1. Spare(d)
          BY <1>1, <1>4, <2>2, <3>1, <3>3 DEF Gone
        <4>2. PICK e \in files \cap Delta : Fresh(e) /\ original[e] = original[d]
          BY <4>1 DEF Spare
        <4>3. e \notin gone
          BY <1>4, <4>2
        <4> QED BY <1>1, <3>1, <4>2, <4>3
      <3> QED BY <3>2, <3>3
    <2>3. CASE s \in done /\ s \notin files
      BY <1>1, <2>3
    <2> QED BY <1>1, <2>1, <2>2, <2>3
  <1>7. SweepOK' /\ Backups'
    BY <1>2 DEF SweepOK, Backups, NoSweep
  <1>8. Managers'
    BY <1>2, Distinct DEF Inv, Types, Managers
  <1> QED BY <1>5, <1>6, <1>7, <1>8 DEF Rest

(***************************************************************************)
(* Theorems                                                                *)
(***************************************************************************)
LEMMA InvStep == Inv /\ [Next]_vars => Inv'
  <1> SUFFICES ASSUME Inv, [Next]_vars PROVE Inv'
    OBVIOUS
  <1>1. ASSUME NEW m \in Manager, Begin(m) PROVE Inv'
    BY <1>1, TypesBegin, RestBegin DEF Inv, Rest
  <1>2. ASSUME NEW m \in Manager, Write(m) PROVE Inv'
    BY <1>2, TypesWrite, RestWrite DEF Inv, Rest
  <1>3. ASSUME NEW m \in Manager, Written(m) PROVE Inv'
    BY <1>3, TypesWritten, RestWritten DEF Inv, Rest
  <1>4. ASSUME NEW m \in Manager, Publish(m) PROVE Inv'
    BY <1>4, TypesSave, RestPublish DEF Inv, Rest
  <1>5. ASSUME NEW m \in Manager, Collect(m) PROVE Inv'
    BY <1>5, TypesCollect, RestCollect DEF Inv, Rest
  <1>6. ASSUME NEW m \in Manager, StartSweep(m) PROVE Inv'
    BY <1>6, TypesCollect, RestStartSweep DEF Inv, Rest
  <1>7. ASSUME NEW m \in Manager, Cancel(m) \/ Abandon(m) PROVE Inv'
    <2>1. Types' /\ Acquired'
      BY <1>7, TypesLife
    <2> QED BY <1>7, <2>1, RestLeave DEF Inv, Rest
  <1>8. CASE JobRuns
    BY <1>8, TypesJobRuns, RestJobRuns DEF Inv, Rest
  <1>9. CASE SaveEnds
    BY <1>9, TypesSave, RestSaveEnds DEF Inv, Rest
  <1>10. CASE SweepPick
    BY <1>10, TypesSweep, RestSweepPick DEF Inv, Rest
  <1>11. CASE SweepUnlink
    BY <1>11, TypesSweep, RestSweepUnlink DEF Inv, Rest
  <1>12. CASE SweepError \/ SweepSync \/ SweepEnds
    BY <1>12, TypesSweep, RestSweepOther DEF Inv, Rest
  <1>13. CASE Pause \/ BackupReads \/ EndBackup
    BY <1>13, TypesLife, RestBackup DEF Inv, Rest
  <1>14. CASE SetUp \/ Unload
    BY <1>14, TypesLife, RestSetUp DEF Inv, Rest
  <1>15. CASE Crash
    BY <1>15, TypesLife, RestCrash DEF Inv, Rest
  <1>16. CASE UNCHANGED vars
    <2>1. UNCHANGED <<open, gen, flow, save, sweep, base, lone, files, unsynced, root, jobs, ops,
                      paused, backup>>
      BY <1>16 DEF vars, flow, writing
    <2>2. Types'
      BY <2>1 DEF Inv, Types, flow, writing
    <2>3. Acquired'
      BY <2>1 DEF Inv, Acquired, flow, writing
    <2>4. ReachablePresent' /\ OriginalsNamed' /\ SweepOK' /\ Backups' /\ Grows
      BY <2>1 DEF Inv, ReachablePresent, OriginalsNamed, SweepOK, Retirable, Spare, Fresh, Gone,
                  Backups, Grows
    <2>5. Managers'
      BY <2>1, <2>4, ManagersKept
    <2> QED BY <2>2, <2>3, <2>4, <2>5 DEF Inv
  <1> QED BY <1>1, <1>2, <1>3, <1>4, <1>5, <1>6, <1>7, <1>8, <1>9, <1>10, <1>11, <1>12, <1>13,
             <1>14, <1>15, <1>16 DEF Next

\* The inductive invariant, types included, for any objects, deltas and sources,
\* shared contents, managers, operations and faults.
THEOREM InvHolds == Spec => []Inv
  BY InitInv, InvStep, PTL DEF Spec

\* Nothing that the durable root, or a root on its way to disk, reaches is ever
\* missing.
THEOREM ReachablePresentHolds == Spec => []ReachablePresent
  <1>1. Inv => ReachablePresent
    BY DEF Inv
  <1> QED BY <1>1, InvHolds, PTL

\* An original on disk is named by a manifest, however a collection is interrupted,
\* fails, or meets a late write or another delta of the same content.
THEOREM OriginalsNamedHolds == Spec => []OriginalsNamed
  <1>1. Inv => OriginalsNamed
    BY DEF Inv
  <1> QED BY <1>1, InvHolds, PTL

\* No step deletes a file while a backup reads.
THEOREM BackupSeesOneGenerationHolds == Spec => BackupSeesOneGeneration
  <1>1. Inv /\ [Next]_vars => [backup = "reading" => files \subseteq files']_files
    <2> SUFFICES ASSUME Inv, Next, backup = "reading" PROVE files \subseteq files'
      BY DEF vars
    <2>1. sweep.by = 0 /\ sweep.target = None
      BY DEF Inv, Backups, SweepOK
    <2>2. None \notin files
      BY Distinct DEF Inv, Types
    <2>3. CASE JobRuns
      BY <2>3 DEF JobRuns
    <2>4. CASE SweepUnlink
      BY <2>1, <2>4 DEF SweepUnlink
    <2>5. CASE Crash
      BY <2>1, <2>2, <2>5 DEF Crash
    <2>6. CASE UNCHANGED files
      BY <2>6
    <2> QED BY <2>3, <2>4, <2>5, <2>6
            DEF Next, Begin, Write, Submit, Written, Publish, Collect, StartSweep, Cancel, Abandon,
                Leave, SaveEnds, SweepPick, SweepError, SweepSync, SweepEnds, Pause, BackupReads,
                EndBackup, SetUp, Unload, disk
  <1> QED BY <1>1, InvHolds, PTL DEF Spec, BackupSeesOneGeneration
=============================================================================
