-------------------------- MODULE HistoryQueryProofs --------------------------
(***************************************************************************)
(* Why a query that takes no lock may trust what it read, for any number   *)
(* of cells, operations, holds, failures, reloads and crashes: a disputed  *)
(* cell stays behind a hold or a fence of the durable root, Recorder holds *)
(* what that root proves, and the objects that a query saw unchanged stand *)
(* for a root that is still durable.                                       *)
(***************************************************************************)
EXTENDS HistoryQuery, WellFoundedInduction, SequenceTheorems, TLAPS

(***************************************************************************)
(* Types                                                                   *)
(***************************************************************************)
Root   == [token : Nat, op : Nat, left : SUBSET Cell, pend : {0} \cup Cell,
           proof : [Cell -> Nat], held : SUBSET Cell]
Waits  == {"accept", "intent", "publish", "blocked", "hold"}
Task   == [kind : {"none", "root", "fence"}, root : Root \cup {None},
           token : Nat \cup {None}, landed : BOOLEAN,
           state : {"running", "done", "failed"}]
Writer == [pc : {"idle", "sealing", "submit", "readback", "fence"} \cup Waits,
           root : Root \cup {None}, cell : {0} \cup Cell]

TypeOK ==
  /\ file \in Root /\ fences \in SUBSET Nat
  /\ native \in [Cell -> Nat \cup {Foreign}] /\ imports \in Seq(Cell \X Nat)
  /\ task \in Task /\ writer \in Writer
  /\ cache \in Root \cup {None} /\ loaded \in BOOLEAN
  /\ query = [pc |-> query.pc, stage |-> query.stage, root |-> query.root,
              first |-> query.first, kept |-> query.kept, native |-> query.native]
  /\ query.stage \in 0..2

(***************************************************************************)
(* The inductive invariant                                                 *)
(***************************************************************************)
\* Proofs lag behind the operation whose windows are left.
Lags(r) ==
  \A c \in Cell : r.proof[c] <= r.op /\ (c \in r.left => r.proof[c] < r.op)

\* Recorder holds, or is about to hold, what a root says of it.
NativeOf(r) ==
  /\ \A c \in Cell : c \notin r.left => native[c] \in {r.proof[c], Foreign}
  /\ \A i \in DOMAIN imports : imports[i][1] \in r.left /\ imports[i][2] = r.op

\* A root that may replace the durable one holds what is disputed, or proves
\* it anew.
Resolves(r) == \A c \in disputed : c \in r.held \/ r.proof[c] # file.proof[c]

SoundRoot(r) == r \in Root /\ Lags(r) /\ NativeOf(r)

\* Whatever is disputed is held by the durable root, or that root is fenced:
\* durably, or by a fence that is not known to be durable yet.
Guarded ==
  \A c \in disputed :
     \/ c \in file.held \/ file.token \in fences
     \/ task.kind = "fence" /\ task.token = file.token /\ task.state # "done"

TaskOK ==
  /\ task.kind = "none" => task.state = "done"
  /\ task.kind = "root" =>
       /\ task.root \in Root
       /\ task.landed => file = task.root
       /\ SavePending /\ ~task.landed => SoundRoot(task.root) /\ Resolves(task.root)
  /\ task.kind = "fence" =>
       task.token \in Nat /\ (task.landed => task.token \in fences)
  /\ task.kind # "none" /\ task.state = "done" => task.landed

HoldsDisputed(r) == disputed \subseteq r.held

\* r differs from the durable root in its intent only.
SameWork(r) ==
  /\ r.token = file.token /\ r.op = file.op /\ r.left = file.left
  /\ r.proof = file.proof /\ r.held = file.held

WriterOK ==
  /\ writer.pc \in Waits => task.kind = "root" /\ task.root = writer.root
  /\ writer.pc \in {"idle", "sealing"} /\ loaded => cache = file /\ ~SavePending
  /\ writer.pc = "sealing" => writer.root.left = {}
  /\ writer.pc \in {"submit", "readback"} =>
       /\ ~SavePending /\ cache = file /\ writer.root = file
       /\ writer.cell \in file.left /\ HoldsDisputed(file)
  /\ writer.pc = "intent" =>
       /\ cache = writer.root /\ SameWork(writer.root)
       /\ writer.cell \in file.left /\ HoldsDisputed(file)
  /\ writer.pc = "publish" =>
       /\ cache \in Root /\ Lags(cache) /\ HoldsDisputed(file)
       /\ \E c \in cache.left : writer.root = Published(cache, c)
       /\ file = cache \/ file = writer.root
  /\ writer.pc = "fence" =>
       /\ writer.root = file /\ task.kind = "fence" /\ task.token = file.token
       /\ disputed \subseteq file.held \cup {writer.cell} /\ writer.cell \in Cell

\* What a query knows of the root it loaded: with the cache still the object
\* it saw, only a proof can have replaced that root; with the task still the
\* one it saw, nothing is being saved.
QueryOK ==
  query.pc \in {"loaded", "asked"} =>
    /\ "cache" \in query.kept =>
         /\ SavePending /\ task.kind = "root" => writer.pc = "publish"
         /\ query.root = file \/ writer.pc = "publish"
    /\ query.pc = "asked" /\ "task" \in query.kept =>
         /\ ~SavePending /\ FenceTaskSound(query.root)
         /\ query.root.token \notin fences
         /\ "cache" \in query.kept => query.root = file

Inv == /\ TypeOK
       /\ SoundRoot(file)
       /\ Guarded
       /\ TaskOK
       /\ WriterOK
       /\ QueryOK

(***************************************************************************)
(* Lemmas about roots and Recorder's queue                                 *)
(***************************************************************************)
LEMMA AcceptedRoot ==
  ASSUME NEW r \in Root, NEW batches \in SUBSET Cell, Lags(r), NativeOf(r), r.left = {}
  PROVE  /\ Accepted(r, batches) \in Root /\ SoundRoot(Accepted(r, batches))
         /\ Accepted(r, batches).held = r.held
  <1> DEFINE a == Accepted(r, batches)
  <1>1. /\ a \in Root /\ a.op = r.op + 1 /\ a.left = batches
        /\ a.proof = r.proof /\ a.held = r.held
    <2>1. r.op + 1 \in Nat
      BY DEF Root
    <2> QED BY <2>1 DEF Accepted, Root
  <1>2. r.op \in Nat /\ \A c \in Cell : r.proof[c] \in Nat
    BY DEF Root
  <1> HIDE DEF a
  <1>3. Lags(a)
    BY <1>1, <1>2 DEF Lags
  <1>4. NativeOf(a)
    BY <1>1 DEF NativeOf
  <1>5. SoundRoot(a) /\ a \in Root /\ a.held = r.held
    BY <1>1, <1>3, <1>4 DEF SoundRoot
  <1> QED BY <1>5 DEF a

LEMMA IntendedRoot ==
  ASSUME NEW r \in Root, NEW c \in Cell
  PROVE  /\ Intended(r, c) \in Root
         /\ Intended(r, c).token = r.token /\ Intended(r, c).op = r.op
         /\ Intended(r, c).left = r.left /\ Intended(r, c).proof = r.proof
         /\ Intended(r, c).held = r.held
         /\ SoundRoot(r) => SoundRoot(Intended(r, c))
  <1> DEFINE i == Intended(r, c)
  <1>1. /\ i \in Root /\ i.token = r.token /\ i.op = r.op /\ i.left = r.left
        /\ i.proof = r.proof /\ i.held = r.held
    BY DEF Intended, Root
  <1> HIDE DEF i
  <1>2. SoundRoot(r) => SoundRoot(i)
    BY <1>1 DEF SoundRoot, Lags, NativeOf
  <1> QED BY <1>1, <1>2 DEF i

LEMMA PublishedRoot ==
  ASSUME NEW r \in Root, NEW c \in Cell
  PROVE  /\ Published(r, c) \in Root
         /\ Published(r, c).token = r.token /\ Published(r, c).op = r.op
         /\ Published(r, c).left = r.left \ {c} /\ Published(r, c).held = r.held \ {c}
         /\ \A d \in Cell : Published(r, c).proof[d] = IF d = c THEN r.op ELSE r.proof[d]
  BY DEF Published, Root

LEMMA HeldRoot ==
  ASSUME NEW r \in Root, NEW c \in Cell
  PROVE  /\ Held(r, c) \in Root /\ Held(r, c).held = r.held \cup {c}
         /\ SoundRoot(r) => SoundRoot(Held(r, c))
  <1> DEFINE h == Held(r, c)
  <1>1. /\ h \in Root /\ h.op = r.op /\ h.left = r.left
        /\ h.proof = r.proof /\ h.held = r.held \cup {c}
    <2>1. r.token + 1 \in Nat /\ r.held \cup {c} \in SUBSET Cell
      BY DEF Root
    <2> QED BY <2>1 DEF Held, Root
  <1> HIDE DEF h
  <1>2. SoundRoot(r) => SoundRoot(h)
    BY <1>1 DEF SoundRoot, Lags, NativeOf
  <1> QED BY <1>1, <1>2 DEF h

\* What Recorder owes stays named while it works the queue off.
LEMMA NativeRuns ==
  ASSUME TypeOK, RecorderRuns, NEW r, NativeOf(r)
  PROVE  NativeOf(r)'
  <1>1. /\ imports \in Seq(Cell \X Nat) /\ imports # <<>> /\ imports' = Tail(imports)
        /\ native' = [native EXCEPT ![Head(imports)[1]] = Head(imports)[2]]
    BY DEF RecorderRuns, TypeOK
  <1>2. Head(imports) = imports[1] /\ 1 \in DOMAIN imports
    BY <1>1
  <1>3. Head(imports)[1] \in r.left
    BY <1>2 DEF NativeOf
  <1>4. \A c \in Cell : c \notin r.left => native'[c] = native[c]
    BY <1>1, <1>3 DEF TypeOK
  <1>5. \A i \in DOMAIN imports' : i + 1 \in DOMAIN imports /\ imports'[i] = imports[i + 1]
    BY <1>1
  <1> QED BY <1>4, <1>5 DEF NativeOf

LEMMA NativeEdited ==
  ASSUME TypeOK, NEW c \in Cell, ForeignEdit(c), NEW r, NativeOf(r)
  PROVE  NativeOf(r)'
  <1>1. imports' = imports /\ native' = [native EXCEPT ![c] = Foreign]
    BY DEF ForeignEdit
  <1>2. \A d \in Cell : native'[d] \in {native[d], Foreign}
    BY <1>1 DEF TypeOK
  <1> QED BY <1>1, <1>2 DEF NativeOf

\* A save of a sound root that resolves what is disputed starts.
LEMMA TaskStarts ==
  ASSUME Inv, NEW r, SoundRoot(r), Resolves(r),
         task' = [NoTask EXCEPT !.kind = "root", !.root = r, !.state = "running"],
         HoldsDisputed(file) \/ file.token \in fences,
         UNCHANGED <<file, fences, world, disputed>>
  PROVE  /\ task' \in Task /\ task'.kind = "root" /\ task'.root = r
         /\ SavePending' /\ TaskOK' /\ Guarded' /\ SoundRoot(file)'
  <1>1. /\ task' \in Task /\ task'.kind = "root" /\ task'.root = r /\ task'.landed = FALSE
        /\ task'.state = "running"
    BY DEF NoTask, Task, SoundRoot
  <1>2. native' = native /\ imports' = imports
    BY DEF world
  <1>3. TaskOK'
    BY <1>1, <1>2 DEF TaskOK, SoundRoot, Lags, NativeOf, Resolves
  <1>4. Guarded'
    BY DEF Guarded, HoldsDisputed
  <1>5. SoundRoot(file)'
    BY <1>2 DEF Inv, SoundRoot, Lags, NativeOf
  <1> QED BY <1>1, <1>3, <1>4, <1>5 DEF SavePending

\* The query's record stays one when it loses sight of an object.
LEMMA Replaced ==
  ASSUME TypeOK, NEW objects, Replace(objects)
  PROVE  /\ query' = [pc |-> query'.pc, stage |-> query'.stage, root |-> query'.root,
                      first |-> query'.first, kept |-> query'.kept, native |-> query'.native]
         /\ query'.pc = query.pc /\ query'.stage = query.stage /\ query'.root = query.root
         /\ query'.kept = query.kept \ objects
  BY DEF TypeOK, Replace

\* Nothing is disputed but what the admitted root holds.
LEMMA AdmittedHolds ==
  ASSUME Inv, Admitted(file)
  PROVE  HoldsDisputed(file)
  BY DEF Inv, Admitted, Guarded, HoldsDisputed, FenceTaskSound, SavePending, TypeOK, Task

\* A step that touches neither the journal nor Recorder nor the tracked task.
LEMMA JournalKept ==
  ASSUME Inv, UNCHANGED <<file, fences, native, imports, task, disputed>>
  PROVE  SoundRoot(file)' /\ Guarded' /\ TaskOK' /\ (SavePending' <=> SavePending)
  <1>1. SoundRoot(file)'
    BY DEF Inv, SoundRoot, Lags, NativeOf
  <1>2. Guarded'
    BY DEF Inv, Guarded
  <1>3. SavePending' <=> SavePending
    BY DEF SavePending
  <1>4. TaskOK'
    BY <1>3 DEF Inv, TaskOK, SoundRoot, Lags, NativeOf, Resolves
  <1> QED BY <1>1, <1>2, <1>3, <1>4

\* The save of a sound root that holds what is disputed, as the writer begins
\* it; the writer then waits for it in a place that asks no more of it.
LEMMA SaveBegins ==
  ASSUME Inv, NEW r, SoundRoot(r), Resolves(r),
         NEW pc \in {"accept", "blocked", "hold"},
         task' = [NoTask EXCEPT !.kind = "root", !.root = r, !.state = "running"],
         HoldsDisputed(file) \/ file.token \in fences,
         writer' = [pc |-> pc, root |-> r, cell |-> 0],
         Replace({"task", "cache"}), cache' \in Root \cup {None}, loaded' \in BOOLEAN,
         UNCHANGED <<file, fences, world, disputed>>
  PROVE  Inv'
  <1>1. /\ task' \in Task /\ task'.kind = "root" /\ task'.root = r
        /\ SavePending' /\ TaskOK' /\ Guarded' /\ SoundRoot(file)'
    BY TaskStarts
  <1>2. query' = [pc |-> query'.pc, stage |-> query'.stage, root |-> query'.root,
                      first |-> query'.first, kept |-> query'.kept, native |-> query'.native]
         /\ query'.stage = query.stage /\ query'.kept = query.kept \ {"task", "cache"}
    BY Replaced DEF Inv
  <1>3. TypeOK'
    BY <1>1, <1>2 DEF Inv, TypeOK, Writer, Waits, SoundRoot, world
  <1>4. WriterOK'
    BY <1>1 DEF WriterOK, Waits
  <1>5. QueryOK'
    BY <1>2 DEF QueryOK
  <1> QED BY <1>1, <1>3, <1>4, <1>5 DEF Inv

(***************************************************************************)
(* The writer's steps                                                      *)
(***************************************************************************)
LEMMA BeginAcceptInv == Inv /\ BeginAccept => Inv'
  <1> SUFFICES ASSUME Inv, BeginAccept PROVE Inv'
    OBVIOUS
  <1>1. /\ UNCHANGED <<file, fences, native, imports, task, disputed, cache, loaded, query>>
        /\ writer.pc = "idle" /\ file.left = {}
        /\ writer' = [pc |-> "sealing", root |-> file, cell |-> 0]
    BY DEF BeginAccept, journal, world, manager, NoWriter, Wait
  <1>2. file \in Root
    BY DEF Inv, TypeOK
  <1>3. TypeOK'
    BY <1>1, <1>2 DEF Inv, TypeOK, Writer
  <1>4. SoundRoot(file)' /\ Guarded' /\ TaskOK' /\ (SavePending' <=> SavePending)
    BY <1>1, JournalKept
  <1>5. WriterOK'
    BY <1>1, <1>4 DEF Inv, WriterOK, Waits
  <1>6. QueryOK'
    BY <1>1, <1>4 DEF Inv, QueryOK, FenceTaskSound
  <1> QED BY <1>3, <1>4, <1>5, <1>6 DEF Inv

LEMMA SaveAcceptedInv ==
  \A batches \in SUBSET Cell : Inv /\ SaveAccepted(batches) => Inv'
  <1> SUFFICES ASSUME NEW batches \in SUBSET Cell, Inv, SaveAccepted(batches)
               PROVE  Inv'
    OBVIOUS
  <1> DEFINE r == Accepted(file, batches)
  <1>1. /\ writer.pc = "sealing" /\ Admitted(file) /\ file = writer.root
        /\ UNCHANGED <<file, fences, world, native, imports, disputed>>
        /\ loaded' = TRUE /\ cache' = r
        /\ task' = [NoTask EXCEPT !.kind = "root", !.root = r, !.state = "running"]
        /\ Replace({"task", "cache"})
        /\ writer' = [pc |-> "accept", root |-> r, cell |-> 0]
    BY DEF SaveAccepted, SaveRoot, StartTask, Wait, journal, world
  <1>2. HoldsDisputed(file)
    BY <1>1, AdmittedHolds
  <1>3. r \in Root /\ SoundRoot(r) /\ r.held = file.held
    <2>1. file \in Root /\ Lags(file) /\ NativeOf(file) /\ file.left = {}
      BY <1>1 DEF Inv, SoundRoot, WriterOK
    <2> QED BY <2>1, AcceptedRoot
  <1> HIDE DEF r
  <1>4. Resolves(r)
    BY <1>2, <1>3 DEF Resolves, HoldsDisputed
  <1> QED BY <1>1, <1>2, <1>3, <1>4, SaveBegins

LEMMA BeginAdvanceInv == Inv /\ BeginAdvance => Inv'
  <1> SUFFICES ASSUME Inv, BeginAdvance PROVE Inv'
    OBVIOUS
  <1> DEFINE root == IF loaded THEN cache ELSE file
             next == CHOOSE c \in root.left : \A d \in root.left : c <= d
             after == Intended(root, next)
  <1>1. /\ writer = NoWriter /\ Admitted(root) /\ root.left # {} /\ loaded' = TRUE
        /\ UNCHANGED <<file, fences, world, native, imports, disputed>>
        /\ \/ SaveRoot(after, TRUE) /\ Wait("intent", after, next)
           \/ /\ cache' = root /\ Replace(IF loaded THEN {} ELSE {"task", "cache"})
              /\ Wait("submit", root, next) /\ UNCHANGED task
    BY DEF BeginAdvance, journal, world
  <1>2. root = file
    BY <1>1 DEF Inv, WriterOK, NoWriter
  <1>3. next \in file.left
    <2>1. file.left \in SUBSET Nat /\ file.left # {}
      BY <1>1, <1>2 DEF Inv, TypeOK, Root, Cell
    <2> DEFINE Less == OpToRel(<, Nat)
               S == file.left
    <2>2. \A x, y \in Nat : y < x => <<y, x>> \in Less
      BY DEF OpToRel
    <2>3. IsWellFoundedOn(Less, Nat)
      BY NatLessThanWellFounded
    <2>4. S \in SUBSET Nat /\ S # {}
      BY <2>1
    <2> HIDE DEF Less, S
    <2>5. PICK x \in S : \A y \in S : <<y, x>> \notin Less
      BY <2>3, <2>4, WFMin
    <2>6. \A y \in S : ~(y < x)
      BY <2>2, <2>4, <2>5
    <2>7. \E z \in S : \A y \in S : z <= y
      BY <2>4, <2>6
    <2> QED BY <1>2, <2>7 DEF S
  <1>4. HoldsDisputed(file) /\ ~SavePending
    BY <1>1, <1>2, AdmittedHolds DEF Admitted
  <1>5. file \in Root /\ next \in Cell
    BY <1>3 DEF Inv, TypeOK, Root
  <1> HIDE DEF root, next
  <1>6. CASE SaveRoot(after, TRUE) /\ Wait("intent", after, next)
    <2>1. /\ after \in Root /\ SameWork(after) /\ SoundRoot(after) /\ after.held = file.held
      BY <1>2, <1>5, IntendedRoot DEF Inv, SameWork
    <2> HIDE DEF after
    <2>2. Resolves(after)
      BY <1>4, <2>1 DEF Resolves, HoldsDisputed
    <2>3. /\ task' = [NoTask EXCEPT !.kind = "root", !.root = after, !.state = "running"]
          /\ cache' = after /\ Replace({"task", "cache"})
          /\ writer' = [pc |-> "intent", root |-> after, cell |-> next]
      BY <1>6 DEF SaveRoot, StartTask, Wait
    <2>4. /\ task' \in Task /\ task'.kind = "root" /\ task'.root = after
          /\ SavePending' /\ TaskOK' /\ Guarded' /\ SoundRoot(file)'
      BY <1>1, <1>4, <2>1, <2>2, <2>3, TaskStarts
    <2>5. query' = [pc |-> query'.pc, stage |-> query'.stage, root |-> query'.root,
                      first |-> query'.first, kept |-> query'.kept, native |-> query'.native]
           /\ query'.stage = query.stage /\ query'.kept = query.kept \ {"task", "cache"}
      BY <2>3, Replaced DEF Inv
    <2>6. TypeOK'
      BY <1>1, <1>5, <2>1, <2>3, <2>4, <2>5 DEF Inv, TypeOK, Writer, Waits
    <2>7. /\ after.token = file'.token /\ after.op = file'.op /\ after.left = file'.left
          /\ after.proof = file'.proof /\ after.held = file'.held /\ HoldsDisputed(file)'
      BY <1>1, <1>4, <2>1 DEF SameWork, HoldsDisputed
    <2>8. WriterOK'
      BY <1>1, <1>3, <2>3, <2>4, <2>7 DEF WriterOK, Waits, SameWork
    <2>9. QueryOK'
      BY <2>5 DEF QueryOK
    <2> QED BY <2>4, <2>6, <2>8, <2>9 DEF Inv
  <1>7. CASE /\ cache' = root /\ Replace(IF loaded THEN {} ELSE {"task", "cache"})
             /\ Wait("submit", root, next) /\ UNCHANGED task
    <2>1. /\ task' = task /\ cache' = file
          /\ writer' = [pc |-> "submit", root |-> file, cell |-> next]
      BY <1>2, <1>7 DEF Wait
    <2>2. SoundRoot(file)' /\ Guarded' /\ TaskOK' /\ (SavePending' <=> SavePending)
      BY <1>1, <2>1, JournalKept
    <2>3. /\ query' = [pc |-> query'.pc, stage |-> query'.stage, root |-> query'.root,
                      first |-> query'.first, kept |-> query'.kept, native |-> query'.native]
          /\ query'.pc = query.pc /\ query'.stage = query.stage /\ query'.root = query.root
          /\ query'.kept \subseteq query.kept
      BY <1>7, Replaced DEF Inv
    <2>4. TypeOK'
      BY <1>1, <1>5, <2>1, <2>3 DEF Inv, TypeOK, Writer
    <2>5. WriterOK'
      BY <1>1, <1>3, <1>4, <2>1, <2>2 DEF WriterOK, Waits, HoldsDisputed
    <2>6. writer.pc = "idle"
      BY <1>1 DEF NoWriter
    <2>7. QueryOK'
      BY <1>1, <2>1, <2>2, <2>3, <2>6 DEF Inv, QueryOK, FenceTaskSound
    <2> QED BY <2>2, <2>4, <2>5, <2>7 DEF Inv
  <1> QED BY <1>1, <1>6, <1>7

LEMMA SubmitInv == Inv /\ Submit => Inv'
  <1> SUFFICES ASSUME Inv, Submit PROVE Inv'
    OBVIOUS
  <1>1. /\ writer.pc = "submit" /\ imports = <<>>
        /\ imports' = imports \/ imports' = <<<<writer.cell, writer.root.op>>>>
        /\ writer' = [pc |-> "readback", root |-> writer.root, cell |-> writer.cell]
        /\ UNCHANGED <<file, fences, native, task, cache, loaded, query, disputed>>
    BY DEF Submit, Fenced, Enqueued, Wait, journal, manager
  <1>2. /\ ~SavePending /\ cache = file /\ writer.root = file
        /\ writer.cell \in file.left /\ HoldsDisputed(file)
    BY <1>1 DEF Inv, WriterOK
  <1>3. file \in Root /\ writer.cell \in Cell /\ file.op \in Nat
    BY <1>2 DEF Inv, TypeOK, Root
  <1>4. imports' \in Seq(Cell \X Nat)
    <2>1. <<writer.cell, writer.root.op>> \in Cell \X Nat
      BY <1>2, <1>3
    <2>2. <<<<writer.cell, writer.root.op>>>> \in Seq(Cell \X Nat)
      BY <2>1
    <2> QED BY <1>1, <2>2 DEF Inv, TypeOK
  <1>5. \A i \in DOMAIN imports' : imports'[i] = <<writer.cell, file.op>>
    BY <1>1, <1>2
  <1>6. TypeOK'
    BY <1>1, <1>2, <1>3, <1>4 DEF Inv, TypeOK, Writer
  <1>7. SoundRoot(file)'
    <2>1. NativeOf(file)'
      BY <1>1, <1>2, <1>5 DEF Inv, SoundRoot, NativeOf
    <2> QED BY <1>1, <1>3, <2>1 DEF Inv, SoundRoot, Lags
  <1>8. ~SavePending' /\ Guarded' /\ TaskOK'
    <2>1. ~SavePending' /\ Guarded'
      BY <1>1, <1>2 DEF Inv, SavePending, Guarded
    <2> QED BY <1>1, <1>2, <2>1 DEF Inv, TaskOK
  <1>9. WriterOK'
    BY <1>1, <1>2, <1>8 DEF WriterOK, Waits, HoldsDisputed
  <1>10. QueryOK'
    BY <1>1, <1>2, <1>8 DEF Inv, QueryOK, FenceTaskSound
  <1> QED BY <1>6, <1>7, <1>8, <1>9, <1>10 DEF Inv

LEMMA PublishInv == Inv /\ Publish => Inv'
  <1> SUFFICES ASSUME Inv, Publish PROVE Inv'
    OBVIOUS
  <1> DEFINE cell == writer.cell
             after == Published(file, cell)
  <1>1. /\ ~SavePending /\ cache = file /\ writer.root = file
        /\ cell \in file.left /\ HoldsDisputed(file) /\ file \in Root
    BY DEF Publish, Inv, WriterOK, TypeOK
  <1>2. /\ UNCHANGED <<file, fences, world, native, imports, disputed, loaded, cache>>
        /\ imports = <<>> /\ native[cell] = file.op
        /\ task' = [NoTask EXCEPT !.kind = "root", !.root = after, !.state = "running"]
        /\ Replace({"task"})
        /\ writer' = [pc |-> "publish", root |-> after, cell |-> 0]
    BY <1>1 DEF Publish, Fenced, Snapshot, SaveRoot, StartTask, Wait, journal, world
  <1>3. cell \in Cell
    BY <1>1 DEF Root
  <1>4. /\ after \in Root /\ after.op = file.op /\ after.left = file.left \ {cell}
        /\ after.held = file.held \ {cell}
        /\ \A d \in Cell : after.proof[d] = IF d = cell THEN file.op ELSE file.proof[d]
    BY <1>1, <1>3, PublishedRoot
  <1> HIDE DEF cell, after
  <1>5. SoundRoot(after)
    <2>1. Lags(file) /\ NativeOf(file) /\ file.op \in Nat
      BY <1>1 DEF Inv, SoundRoot, Root
    <2>2. Lags(after)
      BY <1>4, <2>1 DEF Lags
    <2>3. NativeOf(after)
      BY <1>2, <1>4, <2>1 DEF NativeOf
    <2> QED BY <1>4, <2>2, <2>3 DEF SoundRoot
  <1>6. Resolves(after)
    <2>1. file.proof[cell] < file.op /\ file.proof[cell] \in Nat /\ file.op \in Nat
      BY <1>1, <1>3 DEF Inv, SoundRoot, Lags, Root
    <2>2. \A d \in disputed : d \in file.held /\ d \in Cell
      BY <1>1 DEF HoldsDisputed, Root
    <2> QED BY <1>4, <2>1, <2>2 DEF Resolves
  <1>7. /\ task' \in Task /\ task'.kind = "root" /\ task'.root = after
        /\ SavePending' /\ TaskOK' /\ Guarded' /\ SoundRoot(file)'
    BY <1>1, <1>2, <1>5, <1>6, TaskStarts
  <1>8. query' = [pc |-> query'.pc, stage |-> query'.stage, root |-> query'.root,
                  first |-> query'.first, kept |-> query'.kept, native |-> query'.native]
        /\ query'.stage = query.stage /\ query'.kept = query.kept \ {"task"}
    BY <1>2, Replaced DEF Inv
  <1>9. TypeOK'
    BY <1>2, <1>4, <1>7, <1>8 DEF Inv, TypeOK, Writer, Waits
  <1>10. WriterOK'
    <2>1. /\ cache' \in Root /\ Lags(cache)' /\ HoldsDisputed(file)'
          /\ cell \in cache'.left /\ file' = cache'
      BY <1>1, <1>2 DEF Inv, SoundRoot, Lags, HoldsDisputed
    <2>2. writer'.root = Published(cache', cell)
      BY <1>1, <1>2 DEF after
    <2> QED BY <1>2, <1>7, <2>1, <2>2 DEF WriterOK, Waits
  <1>11. QueryOK'
    BY <1>2, <1>8 DEF QueryOK
  <1> QED BY <1>7, <1>9, <1>10, <1>11 DEF Inv

LEMMA ReadbackFailsInv == Inv /\ ReadbackFails => Inv'
  <1> SUFFICES ASSUME Inv, ReadbackFails PROVE Inv'
    OBVIOUS
  <1>1. cache = file /\ HoldsDisputed(file)
    BY DEF ReadbackFails, Inv, WriterOK
  <1>2. /\ UNCHANGED <<file, fences, world, disputed, loaded>> /\ cache' = cache
        /\ task' = [NoTask EXCEPT !.kind = "root", !.root = cache, !.state = "running"]
        /\ Replace({"task", "cache"})
        /\ writer' = [pc |-> "blocked", root |-> cache, cell |-> 0]
    BY DEF ReadbackFails, SaveRoot, StartTask, Wait, journal
  <1>3. SoundRoot(cache) /\ Resolves(cache) /\ cache \in Root /\ loaded \in BOOLEAN
    BY <1>1 DEF Inv, TypeOK, Resolves, HoldsDisputed
  <1> QED BY <1>1, <1>2, <1>3, SaveBegins

LEMMA BeginHoldInv == \A c \in Cell : Inv /\ BeginHold(c) => Inv'
  <1> SUFFICES ASSUME NEW c \in Cell, Inv, BeginHold(c)
               PROVE  Inv'
    OBVIOUS
  <1>1. /\ Admitted(file) /\ writer.pc = "idle"
        /\ UNCHANGED <<file, fences, native, imports, cache, loaded>>
        /\ task' = [NoTask EXCEPT !.kind = "fence", !.token = file.token, !.state = "running"]
        /\ Replace({"task"})
        /\ disputed' = disputed \cup {c}
        /\ writer' = [pc |-> "fence", root |-> file, cell |-> c]
    BY DEF BeginHold, StartTask, Wait, NoWriter, journal, world
  <1>2. HoldsDisputed(file)
    BY <1>1, AdmittedHolds
  <1>3. file \in Root /\ file.token \in Nat
    BY DEF Inv, TypeOK, Root
  <1>4. /\ task' \in Task /\ task'.kind = "fence" /\ task'.token = file.token
        /\ task'.state = "running" /\ task'.landed = FALSE /\ SavePending'
    BY <1>1, <1>3 DEF NoTask, Task, SavePending
  <1>5. query' = [pc |-> query'.pc, stage |-> query'.stage, root |-> query'.root,
                  first |-> query'.first, kept |-> query'.kept, native |-> query'.native]
        /\ query'.pc = query.pc /\ query'.stage = query.stage /\ query'.root = query.root
        /\ query'.kept = query.kept \ {"task"}
    BY <1>1, Replaced DEF Inv
  <1>6. TypeOK'
    BY <1>1, <1>3, <1>4, <1>5 DEF Inv, TypeOK, Writer
  <1>7. SoundRoot(file)'
    BY <1>1 DEF Inv, SoundRoot, Lags, NativeOf
  <1>8. Guarded' /\ TaskOK'
    BY <1>1, <1>3, <1>4 DEF Guarded, TaskOK
  <1>9. WriterOK'
    BY <1>1, <1>2, <1>4 DEF WriterOK, Waits, HoldsDisputed
  <1>10. QueryOK'
    BY <1>1, <1>4, <1>5 DEF Inv, QueryOK
  <1> QED BY <1>6, <1>7, <1>8, <1>9, <1>10 DEF Inv

LEMMA SaveHeldInv == Inv /\ SaveHeld => Inv'
  <1> SUFFICES ASSUME Inv, SaveHeld PROVE Inv'
    OBVIOUS
  <1> DEFINE after == Held(file, writer.cell)
  <1>1. /\ writer.root = file /\ task.kind = "fence" /\ task.token = file.token
        /\ disputed \subseteq file.held \cup {writer.cell} /\ writer.cell \in Cell
    BY DEF SaveHeld, Inv, WriterOK
  <1>2. /\ UNCHANGED <<file, fences, world, disputed>>
        /\ task' = [NoTask EXCEPT !.kind = "root", !.root = after, !.state = "running"]
        /\ cache' = file /\ loaded' = TRUE /\ Replace({"task", "cache"})
        /\ writer' = [pc |-> "hold", root |-> after, cell |-> 0]
    BY <1>1 DEF SaveHeld, StartTask, Wait
  <1>3. file.token \in fences
    BY <1>1 DEF SaveHeld, Inv, TaskOK
  <1>4. file \in Root /\ SoundRoot(file)
    BY DEF Inv, TypeOK
  <1>5. SoundRoot(after) /\ after.held = file.held \cup {writer.cell}
    BY <1>1, <1>4, HeldRoot
  <1> HIDE DEF after
  <1>6. Resolves(after)
    BY <1>1, <1>5 DEF Resolves
  <1> QED BY <1>2, <1>3, <1>4, <1>5, <1>6, SaveBegins

LEMMA SavedInv == Inv /\ Saved => Inv'
  <1> SUFFICES ASSUME Inv, Saved PROVE Inv'
    OBVIOUS
  <1>1. /\ UNCHANGED <<file, fences, native, imports, task, loaded, disputed>>
        /\ writer.pc \in Waits /\ task.state = "done" /\ cache' = writer.root
        /\ Replace({"cache"})
        /\ writer' = IF writer.pc = "intent" THEN [writer EXCEPT !.pc = "submit"] ELSE NoWriter
    BY DEF Saved, AwaitsSave, Waits, journal, world
  <1>2. /\ task.kind = "root" /\ task.root = writer.root /\ file = writer.root
        /\ ~SavePending /\ file \in Root
    BY <1>1 DEF Inv, TypeOK, WriterOK, TaskOK, SavePending
  <1>3. SoundRoot(file)' /\ Guarded' /\ TaskOK' /\ (SavePending' <=> SavePending)
    BY <1>1, JournalKept
  <1>4. query' = [pc |-> query'.pc, stage |-> query'.stage, root |-> query'.root,
                  first |-> query'.first, kept |-> query'.kept, native |-> query'.native]
        /\ query'.pc = query.pc /\ query'.stage = query.stage /\ query'.root = query.root
        /\ query'.kept = query.kept \ {"cache"}
    BY <1>1, Replaced DEF Inv
  <1>5. \/ /\ writer'.pc = "submit" /\ writer'.root = file /\ writer'.cell = writer.cell
           /\ writer.cell \in file.left /\ HoldsDisputed(file)
        \/ writer'.pc = "idle"
    BY <1>1, <1>2 DEF Inv, TypeOK, WriterOK, Writer, NoWriter
  <1>6. writer' \in Writer
    BY <1>1 DEF Inv, TypeOK, Writer, Waits, NoWriter
  <1>7. TypeOK'
    BY <1>1, <1>2, <1>4, <1>6 DEF Inv, TypeOK
  <1>8. WriterOK'
    BY <1>1, <1>2, <1>3, <1>5 DEF WriterOK, Waits, HoldsDisputed
  <1>9. QueryOK'
    BY <1>1, <1>3, <1>4 DEF Inv, QueryOK, FenceTaskSound
  <1> QED BY <1>3, <1>7, <1>8, <1>9 DEF Inv

LEMMA SaveFailedInv == Inv /\ SaveFailed => Inv'
  <1> SUFFICES ASSUME Inv, SaveFailed PROVE Inv'
    OBVIOUS
  <1>1. /\ UNCHANGED <<file, fences, world, native, imports, disputed>> /\ loaded' = FALSE
        /\ task.state = "failed"
    BY DEF SaveFailed, journal, world
  <1>2. CASE writer.pc \in {"intent", "publish"}
    <2>1. /\ task' = [NoTask EXCEPT !.kind = "root", !.root = cache, !.state = "running"]
          /\ cache' = cache /\ Replace({"task", "cache"})
          /\ writer' = [pc |-> "blocked", root |-> cache, cell |-> 0]
      BY <1>2 DEF SaveFailed, SaveRoot, StartTask, Wait
    <2>2. HoldsDisputed(file) /\ SoundRoot(file)
      BY <1>2 DEF Inv, WriterOK
    <2>3. SoundRoot(cache) /\ Resolves(cache)
      <3>1. CASE writer.pc = "intent"
        <4>1. cache \in Root /\ SameWork(cache)
          BY <3>1 DEF Inv, WriterOK, TaskOK, Waits
        <4>2. Lags(cache) /\ NativeOf(cache)
          BY <2>2, <4>1 DEF SoundRoot, Lags, NativeOf, SameWork
        <4> QED BY <2>2, <4>1, <4>2 DEF SoundRoot, Resolves, HoldsDisputed, SameWork
      <3>2. CASE writer.pc = "publish"
        <4>1. /\ cache \in Root /\ Lags(cache)
              /\ file = cache \/ file = writer.root
          BY <3>2 DEF Inv, WriterOK
        <4>2. PICK c \in cache.left : writer.root = Published(cache, c)
          BY <3>2 DEF Inv, WriterOK
        <4>3. CASE file = cache
          BY <2>2, <4>3 DEF Resolves, HoldsDisputed
        <4>4. CASE file = Published(cache, c)
          <5>1. c \in Cell
            BY <4>1, <4>2 DEF Root
          <5>2. /\ file.op = cache.op /\ file.left = cache.left \ {c}
                /\ file.held = cache.held \ {c}
                /\ \A d \in Cell : file.proof[d] = IF d = c THEN cache.op ELSE cache.proof[d]
            BY <4>1, <4>4, <5>1, PublishedRoot
          <5>3. NativeOf(cache)
            BY <2>2, <4>2, <5>1, <5>2 DEF SoundRoot, NativeOf
          <5> QED BY <2>2, <4>1, <5>2, <5>3 DEF SoundRoot, Resolves, HoldsDisputed
        <4> QED BY <4>1, <4>2, <4>3, <4>4
      <3> QED BY <1>2, <3>1, <3>2
    <2>4. cache \in Root \cup {None}
      BY DEF Inv, TypeOK
    <2> QED BY <1>1, <2>1, <2>2, <2>3, <2>4, SaveBegins
  <1>3. CASE writer.pc \notin {"intent", "publish"}
    <2>1. writer' = NoWriter /\ UNCHANGED <<task, cache, query>>
      BY <1>3 DEF SaveFailed
    <2>2. SoundRoot(file)' /\ Guarded' /\ TaskOK' /\ (SavePending' <=> SavePending)
      BY <1>1, <2>1, JournalKept
    <2>3. TypeOK'
      BY <1>1, <2>1 DEF Inv, TypeOK, Writer, NoWriter
    <2>4. WriterOK'
      BY <1>1, <2>1 DEF WriterOK, NoWriter, Waits
    <2>5. QueryOK'
      BY <1>1, <1>3, <2>1, <2>2 DEF Inv, QueryOK, FenceTaskSound
    <2> QED BY <2>2, <2>3, <2>4, <2>5 DEF Inv
  <1> QED BY <1>2, <1>3

LEMMA CancelInv == Inv /\ Cancel => Inv'
  <1> SUFFICES ASSUME Inv, Cancel PROVE Inv'
    OBVIOUS
  <1>1. /\ UNCHANGED <<file, fences, native, imports, task, cache, query, disputed>>
        /\ writer' = NoWriter /\ loaded' = (loaded /\ ~AwaitsTask)
        /\ writer.pc \in {"sealing", "accept", "fence", "hold"}
    BY DEF Cancel, journal, world
  <1>2. SoundRoot(file)' /\ Guarded' /\ TaskOK' /\ (SavePending' <=> SavePending)
    BY <1>1, JournalKept
  <1>3. loaded' \in BOOLEAN
    BY <1>1, Zenon
  <1>4. TypeOK'
    BY <1>1, <1>3 DEF Inv, TypeOK, Writer, NoWriter
  <1>5. loaded' => cache = file /\ ~SavePending
    BY <1>1 DEF Inv, WriterOK, AwaitsTask, AwaitsSave
  <1>6. WriterOK'
    BY <1>1, <1>2, <1>5 DEF WriterOK, NoWriter, Waits
  <1>7. QueryOK'
    BY <1>1, <1>2 DEF Inv, QueryOK, FenceTaskSound
  <1> QED BY <1>2, <1>4, <1>6, <1>7 DEF Inv

(***************************************************************************)
(* The query's steps                                                       *)
(***************************************************************************)
\* A step of the query keeps all but what the query itself knows.
LEMMA QueryKeeps ==
  ASSUME Inv,
         UNCHANGED <<file, fences, native, imports, task, disputed, cache, loaded, writer>>,
         query' = [pc |-> query'.pc, stage |-> query'.stage, root |-> query'.root,
                   first |-> query'.first, kept |-> query'.kept, native |-> query'.native],
         query'.stage \in 0..2, QueryOK'
  PROVE  Inv'
  <1>1. SoundRoot(file)' /\ Guarded' /\ TaskOK' /\ (SavePending' <=> SavePending)
    BY JournalKept
  <1>2. TypeOK'
    BY DEF Inv, TypeOK
  <1>3. WriterOK'
    BY <1>1 DEF Inv, WriterOK, Waits, SameWork, HoldsDisputed, Lags
  <1> QED BY <1>1, <1>2, <1>3 DEF Inv

LEMMA QueryLoadsInv == Inv /\ QueryLoads => Inv'
  <1> SUFFICES ASSUME Inv, QueryLoads PROVE Inv'
    OBVIOUS
  <1>1. /\ UNCHANGED <<file, fences, native, imports, task, disputed, cache, loaded, writer>>
        /\ ~SavePending
    BY DEF QueryLoads, journal, world, manager
  <1>2. /\ query' = [pc |-> query'.pc, stage |-> query'.stage, root |-> query'.root,
                     first |-> query'.first, kept |-> query'.kept, native |-> query'.native]
        /\ query'.stage \in 0..2 /\ query'.pc = "loaded" /\ query'.root = file
    <2>1. CASE query.pc = "check"
      BY <2>1 DEF QueryLoads, Inv, TypeOK
    <2>2. CASE query.pc # "check"
      <3>1. query' = [pc |-> "loaded", stage |-> 0, root |-> file, first |-> None,
                      kept |-> {}, native |-> <<>>]
        BY <2>2 DEF QueryLoads, NoQuery
      <3> QED BY <3>1
    <2> QED BY <2>1, <2>2
  <1>3. QueryOK'
    BY <1>1, <1>2 DEF QueryOK, SavePending
  <1> QED BY <1>1, <1>2, <1>3, QueryKeeps

LEMMA QueryAsksInv == Inv /\ QueryAsks => Inv'
  <1> SUFFICES ASSUME Inv, QueryAsks PROVE Inv'
    OBVIOUS
  <1>1. /\ UNCHANGED <<file, fences, native, imports, task, disputed, cache, loaded, writer>>
        /\ query.pc = "loaded" /\ ~WriterAwoken
    BY DEF QueryAsks, journal, world
  <1>2. CASE query' = NoQuery
    <2>1. QueryOK'
      BY <1>2 DEF QueryOK, NoQuery
    <2> QED BY <1>1, <1>2, <2>1, QueryKeeps DEF NoQuery
  <1>3. CASE query' # NoQuery
    <2>1. /\ ~SavePending /\ FenceTaskSound(query.root) /\ query.root.token \notin fences
          /\ query' = [query EXCEPT !.pc = "asked", !.kept = @ \union {"task"}]
      BY <1>3 DEF QueryAsks, QueryFails
    <2>2. /\ query' = [pc |-> query'.pc, stage |-> query'.stage, root |-> query'.root,
                       first |-> query'.first, kept |-> query'.kept, native |-> query'.native]
          /\ query'.stage \in 0..2 /\ query'.pc = "asked" /\ query'.root = query.root
          /\ query'.kept = query.kept \cup {"task"}
      BY <2>1 DEF Inv, TypeOK
    <2>3. "cache" \in query.kept => query.root = file
      BY <1>1, <2>1 DEF Inv, QueryOK, WriterAwoken, AwaitsTask, AwaitsSave
    <2>4. QueryOK'
      BY <1>1, <2>1, <2>2, <2>3 DEF QueryOK, SavePending, FenceTaskSound
    <2> QED BY <1>1, <2>2, <2>4, QueryKeeps
  <1> QED BY <1>2, <1>3

\* The answer, and the steps before it.
LEMMA RootedSteps ==
  ASSUME TypeOK, QueryRooted
  PROVE  /\ query.pc = "asked"
         /\ query' = [pc |-> query'.pc, stage |-> query'.stage, root |-> query'.root,
                      first |-> query'.first, kept |-> query'.kept, native |-> query'.native]
         /\ query'.stage \in 0..2 /\ query'.pc \in {"idle", "reading", "check", "answered"}
         /\ query'.pc = "answered" =>
              /\ RootAdmitted /\ Checked
              /\ query'.first = query.first /\ query'.native = query.native
  <1>1. query.pc = "asked"
    BY DEF QueryRooted
  <1>2. CASE query' = NoQuery
    BY <1>1, <1>2 DEF NoQuery
  <1>3. CASE RootAdmitted /\ query' = [query EXCEPT !.pc = "reading", !.first = query.root]
    BY <1>1, <1>3 DEF TypeOK
  <1>4. CASE RootAdmitted /\ query' = [query EXCEPT !.pc = "check", !.stage = 2]
    <2>1. query' = [pc |-> "check", stage |-> 2, root |-> query.root, first |-> query.first,
                    kept |-> query.kept, native |-> query.native]
      BY <1>4 DEF TypeOK
    <2> QED BY <1>1, <2>1
  <1>5. CASE RootAdmitted /\ Checked /\ query' = [query EXCEPT !.pc = "answered"]
    BY <1>1, <1>5 DEF TypeOK
  <1> QED BY <1>2, <1>3, <1>4, <1>5 DEF QueryRooted, QueryFails

LEMMA QueryRootedInv == Inv /\ QueryRooted => Inv'
  <1> SUFFICES ASSUME Inv, QueryRooted PROVE Inv'
    OBVIOUS
  <1>1. UNCHANGED <<file, fences, native, imports, task, disputed, cache, loaded, writer>>
    BY DEF QueryRooted, journal, world, manager
  <1>2. QueryOK'
    BY RootedSteps DEF QueryOK, Inv
  <1> QED BY <1>1, <1>2, RootedSteps, QueryKeeps DEF Inv

LEMMA QueryReadsInv == Inv /\ QueryReads => Inv'
  <1> SUFFICES ASSUME Inv, QueryReads PROVE Inv'
    OBVIOUS
  <1>1. UNCHANGED <<file, fences, native, imports, task, disputed, cache, loaded, writer>>
    BY DEF QueryReads, journal, world, manager
  <1>2. /\ query' = [pc |-> query'.pc, stage |-> query'.stage, root |-> query'.root,
                     first |-> query'.first, kept |-> query'.kept, native |-> query'.native]
        /\ query'.stage \in 0..2 /\ query'.pc \in {"reading", "check"}
    <2>1. PICK rows, pc, stage :
            /\ query' = [query EXCEPT !.native = rows, !.pc = pc, !.stage = stage]
            /\ pc \in {"reading", "check"} /\ stage \in 0..2
      <3> DEFINE rows == Append(query.native, Snapshot(Len(query.native) + 1))
                 pc == IF Len(rows) = Cells THEN "check" ELSE "reading"
                 stage == IF Len(rows) = Cells THEN 1 ELSE 0
      <3>1. query' = [query EXCEPT !.native = rows, !.pc = pc, !.stage = stage]
        BY DEF QueryReads
      <3>2. pc \in {"reading", "check"} /\ stage \in 0..2
        OBVIOUS
      <3> HIDE DEF rows, pc, stage
      <3> QED BY <3>1, <3>2
    <2> QED BY <2>1 DEF Inv, TypeOK
  <1>3. QueryOK'
    BY <1>2 DEF QueryOK
  <1> QED BY <1>1, <1>2, <1>3, QueryKeeps

(***************************************************************************)
(* The tracked task, Recorder, and what interrupts them                    *)
(***************************************************************************)
LEMMA TaskLandsInv == Inv /\ TaskLands => Inv'
  <1> SUFFICES ASSUME Inv, TaskLands PROVE Inv'
    OBVIOUS
  <1>1. /\ SavePending /\ ~task.landed
        /\ UNCHANGED <<native, imports, cache, loaded, writer, query>>
    BY DEF TaskLands, world, manager
  <1>2. /\ task' \in Task /\ task'.kind = task.kind /\ task'.root = task.root
        /\ task'.token = task.token /\ task'.state = task.state /\ task'.landed = TRUE
    BY DEF TaskLands, Inv, TypeOK, Task
  <1>3. task.kind \in {"root", "fence"} /\ SavePending'
    BY <1>1, <1>2 DEF SavePending, Inv, TypeOK, TaskOK, Task
  <1>4. CASE task.kind = "root"
    <2>1. /\ file' = task.root /\ fences' = fences
          /\ disputed' = {c \in disputed : task.root.proof[c] = file.proof[c]}
      BY <1>4 DEF TaskLands
    <2>2. task.root \in Root /\ SoundRoot(task.root) /\ Resolves(task.root)
      BY <1>1, <1>4 DEF Inv, TaskOK
    <2>3. TypeOK'
      BY <1>1, <1>2, <2>1, <2>2 DEF Inv, TypeOK
    <2>4. SoundRoot(file)'
      BY <1>1, <2>1, <2>2 DEF SoundRoot, Lags, NativeOf
    <2>5. disputed' \subseteq task.root.held
      BY <2>1, <2>2 DEF Resolves
    <2>6. Guarded'
      BY <2>1, <2>5 DEF Guarded
    <2>7. TaskOK'
      BY <1>2, <1>4, <2>1, <2>2 DEF TaskOK
    <2>8. WriterOK'
      BY <1>1, <1>2, <1>4, <2>1, <2>5 DEF Inv, WriterOK, Waits, SameWork, HoldsDisputed, Lags
    <2>9. QueryOK'
      BY <1>1, <1>2, <1>4 DEF Inv, QueryOK
    <2> QED BY <2>3, <2>4, <2>6, <2>7, <2>8, <2>9 DEF Inv
  <1>5. CASE task.kind = "fence"
    <2>1. file' = file /\ fences' = fences \cup {task.token} /\ disputed' = disputed
      BY <1>5 DEF TaskLands
    <2>2. TypeOK'
      BY <1>1, <1>2, <1>5, <2>1 DEF Inv, TypeOK, TaskOK
    <2>3. SoundRoot(file)'
      BY <1>1, <2>1 DEF Inv, SoundRoot, Lags, NativeOf
    <2>4. Guarded' /\ TaskOK'
      BY <1>2, <1>5, <2>1 DEF Inv, Guarded, TaskOK
    <2>5. WriterOK'
      BY <1>1, <1>2, <1>5, <2>1 DEF Inv, WriterOK, Waits, SameWork, HoldsDisputed, Lags
    <2>6. QueryOK'
      BY <1>1, <1>2, <1>5, <2>1 DEF Inv, QueryOK
    <2> QED BY <2>2, <2>3, <2>4, <2>5, <2>6 DEF Inv
  <1> QED BY <1>3, <1>4, <1>5

\* The tracked task ends, well or not.
LEMMA TaskEndsInv == Inv /\ (TaskDone \/ TaskFails) => Inv'
  <1> SUFFICES ASSUME Inv, TaskDone \/ TaskFails PROVE Inv'
    OBVIOUS
  <1>1. /\ SavePending
        /\ UNCHANGED <<file, fences, native, imports, cache, loaded, writer, query, disputed>>
    BY DEF TaskDone, TaskFails, journal, world, manager
  <1>2. /\ task' \in Task /\ task'.kind = task.kind /\ task'.root = task.root
        /\ task'.token = task.token /\ task'.landed = task.landed
        /\ (task'.state = "done" /\ task.landed) \/ task'.state = "failed"
    BY DEF TaskDone, TaskFails, Inv, TypeOK, Task
  <1>3. task.kind \in {"root", "fence"} /\ ~SavePending'
    BY <1>1, <1>2 DEF SavePending, Inv, TypeOK, TaskOK, Task
  <1>4. TypeOK'
    BY <1>1, <1>2 DEF Inv, TypeOK
  <1>5. SoundRoot(file)'
    BY <1>1 DEF Inv, SoundRoot, Lags, NativeOf
  <1>6. Guarded' /\ TaskOK'
    BY <1>1, <1>2, <1>3 DEF Inv, Guarded, TaskOK
  <1>7. WriterOK'
    BY <1>1, <1>2 DEF Inv, WriterOK, Waits, SameWork, HoldsDisputed, Lags
  <1>8. QueryOK'
    BY <1>1, <1>2, <1>3 DEF Inv, QueryOK
  <1> QED BY <1>4, <1>5, <1>6, <1>7, <1>8 DEF Inv

\* A step that only moves Recorder's queue or rows.
LEMMA WorldMoves ==
  ASSUME Inv,
         UNCHANGED <<file, fences, task, disputed, cache, loaded, writer, query>>,
         native' \in [Cell -> Nat \cup {Foreign}], imports' \in Seq(Cell \X Nat),
         \A r : NativeOf(r) => NativeOf(r)'
  PROVE  Inv'
  <1>1. SavePending' <=> SavePending
    BY DEF SavePending
  <1>2. TypeOK'
    BY DEF Inv, TypeOK
  <1>3. PICK f, t : f = file /\ t = task.root
    OBVIOUS
  <1>4. SoundRoot(file)'
    <2>1. SoundRoot(f) /\ f' = f
      BY <1>3 DEF Inv
    <2>2. SoundRoot(f)'
      BY <2>1 DEF SoundRoot, Lags
    <2> QED BY <1>3, <2>2
  <1>5. Guarded'
    BY DEF Inv, Guarded
  <1>6. SavePending /\ task.kind = "root" /\ ~task.landed => SoundRoot(task.root)'
    <2>1. SoundRoot(t) => SoundRoot(t)'
      BY DEF SoundRoot, Lags
    <2>2. SoundRoot(task.root) => SoundRoot(task.root)'
      BY <1>3, <2>1
    <2> QED BY <2>2 DEF Inv, TaskOK
  <1>7. TaskOK'
    BY <1>1, <1>6 DEF Inv, TaskOK, Resolves
  <1>8. WriterOK'
    BY <1>1 DEF Inv, WriterOK, Waits, SameWork, HoldsDisputed, Lags
  <1>9. QueryOK'
    BY <1>1 DEF Inv, QueryOK, FenceTaskSound
  <1> QED BY <1>2, <1>4, <1>5, <1>7, <1>8, <1>9 DEF Inv

LEMMA RecorderRunsInv == Inv /\ RecorderRuns => Inv'
  <1> SUFFICES ASSUME Inv, RecorderRuns PROVE Inv'
    OBVIOUS
  <1>1. /\ UNCHANGED <<file, fences, task, disputed, cache, loaded, writer, query>>
        /\ imports # <<>> /\ imports' = Tail(imports)
        /\ native' = [native EXCEPT ![Head(imports)[1]] = Head(imports)[2]]
    BY DEF RecorderRuns, journal, manager
  <1>2. imports \in Seq(Cell \X Nat) /\ native \in [Cell -> Nat \cup {Foreign}]
    BY DEF Inv, TypeOK
  <1>3. Head(imports) \in Cell \X Nat /\ imports' \in Seq(Cell \X Nat)
    BY <1>1, <1>2
  <1>4. native' \in [Cell -> Nat \cup {Foreign}]
    BY <1>1, <1>2, <1>3
  <1>5. \A r : NativeOf(r) => NativeOf(r)'
    BY NativeRuns DEF Inv
  <1> QED BY <1>1, <1>3, <1>4, <1>5, WorldMoves

LEMMA ForeignEditInv == \A c \in Cell : Inv /\ ForeignEdit(c) => Inv'
  <1> SUFFICES ASSUME NEW c \in Cell, Inv, ForeignEdit(c)
               PROVE  Inv'
    OBVIOUS
  <1>1. /\ UNCHANGED <<file, fences, task, disputed, cache, loaded, writer, query>>
        /\ imports' = imports /\ native' = [native EXCEPT ![c] = Foreign]
    BY DEF ForeignEdit, journal, manager
  <1>2. native' \in [Cell -> Nat \cup {Foreign}] /\ imports' \in Seq(Cell \X Nat)
    BY <1>1 DEF Inv, TypeOK
  <1>3. \A r : NativeOf(r) => NativeOf(r)'
    BY NativeEdited DEF Inv
  <1> QED BY <1>1, <1>2, <1>3, WorldMoves

LEMMA ReloadInv == Inv /\ Reload => Inv'
  <1> SUFFICES ASSUME Inv, Reload PROVE Inv'
    OBVIOUS
  <1>1. /\ UNCHANGED <<file, fences, native, imports, task, disputed>>
        /\ cache' = None /\ loaded' = FALSE /\ writer' = NoWriter /\ query' = NoQuery
    BY DEF Reload, journal, world
  <1>2. SoundRoot(file)' /\ Guarded' /\ TaskOK'
    BY <1>1, JournalKept
  <1>3. TypeOK'
    <2>1. query' = [pc |-> query'.pc, stage |-> query'.stage, root |-> query'.root,
                    first |-> query'.first, kept |-> query'.kept, native |-> query'.native]
          /\ query'.stage \in 0..2
      BY <1>1 DEF NoQuery
    <2> QED BY <1>1, <2>1 DEF Inv, TypeOK, Writer, NoWriter
  <1>4. WriterOK' /\ QueryOK'
    BY <1>1 DEF WriterOK, QueryOK, Waits, NoWriter, NoQuery
  <1> QED BY <1>2, <1>3, <1>4 DEF Inv

LEMMA CrashInv == Inv /\ Crash => Inv'
  <1> SUFFICES ASSUME Inv, Crash PROVE Inv'
    OBVIOUS
  <1>1. /\ UNCHANGED <<file, fences, native>> /\ imports' = <<>> /\ task' = NoTask
        /\ cache' = None /\ loaded' = FALSE /\ writer' = NoWriter /\ query' = NoQuery
        /\ \A c \in disputed' : c \in file.held \/ file.token \in fences
    BY DEF Crash
  <1>2. TypeOK'
    <2>1. query' = [pc |-> query'.pc, stage |-> query'.stage, root |-> query'.root,
                    first |-> query'.first, kept |-> query'.kept, native |-> query'.native]
          /\ query'.stage \in 0..2
      BY <1>1 DEF NoQuery
    <2>2. task' \in Task /\ writer' \in Writer /\ imports' \in Seq(Cell \X Nat)
      BY <1>1 DEF Writer, NoWriter, Task, NoTask
    <2> QED BY <1>1, <2>1, <2>2 DEF Inv, TypeOK
  <1>3. SoundRoot(file)'
    BY <1>1 DEF Inv, SoundRoot, Lags, NativeOf
  <1>4. Guarded' /\ TaskOK'
    BY <1>1 DEF Guarded, TaskOK, NoTask
  <1>5. WriterOK' /\ QueryOK'
    BY <1>1 DEF WriterOK, QueryOK, Waits, NoWriter, NoQuery
  <1> QED BY <1>2, <1>3, <1>4, <1>5 DEF Inv

(***************************************************************************)
(* The invariant                                                           *)
(***************************************************************************)
LEMMA InitInv == Init => Inv
  <1> SUFFICES ASSUME Init PROVE Inv
    OBVIOUS
  <1>1. /\ file = FirstRoot /\ fences = {} /\ imports = <<>> /\ task = NoTask
        /\ native = [c \in Cell |-> 0] /\ cache = FirstRoot /\ loaded = TRUE
        /\ writer = NoWriter /\ query = NoQuery /\ disputed = {}
    BY DEF Init
  <1>2. /\ FirstRoot \in Root /\ FirstRoot.op = 0 /\ FirstRoot.left = {}
        /\ \A c \in Cell : FirstRoot.proof[c] = 0
    BY DEF FirstRoot, Root
  <1> HIDE DEF FirstRoot
  <1>3. TypeOK
    <2>1. query = [pc |-> query.pc, stage |-> query.stage, root |-> query.root,
                   first |-> query.first, kept |-> query.kept, native |-> query.native]
          /\ query.stage \in 0..2
      BY <1>1 DEF NoQuery
    <2>2. task \in Task /\ writer \in Writer /\ imports \in Seq(Cell \X Nat)
      BY <1>1 DEF Writer, NoWriter, Task, NoTask
    <2>3. native \in [Cell -> Nat \cup {Foreign}]
      BY <1>1
    <2> QED BY <1>1, <1>2, <2>1, <2>2, <2>3 DEF TypeOK
  <1>4. SoundRoot(file)
    BY <1>1, <1>2 DEF SoundRoot, Lags, NativeOf
  <1>5. Guarded /\ TaskOK
    BY <1>1 DEF Guarded, TaskOK, NoTask
  <1>6. WriterOK /\ QueryOK
    BY <1>1 DEF WriterOK, QueryOK, Waits, NoWriter, NoQuery, NoTask, SavePending
  <1> QED BY <1>3, <1>4, <1>5, <1>6 DEF Inv

LEMMA NextInv == Inv /\ [Next]_vars => Inv'
  <1> SUFFICES ASSUME Inv, [Next]_vars PROVE Inv'
    OBVIOUS
  <1>1. CASE WriterStep
    BY <1>1, BeginAcceptInv, SaveAcceptedInv, BeginAdvanceInv, SubmitInv, PublishInv,
       ReadbackFailsInv, BeginHoldInv, SaveHeldInv, SavedInv, SaveFailedInv, CancelInv
       DEF WriterStep
  <1>2. CASE QueryStep
    BY <1>2, QueryLoadsInv, QueryAsksInv, QueryRootedInv, QueryReadsInv DEF QueryStep
  <1>3. CASE TaskLands \/ TaskDone \/ TaskFails
    BY <1>3, TaskLandsInv, TaskEndsInv
  <1>4. CASE \/ RecorderRuns \/ (\E c \in Cell : ForeignEdit(c)) \/ Reload \/ Crash
    BY <1>4, RecorderRunsInv, ForeignEditInv, ReloadInv, CrashInv
  <1>5. CASE FlushMarker \/ UNCHANGED vars
    <2>1. UNCHANGED <<file, fences, native, imports, task, disputed, cache, loaded,
                      writer, query>>
      BY <1>5 DEF FlushMarker, vars, journal, world, manager
    <2>2. QueryOK'
      BY <2>1 DEF Inv, QueryOK, FenceTaskSound, SavePending
    <2>3. /\ query' = [pc |-> query'.pc, stage |-> query'.stage, root |-> query'.root,
                       first |-> query'.first, kept |-> query'.kept, native |-> query'.native]
          /\ query'.stage \in 0..2
      BY <2>1 DEF Inv, TypeOK
    <2> QED BY <2>1, <2>2, <2>3, QueryKeeps
  <1> QED BY <1>1, <1>2, <1>3, <1>4, <1>5 DEF Next

\* In every reachable state a disputed cell is held or fenced, Recorder is
\* what the durable root says of it, the writer and its task agree with the
\* journal, and a query that saw no object replaced knows the durable root.
THEOREM InvHolds == Spec => []Inv
  BY InitInv, NextInv, PTL DEF Spec

(***************************************************************************)
(* What a query answers                                                    *)
(***************************************************************************)
LEMMA AnswersRooted ==
  ASSUME TypeOK, [Next]_vars, Answers
  PROVE  QueryRooted
  <1>1. query'.pc = "answered" /\ query.pc # "answered"
    BY DEF Answers
  <1>2. \A objects : ~Replace(objects)
    BY <1>1, Replaced
  <1>3. UNCHANGED query => FALSE
    BY <1>1
  <1>4. CASE WriterStep
    BY <1>2, <1>3, <1>4 DEF WriterStep, BeginAccept, SaveAccepted, BeginAdvance, Submit, Publish,
       ReadbackFails, BeginHold, SaveHeld, Saved, SaveFailed, Cancel, SaveRoot
  <1>5. CASE QueryStep
    <2>1. CASE QueryLoads
      <3>1. query'.pc = "loaded"
        BY <2>1 DEF QueryLoads, NoQuery, TypeOK
      <3> QED BY <1>1, <3>1
    <2>2. CASE QueryAsks
      <3>1. \/ query' = NoQuery
            \/ query' = [query EXCEPT !.pc = "asked", !.kept = @ \union {"task"}]
        BY <2>2 DEF QueryAsks, QueryFails
      <3>2. query'.pc = "idle" \/ query'.pc = "asked"
        <4>1. query' = NoQuery => query'.pc = "idle"
          BY DEF NoQuery
        <4>2. query' = [query EXCEPT !.pc = "asked", !.kept = @ \union {"task"}]
                => query'.pc = "asked"
          BY DEF TypeOK
        <4> QED BY <3>1, <4>1, <4>2
      <3> QED BY <1>1, <3>2
    <2>3. CASE QueryReads
      <3>1. query'.pc = "reading" \/ query'.pc = "check"
        BY <2>3 DEF QueryReads, TypeOK
      <3> QED BY <1>1, <3>1
    <2> QED BY <1>5, <2>1, <2>2, <2>3 DEF QueryStep
  <1>6. CASE Reload \/ Crash
    BY <1>1, <1>6 DEF Reload, Crash, NoQuery
  <1>7. CASE \/ TaskLands \/ TaskDone \/ TaskFails \/ FlushMarker \/ UNCHANGED vars
             \/ RecorderRuns \/ \E c \in Cell : ForeignEdit(c)
    BY <1>3, <1>7 DEF TaskLands, TaskDone, TaskFails, FlushMarker, RecorderRuns, ForeignEdit, vars
  <1> QED BY <1>4, <1>5, <1>6, <1>7 DEF Next

\* As a query answers, the root it read first is the durable one, neither
\* fenced nor about to be replaced, and nothing else moves.
LEMMA AnswersCurrent ==
  ASSUME Inv, [Next]_vars, Answers
  PROVE  /\ UNCHANGED <<file, fences, native, imports, task, disputed>>
         /\ query'.first = file /\ query'.native = query.native
         /\ file.token \notin fences /\ ~SavePending /\ FenceTaskSound(file)
  <1>1. QueryRooted /\ TypeOK
    BY AnswersRooted DEF Inv
  <1>2. /\ query.pc = "asked" /\ RootAdmitted /\ Checked
        /\ query'.first = query.first /\ query'.native = query.native
    BY <1>1, RootedSteps DEF Answers
  <1>3. "task" \in query.kept /\ "cache" \in query.kept /\ query.root = query.first
    BY <1>2 DEF RootAdmitted, Checked
  <1>4. /\ query.root = file /\ query.root.token \notin fences /\ ~SavePending
        /\ FenceTaskSound(query.root)
    BY <1>2, <1>3 DEF Inv, QueryOK
  <1> QED BY <1>1, <1>2, <1>3, <1>4 DEF QueryRooted, journal, world

\* However a query's reads of the file, of Recorder and of the invalidation
\* record interleave with the writer, it answers from one root only, which is
\* durable, not invalidated and not about to be replaced as it answers.
THEOREM ServedIsCurrentHolds == Spec => ServedIsCurrent
  <1>1. Inv /\ [Next]_vars =>
          [Answers => /\ query'.first = file /\ file.token \notin fences
                      /\ ~SavePending]_vars
    BY AnswersCurrent
  <1> QED BY <1>1, InvHolds, PTL DEF ServedIsCurrent, Spec

\* No query calls an hour ready whose source conflict was found and has not
\* been resolved by a new proof, whatever failed, was cancelled, reloaded or
\* crashed since.
THEOREM DisputedNotServedHolds == Spec => DisputedNotServed
  <1>1. ASSUME Inv, [Next]_vars, Answers
        PROVE  ServedCells \intersect disputed = {}
    <2>1. /\ query'.first = file /\ file.token \notin fences
          /\ ~SavePending /\ FenceTaskSound(file)
      BY <1>1, AnswersCurrent
    <2>2. HoldsDisputed(file)
      BY <1>1, <2>1 DEF Inv, Guarded, HoldsDisputed, FenceTaskSound, SavePending, TypeOK, Task
    <2> QED BY <2>1, <2>2 DEF ServedCells, Ready, HoldsDisputed
  <1>2. Inv /\ [Next]_vars => [Answers => ServedCells \intersect disputed = {}]_vars
    BY <1>1
  <1> QED BY <1>2, InvHolds, PTL DEF DisputedNotServed, Spec

\* An hour that a query calls ready holds, as it answers, the rows that the
\* last verified operation put into Recorder, or somebody else's edit of
\* them, and no accepted operation is about to replace them.
THEOREM ReadyIsNativeHolds == Spec => ReadyIsNative
  <1>1. ASSUME Inv, [Next]_vars, Answers, NEW c \in ServedCells
        PROVE  native[c] \in {file.proof[c], Foreign} /\ c \notin file.left
    <2>1. query'.first = file
      BY <1>1, AnswersCurrent
    <2>2. c \in Cell /\ c \notin file.left
      BY <1>1, <2>1 DEF ServedCells, Ready
    <2> QED BY <1>1, <2>2 DEF Inv, SoundRoot, NativeOf
  <1>2. Inv /\ [Next]_vars =>
          [Answers => \A c \in ServedCells :
             /\ native[c] \in {file.proof[c], Foreign}
             /\ c \notin file.left]_vars
    BY <1>1
  <1> QED BY <1>2, InvHolds, PTL DEF ReadyIsNative, Spec
=============================================================================
