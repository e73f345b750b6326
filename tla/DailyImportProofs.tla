------------------------- MODULE DailyImportProofs -------------------------
(***************************************************************************)
(* What the awaits of an import pass may rely on, for any number of        *)
(* statistics, days, attempts and outside changes: Recorder's answer to    *)
(* the marker means that nothing is queued until the pass writes, so its   *)
(* seeds stay what Recorder holds, and what it writes is its own and       *)
(* stands in the zone of the moment.  From it follows the second half: as  *)
(* long as that zone is the first one, what a pass writes joins on what    *)
(* was imported, so that the totals of Recorder add up and start with the  *)
(* history.                                                                *)
(***************************************************************************)
EXTENDS DailyImport, WellFoundedInduction, FiniteSetTheorems, FunctionTheorems, SequenceTheorems, TLAPS

(***************************************************************************)
(* Sets of naturals: least and greatest elements, and induction in a       *)
(* first-order form, in which the set of numbers for which a fact holds is *)
(* all of Nat.                                                             *)
(***************************************************************************)
\* Every nonempty set of naturals has a least element.
LEMMA NatSetMinimum ==
  ASSUME NEW S \in SUBSET Nat, S # {}
  PROVE  \E x \in S : \A y \in S : x <= y
  <1> DEFINE Less == OpToRel(<, Nat)
  <1>1. \A x, y \in Nat : y < x => <<y, x>> \in Less
    BY DEF OpToRel
  <1>2. IsWellFoundedOn(Less, Nat)
    BY NatLessThanWellFounded
  <1> HIDE DEF Less
  <1>3. PICK x \in S : \A y \in S : <<y, x>> \notin Less
    BY <1>2, WFMin
  <1>4. \A y \in S : ~(y < x)
    BY <1>1, <1>3
  <1> QED BY <1>4

\* A nonempty bounded set of naturals has a greatest element.
LEMMA NatSetMaximum ==
  ASSUME NEW S \in SUBSET Nat, S # {}, NEW n \in Nat, \A x \in S : x <= n
  PROVE  \E x \in S : \A y \in S : y <= x
  <1> DEFINE T == {n - x : x \in S}
  <1>1. T \in SUBSET Nat /\ T # {}
    <2>1. \A x \in S : n - x \in Nat
      OBVIOUS
    <2>2. \E x \in S : n - x \in T
      OBVIOUS
    <2> QED BY <2>1, <2>2
  <1>2. PICK t \in T : \A u \in T : t <= u
    BY <1>1, NatSetMinimum
  <1>3. PICK x \in S : t = n - x
    BY <1>2
  <1>4. \A y \in S : n - x <= n - y
    BY <1>2, <1>3
  <1> QED BY <1>4

\* A set that holds 0, and with each number the next, holds every number.
LEMMA NatSetInduction ==
  ASSUME NEW S \in SUBSET Nat, 0 \in S, \A n \in S : n + 1 \in S
  PROVE  S = Nat
  <1> SUFFICES ASSUME Nat \ S # {} PROVE FALSE
    OBVIOUS
  <1>1. PICK x \in Nat \ S : \A y \in Nat \ S : x <= y
    BY NatSetMinimum
  <1>2. x # 0 /\ x - 1 \in Nat /\ x - 1 < x
    BY <1>1
  <1>3. x - 1 \in S /\ (x - 1) + 1 \in S
    BY <1>1, <1>2
  <1> QED BY <1>1, <1>2, <1>3

(***************************************************************************)
(* Days and instants                                                       *)
(***************************************************************************)
\* Midnights are instants, in the order of their days and a day apart.
LEMMA MidnightOrder ==
  ASSUME NEW z \in Int, NEW c \in Int, NEW d \in Int
  PROVE  /\ Midnight(d, z) \in Int
         /\ c < d <=> Midnight(c, z) < Midnight(d, z)
         /\ c = d <=> Midnight(c, z) = Midnight(d, z)
  <1>1. /\ DayLength \in Int /\ DayLength > 0
        /\ DayLength * c \in Int /\ DayLength * d \in Int
    BY ZonesAssumption
  <1>2. ASSUME NEW a \in Int, NEW b \in Int, a < b
        PROVE  DayLength * a < DayLength * b
    <2>1. b - a \in Nat /\ b - a > 0
      BY <1>2
    <2>2. DayLength * (b - a) \in Int /\ DayLength * (b - a) > 0
      BY <1>1, <2>1
    <2>3. DayLength * b = DayLength * a + DayLength * (b - a)
      BY <1>1
    <2>4. DayLength * a \in Int /\ DayLength * b \in Int
      BY <1>1
    <2> QED BY <2>2, <2>3, <2>4
  <1>3. /\ c < d => DayLength * c < DayLength * d
        /\ d < c => DayLength * d < DayLength * c
    BY <1>2
  <1>4. c < d \/ c = d \/ d < c
    OBVIOUS
  <1> QED BY <1>1, <1>3, <1>4 DEF Midnight

\* The local day of a day's midnight is that day.
LEMMA DayOfMidnight ==
  ASSUME NEW z \in Int, NEW d \in Int
  PROVE  DayOf(Midnight(d, z), z) = d
  <1>1. DayLength \in Nat \ {0} /\ DayLength * d \in Int
    BY ZonesAssumption
  <1>2. (DayLength * d) \div DayLength = d
    BY <1>1
  <1>3. Midnight(d, z) - z = DayLength * d
    BY <1>1 DEF Midnight
  <1> QED BY <1>2, <1>3 DEF DayOf

\* Awaits at which Recorder is known to owe nothing.
Quiet == {"latest", "seeds", "window", "full", "points", "compare"}

IsTaskSequence == queue \in Seq({queue[i] : i \in DOMAIN queue})

IsPlan ==
  plan = [revision |-> plan.revision, zone |-> plan.zone, existing |-> plan.existing,
          ids |-> plan.ids, first |-> plan.first, last |-> plan.last, seeds |-> plan.seeds,
          rows |-> plan.rows, owned |-> plan.owned]

\* The marker of the pass is the last task until Recorder has answered it.
MarkerLast ==
  pc = "fence" => /\ queue # <<>> => queue[Len(queue)].id = Marker
                  /\ plan.seeds = NoSeeds

NothingSeeded == pc = "latest" => plan.seeds = NoSeeds

\* Adoption needs the entry lock, so it cannot undo the last partition.
OwnedByDaily == pc = "compare" => plan.owned \cap adopted = {}

KnownIds == cfg \subseteq Ids /\ allowed \subseteq Ids /\ plan.owned \subseteq Ids

\* A revision that has not moved since it was captured is that of the same zone.
ZoneKnown ==
  /\ zone \in Zones /\ revision \in Nat
  /\ pc \in Quiet \union {"fence"} =>
       /\ plan.zone \in Zones /\ plan.revision \in 0..revision
       /\ plan.revision = revision => plan.zone = zone

Inv ==
  /\ KnownIds
  /\ ZoneKnown
  /\ IsTaskSequence
  /\ IsPlan
  /\ MarkerLast
  /\ NothingSeeded
  /\ SeedsCurrent
  /\ OwnedByDaily

LEMMA SequenceOfItself ==
  ASSUME NEW S, NEW q \in Seq(S)
  PROVE  q \in Seq({q[i] : i \in DOMAIN q})
  OBVIOUS

\* Appending keeps a sequence a sequence.
LEMMA AppendIsSequence ==
  ASSUME NEW q, q \in Seq({q[i] : i \in DOMAIN q}), NEW e
  PROVE  LET r == Append(q, e)
         IN  /\ r \in Seq({r[i] : i \in DOMAIN r})
             /\ r # <<>>
             /\ r[Len(r)] = e
             /\ Len(r) = Len(q) + 1
  <1> DEFINE S == {q[i] : i \in DOMAIN q} \union {e}
  <1>1. q \in Seq(S) /\ e \in S
    OBVIOUS
  <1> QED
    BY <1>1, AppendProperties, SequenceOfItself

LEMMA TailIsSequence ==
  ASSUME NEW q, q \in Seq({q[i] : i \in DOMAIN q}), q # <<>>
  PROVE  LET r == Tail(q)
         IN  /\ r \in Seq({r[i] : i \in DOMAIN r})
             /\ r # <<>> => r[Len(r)] = q[Len(q)]
             /\ Len(r) < Len(q)
  <1> DEFINE S == {q[i] : i \in DOMAIN q}
             r == Tail(q)
  <1>1. q \in Seq(S)
    OBVIOUS
  <1>2. r \in Seq(S) /\ Len(r) = Len(q) - 1
    BY <1>1, HeadTailProperties
  <1>3. r \in Seq({r[i] : i \in DOMAIN r})
    BY <1>2, SequenceOfItself
  <1>4. ASSUME r # <<>>
        PROVE  r[Len(r)] = q[Len(q)]
    <2>1. Len(r) \in Nat \ {0}
      BY <1>2, <1>4, EmptySeq
    <2> QED
      BY <1>1, <1>2, <2>1, HeadTailProperties
  <1>5. Len(r) < Len(q)
    BY <1>1, <1>2
  <1> QED
    BY <1>3, <1>4, <1>5

\* SetToSeq lists a finite set.
LEMMA SetToSeqLists ==
  ASSUME NEW S, IsFiniteSet(S)
  PROVE  SetToSeq(S) \in Seq(S) /\ IsInjective(SetToSeq(S))
  <1>1. Cardinality(S) \in Nat /\ Bijection(1..Cardinality(S), S) # {}
    BY FS_CardinalityType DEF ExistsBijection
  <1>2. PICK f \in [1..Cardinality(S) -> S] : IsInjective(f)
    BY <1>1 DEF Bijection, Injection
  <1>3. SetToSeq(S) \in [1..Cardinality(S) -> S] /\ IsInjective(SetToSeq(S))
    BY <1>2 DEF SetToSeq
  <1> QED
    BY <1>1, <1>3

\* A surjection hands finiteness on.
LEMMA ImageIsFinite ==
  ASSUME NEW S, IsFiniteSet(S), NEW T, NEW g \in Surjection(S, T)
  PROVE  IsFiniteSet(T)
  <1>1. PICK n \in Nat : ExistsSurjection(1..n, S)
    BY FS_NatSurjection
  <1>2. PICK f \in Surjection(1..n, S) : TRUE
    BY <1>1 DEF ExistsSurjection
  <1>3. [i \in 1..n |-> g[f[i]]] \in Surjection(1..n, T)
    BY <1>2, Fun_SurjTransitive
  <1> QED
    BY <1>3, FS_NatSurjection DEF ExistsSurjection

\* A batch lists imports of the daily writer's own, configured series.
LEMMA BatchIsOwned ==
  ASSUME KnownIds
  PROVE  /\ Batch \in Seq({Batch[i] : i \in DOMAIN Batch})
         /\ \A i \in 1..Len(Batch) :
              /\ Batch[i].id \in allowed \cap config
              /\ Batch[i].id \in Built(plan.rows) /\ Batch[i].rows = Rows(Batch[i].id)
              /\ DOMAIN Batch[i].rows # {}
              /\ \A j \in 1..Len(Batch) : Batch[j].id = Batch[i].id => j = i
  <1> DEFINE ids == {id \in Built(plan.rows) \cap job.only : DOMAIN Rows(id) # {}}
             T == {[id |-> id, rows |-> Rows(id)] : id \in ids}
             g == [id \in ids |-> [id |-> id, rows |-> Rows(id)]]
  <1>1. ids \subseteq allowed \cap config
    BY DEF Built, Cumulative
  <1>2. \A e \in T :
          /\ e.id \in allowed \cap config /\ e.id \in Built(plan.rows)
          /\ e = [id |-> e.id, rows |-> Rows(e.id)] /\ DOMAIN e.rows # {}
    BY <1>1
  <1>3. IsFiniteSet(ids)
    BY <1>1, FiniteAssumption, FS_Subset DEF KnownIds
  <1>4. g \in Surjection(ids, T)
    BY DEF Surjection
  <1>5. IsFiniteSet(T)
    BY <1>3, <1>4, ImageIsFinite
  <1>6. Batch = SetToSeq(T)
    BY DEF Batch
  <1> HIDE DEF T
  <1>7. Batch \in Seq(T) /\ IsInjective(Batch)
    BY <1>5, <1>6, SetToSeqLists
  <1>8. \A i \in 1..Len(Batch) : Batch[i] \in T
    BY <1>7
  <1>9. Batch \in Seq({Batch[i] : i \in DOMAIN Batch})
    BY <1>7, SequenceOfItself
  <1>10. \A i, j \in 1..Len(Batch) : Batch[i].id = Batch[j].id => i = j
    <2>1. DOMAIN Batch = 1..Len(Batch)
      BY <1>7
    <2>2. \A i, j \in 1..Len(Batch) : Batch[i] = Batch[j] => i = j
      BY <1>7, <2>1 DEF IsInjective
    <2> QED BY <1>2, <1>8, <2>2
  <1>11. \A i \in 1..Len(Batch) :
           /\ Batch[i].id \in allowed \cap config /\ Batch[i].id \in Built(plan.rows)
           /\ Batch[i].rows = Rows(Batch[i].id) /\ DOMAIN Batch[i].rows # {}
    BY <1>2, <1>8
  <1> QED
    BY <1>9, <1>10, <1>11

\* Rows stand at the midnights of their days in the zone of the pass.
LEMMA RowsStand ==
  ASSUME plan.zone \in Int, NEW id, NEW t \in DOMAIN Rows(id)
  PROVE  t = Midnight(Rows(id)[t].day, plan.zone)
  <1> DEFINE days == Max({plan.first, job.from})..plan.last
  <1>1. t \in {Midnight(d, plan.zone) : d \in days} /\ Rows(id)[t].day = DayOf(t, plan.zone)
    BY DEF Rows, RowsOf
  <1>2. PICK d \in days : t = Midnight(d, plan.zone)
    BY <1>1
  <1>3. d \in Int
    OBVIOUS
  <1> QED BY <1>1, <1>2, <1>3, DayOfMidnight

(***************************************************************************)
(* Three ways for a step to leave the invariant alone                      *)
(***************************************************************************)
LEMMA EndedPass ==
  ASSUME Inv, EndPass, UNCHANGED <<cfg, zone, revision>>,
         queue' \in Seq({queue'[i] : i \in DOMAIN queue'})
  PROVE  Inv'
  BY DEF Inv, EndPass, IsTaskSequence, IsPlan, MarkerLast, NothingSeeded, SeedsCurrent,
         OwnedByDaily, KnownIds, ZoneKnown, Quiet, NoPlan

\* The day before the window stays what it is while Recorder does.
LEMMA SeedsKept ==
  ASSUME db' = db, plan'.first = plan.first, plan'.zone = plan.zone
  PROVE  \A id : /\ SeedRows(id)' = SeedRows(id)
                 /\ LastTotal(id, SeedRows(id))' = LastTotal(id, SeedRows(id))
  BY DEF SeedRows, RowsBetween, LastTotal

LEMMA Undisturbed ==
  ASSUME Inv, UNCHANGED <<pc, pass, queue, db>>, cfg' \subseteq Ids,
         adopted' = adopted \/ pc = "idle",
         UNCHANGED <<zone, revision>> \/ (zone' \in Zones /\ revision' = revision + 1)
  PROVE  Inv'
  BY SeedsKept DEF Inv, pass, IsTaskSequence, IsPlan, MarkerLast, NothingSeeded, SeedsCurrent,
         OwnedByDaily, KnownIds, ZoneKnown, Quiet

\* Between Recorder's answer and the comparison a step keeps the seeds, or gives
\* them up, for the same window.
LEMMA Prepares ==
  ASSUME Inv, pc \in {"latest", "window", "full", "points"},
         pc' \in {"seeds", "window", "full", "points"},
         UNCHANGED <<queue, db, cfg, allowed, adopted, zone, revision>>,
         \/ plan' = NoPlanYet
         \/ /\ IsPlan'
            /\ plan'.revision = plan.revision /\ plan'.zone = plan.zone
            /\ plan'.owned = plan.owned
            /\ plan'.seeds = plan.seeds
            /\ pc = "latest" \/ plan'.first = plan.first
  PROVE  Inv'
  <1>1. /\ IsPlan' /\ plan'.owned \subseteq Ids
        /\ plan'.revision = plan.revision /\ plan'.zone = plan.zone
    BY DEF Inv, IsPlan, KnownIds, NoPlanYet, NoPlan
  <1>2. queue = <<>> /\ queue' = <<>>
    BY DEF Inv, SeedsCurrent
  <1>3. ASSUME plan'.seeds = NoSeeds
        PROVE  SeedsCurrent'
    <2>1. DOMAIN plan'.seeds = {}
      BY <1>3 DEF NoSeeds
    <2> QED
      BY <1>2, <2>1 DEF SeedsCurrent
  <1>4. ASSUME plan'.seeds = plan.seeds, plan'.first = plan.first
        PROVE  SeedsCurrent'
    <2>1. db' = db
      OBVIOUS
    <2>2. \A id \in DOMAIN plan.seeds :
            SeedRows(id) # {} /\ plan.seeds[id] = LastTotal(id, SeedRows(id))
      BY DEF Inv, SeedsCurrent
    <2> QED
      BY <1>1, <1>2, <1>4, <2>1, <2>2, SeedsKept DEF SeedsCurrent
  <1>5. SeedsCurrent'
    BY <1>3, <1>4 DEF Inv, NothingSeeded, NoPlanYet, NoPlan
  <1> QED
    BY <1>1, <1>5 DEF Inv, IsTaskSequence, MarkerLast, NothingSeeded, OwnedByDaily, KnownIds, ZoneKnown, Quiet

(***************************************************************************)
(* The steps                                                               *)
(***************************************************************************)
LEMMA InvInit == Init => Inv
  BY IdsAssumption, EmptySeq DEF Init, Inv, IsTaskSequence, IsPlan, MarkerLast, NothingSeeded,
     SeedsCurrent, OwnedByDaily, KnownIds, ZoneKnown, Quiet, NoPlan

LEMMA InvBegin == Inv /\ Begin => Inv'
  BY DEF Begin, Inv, IsTaskSequence, IsPlan, MarkerLast, NothingSeeded, SeedsCurrent,
     OwnedByDaily, KnownIds, ZoneKnown, Quiet, world, context

LEMMA InvBeginRebuild ==
  ASSUME NEW from, NEW only, Inv, BeginRebuild(from, only)
  PROVE  Inv'
  BY DEF BeginRebuild, Inv, IsTaskSequence, IsPlan, MarkerLast, NothingSeeded, SeedsCurrent,
     OwnedByDaily, KnownIds, ZoneKnown, Quiet, world, context

LEMMA InvRefresh ==
  ASSUME NEW full, NEW first, Inv, Refresh(full, first)
  PROVE  Inv'
  <1>1. CASE EndPass
    BY <1>1, EndedPass DEF Refresh, context, Inv, IsTaskSequence
  <1>2. CASE pc' = "partition" /\ UNCHANGED pass
    BY <1>2 DEF Refresh, Inv, IsTaskSequence, IsPlan, MarkerLast, NothingSeeded, SeedsCurrent,
       OwnedByDaily, KnownIds, ZoneKnown, Quiet, context, pass
  <1> QED
    BY <1>1, <1>2 DEF Refresh

LEMMA InvPartition == ASSUME Inv, Partition PROVE Inv'
  <1>1. CASE LegacyIds = {}
    BY <1>1, EndedPass DEF Partition, context, Inv, IsTaskSequence
  <1>2. CASE LegacyIds # {}
    <2>1. allowed' \subseteq Ids
      BY <1>2 DEF Partition, Inv, KnownIds, LegacyIds
    <2> QED
      BY <1>2, <2>1 DEF Partition, Inv, IsTaskSequence, IsPlan, MarkerLast, NothingSeeded,
         SeedsCurrent, OwnedByDaily, KnownIds, ZoneKnown, Quiet, context
  <1> QED
    BY <1>1, <1>2

LEMMA InvCapture == ASSUME Inv, Capture PROVE Inv'
  <1>1. /\ IsTaskSequence'
        /\ queue'[Len(queue')].id = Marker
    <2>1. queue' = Append(queue, [id |-> Marker, rows |-> <<>>])
      BY DEF Capture
    <2> QED
      BY <2>1, AppendIsSequence DEF Inv, IsTaskSequence
  <1>2. /\ IsPlan' /\ plan'.seeds = NoSeeds /\ plan'.owned = {}
        /\ plan'.revision = revision /\ plan'.zone = zone
    BY DEF Capture, IsPlan, NoPlan
  <1> QED
    BY <1>1, <1>2 DEF Capture, Inv, MarkerLast, NothingSeeded, SeedsCurrent, OwnedByDaily,
       KnownIds, ZoneKnown, Quiet, context

LEMMA InvInventory == ASSUME Inv, Inventory PROVE Inv'
  <1>1. queue = <<>>
    <2>1. SUFFICES ASSUME queue # <<>> PROVE FALSE
      OBVIOUS
    <2>2. Len(queue) \in 1..Len(queue)
      BY <2>1, EmptySeq DEF Inv, IsTaskSequence
    <2> QED
      BY <2>1, <2>2 DEF Inventory, Inv, MarkerLast, Fenced
  <1>2. /\ IsPlan' /\ plan'.seeds = NoSeeds /\ plan'.owned = plan.owned
        /\ plan'.revision = plan.revision /\ plan'.zone = plan.zone
    BY DEF Inventory, Inv, IsPlan, MarkerLast
  <1>3. SeedsCurrent'
    BY <1>1, <1>2 DEF Inventory, SeedsCurrent, NoSeeds
  <1>4. pc' \in {"latest", "full"}
    BY DEF Inventory
  <1> QED
    BY <1>2, <1>3, <1>4 DEF Inventory, Inv, IsTaskSequence, MarkerLast, NothingSeeded,
       OwnedByDaily, KnownIds, ZoneKnown, Quiet, context

LEMMA InvLatest == ASSUME Inv, Latest PROVE Inv'
  <1>1. CASE plan' = plan
    BY <1>1, SeedsKept DEF Latest, Inv, IsTaskSequence, IsPlan, MarkerLast, NothingSeeded, SeedsCurrent,
       OwnedByDaily, KnownIds, ZoneKnown, Quiet, context
  <1>2. CASE plan' = NoPlanYet
    BY <1>2, Prepares DEF Latest, context
  <1>3. CASE plan' = [plan EXCEPT !.first = WindowStart, !.last = runtime.last]
    <2>1. /\ IsPlan' /\ plan'.owned = plan.owned /\ plan'.seeds = plan.seeds
          /\ plan'.revision = plan.revision /\ plan'.zone = plan.zone
      BY <1>3 DEF Inv, IsPlan
    <2> QED
      BY <1>3, <2>1, Prepares DEF Latest, context
  <1> QED
    BY <1>1, <1>2, <1>3 DEF Latest

LEMMA InvSeeds == ASSUME Inv, Seeds PROVE Inv'
  <1>1. CASE plan' = NoPlanYet
    BY <1>1 DEF Seeds, Inv, IsTaskSequence, IsPlan, MarkerLast, NothingSeeded, SeedsCurrent,
       OwnedByDaily, KnownIds, ZoneKnown, Quiet, context, NoPlanYet, NoPlan, NoSeeds
  <1>2. CASE /\ \A id \in plan.ids : SeedRows(id) # {}
             /\ plan' = [plan EXCEPT !.seeds =
                           [id \in plan.ids |-> LastTotal(id, SeedRows(id))]]
             /\ pc' = "window"
    <2>1. /\ IsPlan'
          /\ plan'.revision = plan.revision /\ plan'.zone = plan.zone
          /\ plan'.first = plan.first
          /\ plan'.seeds = [id \in plan.ids |-> LastTotal(id, SeedRows(id))]
          /\ plan'.owned = plan.owned
      BY <1>2 DEF Inv, IsPlan
    <2>2. SeedsCurrent'
      BY <1>2, <2>1, SeedsKept DEF Seeds, Inv, SeedsCurrent
    <2> QED
      BY <1>2, <2>1, <2>2 DEF Seeds, Inv, IsTaskSequence, MarkerLast, NothingSeeded,
         OwnedByDaily, KnownIds, ZoneKnown, Quiet, context
  <1> QED
    BY <1>1, <1>2 DEF Seeds

LEMMA InvReadWindow == ASSUME Inv, ReadWindow \/ WindowFails PROVE Inv'
  <1>1. CASE plan' = NoPlanYet
    BY <1>1, Prepares DEF ReadWindow, WindowFails, context
  <1>2. ASSUME NEW rows, ReadWindow, plan' = [plan EXCEPT !.rows = rows]
        PROVE  Inv'
    <2>1. /\ IsPlan'
          /\ plan'.revision = plan.revision /\ plan'.zone = plan.zone
          /\ plan'.owned = plan.owned
          /\ plan'.seeds = plan.seeds
          /\ plan'.first = plan.first
      BY <1>2 DEF Inv, IsPlan
    <2> QED
      BY <1>2, <2>1, Prepares DEF ReadWindow, context
  <1> QED
    BY <1>1, <1>2 DEF ReadWindow, WindowFails

LEMMA InvReadFull == ASSUME Inv, ReadFull PROVE Inv'
  <1>1. PICK last, rows : plan' = [plan EXCEPT !.last = last, !.rows = rows]
    BY DEF ReadFull
  <1>2. /\ IsPlan'
        /\ plan'.revision = plan.revision /\ plan'.zone = plan.zone
        /\ plan'.owned = plan.owned
        /\ plan'.seeds = plan.seeds
        /\ plan'.first = plan.first
    BY <1>1 DEF Inv, IsPlan
  <1> QED
    BY <1>2, Prepares DEF ReadFull, context

LEMMA InvRecheck == ASSUME Inv, Recheck PROVE Inv'
  <1>1. /\ IsPlan' /\ plan'.first = plan.first /\ plan'.seeds = plan.seeds
        /\ plan'.owned = LegacyIds
        /\ plan'.revision = plan.revision /\ plan'.zone = plan.zone
    BY DEF Recheck, Inv, IsPlan
  <1>2. SeedsCurrent'
    BY <1>1, SeedsKept DEF Recheck, Inv, SeedsCurrent
  <1> QED
    BY <1>1, <1>2 DEF Recheck, Inv, IsTaskSequence, MarkerLast, NothingSeeded, OwnedByDaily,
       KnownIds, ZoneKnown, Quiet, LegacyIds, context

LEMMA InvWrite == ASSUME Inv, Write PROVE Inv'
  <1>1. queue = <<>>
    BY DEF Write, Inv, SeedsCurrent
  <1>2. queue' = Batch
    BY <1>1, BatchIsOwned, ConcatEmptySeq DEF Write, Inv
  <1>3. queue' \in Seq({queue'[i] : i \in DOMAIN queue'})
    BY <1>2, BatchIsOwned DEF Inv
  <1> QED
    BY <1>3, EndedPass DEF Write, context

LEMMA InvRetry == ASSUME Inv, Retry PROVE Inv'
  <1>1. CASE attempt < MaxAttempts
    BY <1>1 DEF Retry, Inv, IsTaskSequence, IsPlan, MarkerLast, NothingSeeded, SeedsCurrent,
       OwnedByDaily, KnownIds, ZoneKnown, Quiet, context, NoPlan
  <1>2. CASE ~(attempt < MaxAttempts)
    BY <1>2, EndedPass DEF Retry, context, Inv, IsTaskSequence
  <1> QED
    BY <1>1, <1>2

LEMMA InvAbort == ASSUME Inv, Abort PROVE Inv'
  BY EndedPass DEF Abort, context, Inv, IsTaskSequence

LEMMA InvCrash == ASSUME Inv, Crash PROVE Inv'
  <1>1. queue' \in Seq({queue'[i] : i \in DOMAIN queue'})
    BY EmptySeq DEF Crash
  <1> QED
    BY <1>1, EndedPass DEF Crash, context

\* Recorder only works while a pass is not relying on it.
LEMMA InvRecorderRuns == ASSUME Inv, RecorderRuns PROVE Inv'
  <1>1. pc \notin Quiet
    BY DEF RecorderRuns, Inv, SeedsCurrent, Quiet
  <1>2. /\ IsTaskSequence'
        /\ queue' # <<>> => queue'[Len(queue')] = queue[Len(queue)]
    BY TailIsSequence DEF RecorderRuns, Inv, IsTaskSequence
  <1> QED
    BY <1>1, <1>2 DEF RecorderRuns, Inv, IsPlan, MarkerLast, NothingSeeded, SeedsCurrent,
       OwnedByDaily, KnownIds, ZoneKnown, Quiet, Quiet, context, pass

LEMMA InvOthers ==
  ASSUME Inv,
         \/ \E full \in BOOLEAN, first \in 1..today : OtherRefresh(full, first)
         \/ \E new \in Configs : Reconfigure(new)
         \/ \E new \in Zones : MoveTimeZone(new)
         \/ \E id \in Ids : Adopt(id)
         \/ \E inc \in NewDays : NewDay(inc)
         \/ \E id \in Ids, d \in 1..today, v \in Values : Correct(id, d, v)
  PROVE  Inv'
  <1>1. /\ UNCHANGED <<pc, pass, queue, db>>
        /\ adopted' = adopted \/ pc = "idle"
        /\ UNCHANGED <<zone, revision>> \/ (zone' \in Zones /\ revision' = revision + 1)
    BY DEF OtherRefresh, Reconfigure, MoveTimeZone, Adopt, NewDay, Correct, context
  <1>2. cfg' \subseteq Ids
    BY IdsAssumption DEF OtherRefresh, Reconfigure, MoveTimeZone, Adopt, NewDay, Correct,
       context, Inv, KnownIds
  <1> QED
    BY <1>1, <1>2, Undisturbed

LEMMA InvStep == Inv /\ [Next]_vars => Inv'
  <1> SUFFICES ASSUME Inv, [Next]_vars PROVE Inv'
    OBVIOUS
  <1>1. CASE UNCHANGED vars
    <2>1. UNCHANGED <<pc, pass, queue, db, cfg, adopted, zone, revision>>
      BY <1>1 DEF vars, pass
    <2> QED
      BY <2>1, Undisturbed DEF Inv, KnownIds
  <1>2. CASE PassStep
    BY <1>2, InvRefresh, InvPartition, InvCapture, InvInventory, InvLatest, InvSeeds,
       InvReadWindow, InvReadFull, InvRecheck, InvWrite, InvRetry DEF PassStep
  <1>3. CASE Begin \/ WindowFails \/ Abort \/ RecorderRuns \/ Crash
    BY <1>3, InvBegin, InvReadWindow, InvAbort, InvRecorderRuns, InvCrash
  <1>4. ASSUME NEW from, NEW only, BeginRebuild(from, only)
        PROVE  Inv'
    BY <1>4, InvBeginRebuild
  <1> QED
    BY <1>1, <1>2, <1>3, <1>4, InvOthers DEF Next

\* What the awaits of a pass rely on holds at every one of them.
THEOREM PassInvariant == Spec => []Inv
  BY InvInit, InvStep, PTL DEF Spec

\* From the fence to the write Recorder owes nothing, and the seeds a pass adds
\* its window to are Recorder's (_async_existing_detailed_statistic_ids).
THEOREM SeedsStayCurrent == Spec => []SeedsCurrent
  <1>1. Inv => SeedsCurrent
    BY DEF Inv
  <1> QED
    BY <1>1, PassInvariant, PTL

\* A write belongs to the daily writer and was prepared for the settings of the
\* moment (_async_import_legacy), although everything it rests on was read
\* awaits ago.
THEOREM WritesAreOwned == Spec => WritesOwnedAndCurrent
  <1> DEFINE Owned ==
        \A i \in 1..Len(queue') :
          Len(queue') > Len(queue) /\ i > Len(queue) /\ queue'[i].id # Marker =>
            /\ queue'[i].id \in LegacyIds
            /\ plan.revision = revision
            /\ config = cfg
            /\ \A t \in DOMAIN queue'[i].rows :
                 t = Midnight(queue'[i].rows[t].day, zone)
  <1>1. ASSUME Inv, [Next]_vars
        PROVE  Owned
    <2>1. CASE queue' = queue
      BY <1>1, <2>1 DEF Inv, IsTaskSequence
    <2>2. CASE queue' = <<>>
      BY <2>2
    <2>3. CASE Capture
      <3>1. queue' = Append(queue, [id |-> Marker, rows |-> <<>>])
        BY <2>3 DEF Capture
      <3>2. Len(queue') = Len(queue) + 1 /\ queue'[Len(queue')].id = Marker
        BY <1>1, <3>1, AppendIsSequence DEF Inv, IsTaskSequence
      <3> QED
        BY <1>1, <3>2 DEF Inv, IsTaskSequence
    <2>4. CASE Write
      <3>1. queue = <<>>
        BY <1>1, <2>4 DEF Write, Inv, SeedsCurrent
      <3>2. queue' = Batch
        BY <1>1, <2>4, <3>1, BatchIsOwned, ConcatEmptySeq DEF Write, Inv
      <3>3. allowed \cap config \subseteq LegacyIds
        BY <1>1, <2>4 DEF Write, StillCurrent, Inv, OwnedByDaily, LegacyIds
      <3>4. plan.revision = revision /\ config = cfg /\ KnownIds
        BY <1>1, <2>4 DEF Write, StillCurrent, Inv
      <3>5. plan.zone = zone /\ plan.zone \in Int
        BY <1>1, <2>4, <3>4, ZonesAssumption DEF Write, Inv, ZoneKnown, Quiet
      <3>6. \A i \in 1..Len(Batch) : \A t \in DOMAIN Batch[i].rows :
              t = Midnight(Batch[i].rows[t].day, zone)
        BY <3>4, <3>5, BatchIsOwned, RowsStand
      <3> QED
        BY <3>2, <3>3, <3>4, <3>6, BatchIsOwned
    <2>5. CASE RecorderRuns
      BY <1>1, <2>5, TailIsSequence DEF RecorderRuns, Inv, IsTaskSequence
    <2> QED
      BY <1>1, <2>1, <2>2, <2>3, <2>4, <2>5
      DEF Next, PassStep, vars, Begin, BeginRebuild, Refresh, Partition, Inventory, Latest,
          Seeds, ReadWindow, WindowFails, ReadFull, Recheck, Retry, Abort, Crash, OtherRefresh,
          Reconfigure, MoveTimeZone, Adopt, NewDay, Correct
  <1> QED
    BY <1>1, PassInvariant, PTL DEF Spec, WritesOwnedAndCurrent

(***************************************************************************)
(* Totals: what is in Recorder and in its queue                            *)
(***************************************************************************)
Increments == [Ids -> [Day -> Nat]]

\* Rows of days up to n.
IsSeries(f, n) ==
  /\ f = [d \in DOMAIN f |-> f[d]] /\ DOMAIN f \subseteq 1..n
  /\ \A d \in DOMAIN f : f[d].cum \in Nat /\ f[d].inc \in Nat

AddsUp(f) ==
  \A d \in DOMAIN f : ~f[d].cut =>
     /\ d = 1 => f[d].cum = f[d].inc
     /\ d - 1 \in DOMAIN f => f[d].cum = f[d - 1].cum + f[d].inc

FromTheStart(f) == \A d \in DOMAIN f : d = 1 \/ d - 1 \in DOMAIN f \/ f[d].cut

\* Rows of successive days whose total goes on where f leaves off, starts with
\* the history, or is cut.
Joins(rows, f) ==
  \E a, l \in Day :
    /\ a <= l /\ DOMAIN rows = a..l
    /\ \A d \in DOMAIN f : d <= l
    /\ \A d \in (a + 1)..l : rows[d].cum = rows[d - 1].cum + rows[d].inc
    /\ \/ rows[a].cut
       \/ a = 1 /\ rows[1].cum = rows[1].inc
       \/ /\ a > 1 /\ a - 1 \in DOMAIN f
          /\ rows[a].cum = f[a - 1].cum + rows[a].inc

\* Rows that stand at midnights of a zone and nowhere else.
AtMidnights(f, z) ==
  f = [t \in DOMAIN f |-> f[t]] /\ \A t \in DOMAIN f : \E d \in Day : t = Midnight(d, z)

\* Nothing imported or queued is later than day n.
UpTo(n) ==
  /\ \A id \in Ids : \A d \in DOMAIN ByDay(db[id], zone) : d <= n
  /\ \A i \in DOMAIN queue : queue[i].id # Marker =>
       \A d \in DOMAIN ByDay(queue[i].rows, zone) : d <= n

\* Totals of successive days that add up and start with the history.
InOrder(f, n) == IsSeries(f, n) /\ AddsUp(f) /\ FromTheStart(f)

Books ==
  /\ today \in Day /\ source \in Increments /\ zone \in Int
  /\ DOMAIN db = Ids /\ db = [id \in Ids |-> db[id]]
  /\ \A id \in Ids : AtMidnights(db[id], zone) /\ InOrder(ByDay(db[id], zone), today)

QueueJoins ==
  \A i \in DOMAIN queue : queue[i].id # Marker =>
    /\ queue[i].id \in Ids
    /\ AtMidnights(queue[i].rows, zone)
    /\ IsSeries(ByDay(queue[i].rows, zone), today)
    /\ Joins(ByDay(queue[i].rows, zone), ByDay(db[queue[i].id], zone))
    /\ \A j \in DOMAIN queue : queue[j].id = queue[i].id => j = i

\* A snapshot of the provider that is no older than anything imported.
IsSnapshot(s) ==
  s.last \in 1..today /\ UpTo(s.last) /\ (s.full => s.rows \in Increments)

Snapshots ==
  /\ pc \notin {"idle", "refresh"} => IsSnapshot(data)
  /\ pc \notin {"idle", "refresh", "partition"} => IsSnapshot(runtime)

JobOK ==
  /\ job.from \in Nat \ {0} /\ (~job.force => job.from = 1)
  /\ job.force => pc \notin {"latest", "seeds", "window"}

\* A window is known to begin after a seed, or it is the whole history.
PlanOK ==
  /\ pc \in Quiet \union {"fence"} => plan.zone = zone
  /\ pc \in {"fence", "latest", "full"} =>
       plan.first = 1 /\ plan.last = 0 /\ plan.seeds = NoSeeds
  /\ pc \in {"latest", "seeds"} => plan.ids \subseteq Ids
  /\ pc \in {"seeds", "window"} =>
       plan.first \in Int /\ plan.last = runtime.last
  /\ pc = "seeds" => plan.seeds = NoSeeds /\ plan.ids # {}
  /\ pc = "window" => plan.first > 1 /\ DOMAIN plan.seeds \subseteq Ids
  /\ pc \in {"points", "compare"} =>
       \/ plan.first = 1 /\ plan.last = 0
       \/ /\ plan.rows \in Increments /\ plan.last \in 1..today /\ UpTo(plan.last)
          /\ \/ plan.first = 1 /\ plan.seeds = NoSeeds
             \/ /\ ~job.force /\ plan.first \in Nat /\ plan.first > 1
                /\ Built(plan.rows) \subseteq DOMAIN plan.seeds

TotalsInv == Books /\ QueueJoins /\ Snapshots /\ JobOK /\ PlanOK

\* Once the zone moves, rows of two zones stand side by side.
WhileUnmoved == revision = 0 => TotalsInv

(***************************************************************************)
(* Lemmas about series                                                     *)
(***************************************************************************)
\* The carried total is defined: it starts with the first increment and adds
\* each later one.
LEMMA TotalsCarried ==
  ASSUME NEW inc \in [Day -> Nat], NEW f \in Day, NEW l \in Day, f <= l
  PROVE  \A d \in f..l :
           /\ Totals(inc, f, l)[d] \in Nat
           /\ Totals(inc, f, l)[d] =
                (IF d = f THEN 0 ELSE Totals(inc, f, l)[d - 1]) + inc[d]
  <1> DEFINE IsTotal(s, m) == s = [d \in f..m |-> (IF d = f THEN 0 ELSE s[d - 1]) + inc[d]]
             Defined == {n \in Nat : \E s : IsTotal(s, f + n)}
  <1>1. f \in Nat /\ l \in Nat /\ l <= LastDay
    BY DaysAssumption DEF Day
  <1>2. 0 \in Defined
    <2>1. f..(f + 0) = {f}
      BY <1>1
    <2>2. IsTotal([d \in {f} |-> 0 + inc[d]], f + 0)
      BY <1>1, <2>1
    <2> QED BY <2>2
  <1>3. ASSUME NEW n \in Defined PROVE n + 1 \in Defined
    <2>1. PICK s : IsTotal(s, f + n)
      BY <1>3
    <2> DEFINE m == f + n
               t == [d \in f..(m + 1) |-> IF d = m + 1 THEN s[m] + inc[m + 1] ELSE s[d]]
    <2>2. m \in Nat /\ f <= m /\ n + 1 \in Nat /\ f + (n + 1) = m + 1
      BY <1>1
    <2>3. s = [d \in f..m |-> (IF d = f THEN 0 ELSE s[d - 1]) + inc[d]]
      BY <2>1
    <2> HIDE DEF m
    <2>4. /\ t = [d \in f..(m + 1) |-> t[d]]
          /\ \A d \in f..(m + 1) : t[d] = IF d = m + 1 THEN s[m] + inc[m + 1] ELSE s[d]
      OBVIOUS
    <2> HIDE DEF t
    <2>5. ASSUME NEW d \in f..(m + 1)
          PROVE  t[d] = (IF d = f THEN 0 ELSE t[d - 1]) + inc[d]
      <3>1. CASE d = m + 1
        <4>1. d # f /\ m \in f..(m + 1) /\ m # m + 1 /\ d - 1 = m
          BY <1>1, <2>2, <3>1
        <4> QED BY <2>4, <3>1, <4>1
      <3>2. CASE d # m + 1
        <4>1. d \in f..m /\ d - 1 # m + 1
          BY <1>1, <2>2, <3>2
        <4>2. t[d] = s[d] /\ (d # f => t[d - 1] = s[d - 1])
          BY <1>1, <2>2, <2>4, <3>2, <4>1
        <4> QED BY <2>3, <4>1, <4>2
      <3> QED BY <3>1, <3>2
    <2>6. t = [d \in f..(m + 1) |-> (IF d = f THEN 0 ELSE t[d - 1]) + inc[d]]
      BY <2>4, <2>5
    <2> QED BY <2>2, <2>6
  <1> HIDE DEF Defined
  <1>4. Defined = Nat
    <2>1. Defined \in SUBSET Nat
      BY DEF Defined
    <2> QED BY <1>2, <1>3, <2>1, NatSetInduction
  <1>5. \E s : IsTotal(s, l)
    <2>1. l - f \in Defined /\ f + (l - f) = l
      BY <1>1, <1>4
    <2> QED BY <2>1 DEF Defined
  <1> DEFINE t == Totals(inc, f, l)
  <1>6. t = [d \in f..l |-> (IF d = f THEN 0 ELSE t[d - 1]) + inc[d]]
    BY <1>5 DEF Totals
  <1> HIDE DEF t
  <1> DEFINE Natural == {n \in Nat : f + n <= l => t[f + n] \in Nat}
  <1>7. 0 \in Natural
    BY <1>1, <1>6 DEF Day
  <1>8. ASSUME NEW n \in Natural PROVE n + 1 \in Natural
    <2>1. SUFFICES ASSUME f + (n + 1) <= l PROVE t[f + (n + 1)] \in Nat
      BY <1>8
    <2>2. f + n <= l /\ t[f + n] \in Nat /\ f + (n + 1) \in f..l /\ f + (n + 1) \in Day
      <3>1. n \in Nat /\ (f + n <= l => t[f + n] \in Nat)
        BY <1>8 DEF Natural
      <3>2. f + n <= l /\ f + (n + 1) \in f..l
        BY <1>1, <2>1, <3>1
      <3>3. \A d \in f..l : d \in Day
        BY <1>1, DaysAssumption DEF Day
      <3> QED BY <3>1, <3>2, <3>3
    <2>3. t[f + (n + 1)] = t[f + n] + inc[f + (n + 1)]
      BY <1>1, <1>6, <2>2
    <2> QED BY <2>2, <2>3
  <1> HIDE DEF Natural
  <1>9. Natural = Nat
    <2>1. Natural \in SUBSET Nat
      BY DEF Natural
    <2> QED BY <1>7, <1>8, <2>1, NatSetInduction
  <1>10. ASSUME NEW d \in f..l PROVE t[d] \in Nat
    <2>1. d - f \in Natural /\ f + (d - f) = d /\ d <= l
      BY <1>1, <1>9
    <2> QED BY <2>1 DEF Natural
  <1>11. \A d \in f..l : t[d] \in Nat /\ t[d] = (IF d = f THEN 0 ELSE t[d - 1]) + inc[d]
    BY <1>6, <1>10
  <1> QED BY <1>11 DEF t

\* A task that joins on a series leaves one whose totals add up.
LEMMA MergeJoins ==
  ASSUME NEW n \in Nat, NEW f, InOrder(f, n),
         NEW rows, IsSeries(rows, n), Joins(rows, f)
  PROVE  InOrder(Merge(rows, f), n)
  <1> DEFINE g == Merge(rows, f)
  <1>1. PICK a \in Day, l \in Day :
          /\ a <= l /\ DOMAIN rows = a..l
          /\ \A d \in DOMAIN f : d <= l
          /\ \A d \in (a + 1)..l : rows[d].cum = rows[d - 1].cum + rows[d].inc
          /\ \/ rows[a].cut
             \/ a = 1 /\ rows[1].cum = rows[1].inc
             \/ /\ a > 1 /\ a - 1 \in DOMAIN f
                /\ rows[a].cum = f[a - 1].cum + rows[a].inc
    BY DEF Joins
  <1>2. a \in Nat /\ l \in Nat /\ 1 <= a
    BY DaysAssumption DEF Day
  <1>3. /\ DOMAIN g = DOMAIN rows \cup DOMAIN f /\ g = [d \in DOMAIN g |-> g[d]]
        /\ \A d \in DOMAIN g : g[d] = IF d \in a..l THEN rows[d] ELSE f[d]
    BY <1>1 DEF Merge
  <1>4. \A d \in DOMAIN f : d \in Nat /\ 1 <= d /\ d <= l
    BY <1>1 DEF InOrder, IsSeries
  <1> HIDE DEF g
  <1>5. IsSeries(g, n)
    BY <1>1, <1>3 DEF InOrder, IsSeries
  <1>6. AddsUp(g)
    <2> SUFFICES ASSUME NEW d \in DOMAIN g, ~g[d].cut
                 PROVE  /\ d = 1 => g[d].cum = g[d].inc
                        /\ d - 1 \in DOMAIN g => g[d].cum = g[d - 1].cum + g[d].inc
      BY DEF AddsUp
    <2>1. CASE d \in a..l
      <3>1. g[d] = rows[d]
        BY <1>3, <2>1
      <3>2. CASE d = a
        <4>1. d - 1 \notin a..l /\ (d - 1 \in DOMAIN g => d - 1 \in DOMAIN f /\ d - 1 >= 1)
          BY <1>1, <1>2, <1>3, <1>4, <3>2
        <4>2. d - 1 \in DOMAIN g => g[d - 1] = f[d - 1]
          BY <1>3, <4>1
        <4> QED BY <1>1, <1>2, <3>1, <3>2, <4>1, <4>2
      <3>3. CASE d # a
        <4>1. d \in (a + 1)..l /\ d - 1 \in a..l /\ d # 1
          BY <1>2, <2>1, <3>3
        <4>2. g[d - 1] = rows[d - 1]
          BY <1>1, <1>3, <4>1
        <4> QED BY <1>1, <3>1, <4>1, <4>2
      <3> QED BY <3>2, <3>3
    <2>2. CASE d \notin a..l
      <3>1. d \in DOMAIN f /\ d \in Nat /\ d < a /\ g[d] = f[d]
        BY <1>1, <1>2, <1>3, <1>4, <2>2
      <3>2. d - 1 \notin a..l
        BY <1>2, <3>1
      <3>3. d - 1 \in DOMAIN g => d - 1 \in DOMAIN f /\ g[d - 1] = f[d - 1]
        BY <1>1, <1>3, <3>2
      <3> QED BY <3>1, <3>3 DEF InOrder, AddsUp
    <2> QED BY <2>1, <2>2
  <1>7. FromTheStart(g)
    <2> SUFFICES ASSUME NEW d \in DOMAIN g
                 PROVE  d = 1 \/ d - 1 \in DOMAIN g \/ g[d].cut
      BY DEF FromTheStart
    <2>1. CASE d \in a..l
      <3>1. d = a \/ d - 1 \in a..l
        BY <1>2, <2>1
      <3> QED BY <1>1, <1>3, <2>1, <3>1
    <2>2. CASE d \notin a..l
      <3>1. d \in DOMAIN f /\ g[d] = f[d]
        BY <1>1, <1>3, <2>2
      <3> QED BY <1>3, <3>1 DEF InOrder, FromTheStart
    <2> QED BY <2>1, <2>2
  <1> QED BY <1>5, <1>6, <1>7 DEF InOrder, g

\* Rows by day are the rows at the midnights of those days.
LEMMA ByDayIs ==
  ASSUME NEW f, NEW z
  PROVE  /\ DOMAIN ByDay(f, z) = {d \in Day : Midnight(d, z) \in DOMAIN f}
         /\ \A d \in DOMAIN ByDay(f, z) : ByDay(f, z)[d] = f[Midnight(d, z)]
         /\ ByDay(f, z) = [d \in DOMAIN ByDay(f, z) |-> ByDay(f, z)[d]]
  BY DEF ByDay

\* Rows of one zone merge day by day.
LEMMA MergeByDay ==
  ASSUME NEW z, NEW f, NEW g, AtMidnights(f, z), AtMidnights(g, z)
  PROVE  /\ AtMidnights(Merge(f, g), z)
         /\ ByDay(Merge(f, g), z) = Merge(ByDay(f, z), ByDay(g, z))
  <1> DEFINE m == Merge(f, g)
  <1>1. /\ DOMAIN m = DOMAIN f \union DOMAIN g
        /\ m = [t \in DOMAIN m |-> m[t]]
        /\ \A t \in DOMAIN m : m[t] = IF t \in DOMAIN f THEN f[t] ELSE g[t]
    BY DEF Merge
  <1> HIDE DEF m
  <1>2. AtMidnights(m, z)
    BY <1>1 DEF AtMidnights
  <1> DEFINE v == Merge(ByDay(f, z), ByDay(g, z))
  <1>3. /\ DOMAIN v = DOMAIN ByDay(f, z) \union DOMAIN ByDay(g, z)
        /\ v = [d \in DOMAIN v |-> v[d]]
        /\ \A d \in DOMAIN v :
             v[d] = IF d \in DOMAIN ByDay(f, z) THEN ByDay(f, z)[d] ELSE ByDay(g, z)[d]
    BY DEF Merge
  <1> HIDE DEF v
  <1> DEFINE Days(h) == {d \in Day : Midnight(d, z) \in DOMAIN h}
             IsByDay(h, b) == /\ DOMAIN b = Days(h) /\ b = [d \in DOMAIN b |-> b[d]]
                              /\ \A d \in DOMAIN b : b[d] = h[Midnight(d, z)]
  <1>4. PICK bf, bg, bm : /\ bf = ByDay(f, z) /\ bg = ByDay(g, z) /\ bm = ByDay(m, z)
                          /\ IsByDay(f, bf) /\ IsByDay(g, bg) /\ IsByDay(m, bm)
    <2>1. IsByDay(f, ByDay(f, z)) /\ IsByDay(g, ByDay(g, z)) /\ IsByDay(m, ByDay(m, z))
      BY DEF ByDay
    <2> HIDE DEF IsByDay
    <2> QED BY <2>1
  <1>5. /\ DOMAIN v = DOMAIN bf \union DOMAIN bg
        /\ \A d \in DOMAIN v : v[d] = IF d \in DOMAIN bf THEN bf[d] ELSE bg[d]
    BY <1>3, <1>4
  <1>7. DOMAIN bm = DOMAIN v
    BY <1>1, <1>4, <1>5
  <1>8. \A d \in DOMAIN v : bm[d] = v[d]
    BY <1>1, <1>4, <1>5, <1>7
  <1>6. bm = v
    BY <1>3, <1>4, <1>7, <1>8
  <1> QED BY <1>2, <1>4, <1>6 DEF m, v

\* In the one zone, what is read of the day before the window is its row.
LEMMA SeedRowIsOfTheDayBefore ==
  ASSUME Books, plan.zone = zone, plan.first \in Int, NEW id \in Ids, SeedRows(id) # {}
  PROVE  /\ plan.first - 1 \in DOMAIN ByDay(db[id], zone)
         /\ LastTotal(id, SeedRows(id)) = ByDay(db[id], zone)[plan.first - 1].cum
  <1> DEFINE f == plan.first
             at == Midnight(f - 1, zone)
  <1>1. zone \in Int /\ AtMidnights(db[id], zone) /\ f \in Int /\ Day \subseteq Int
    BY DEF Books, Day
  <1>2. ASSUME NEW t \in SeedRows(id) PROVE t = at /\ f - 1 \in Day /\ at \in DOMAIN db[id]
    <2>1. /\ t \in DOMAIN db[id]
          /\ Midnight(f - 1, zone) <= t /\ t < Midnight(f, zone)
      BY DEF SeedRows, RowsBetween
    <2>2. PICK d \in Day : t = Midnight(d, zone)
      BY <1>1, <2>1 DEF AtMidnights
    <2>3. d < f
      BY <1>1, <2>1, <2>2, MidnightOrder
    <2>4. ~(d < f - 1)
      <3>1. f - 1 \in Int /\ d \in Int
        BY <1>1
      <3>2. /\ d < f - 1 => Midnight(d, zone) < Midnight(f - 1, zone)
            /\ Midnight(d, zone) \in Int /\ Midnight(f - 1, zone) \in Int
        BY <1>1, <3>1, MidnightOrder
      <3> QED BY <2>1, <2>2, <3>2
    <2>5. d = f - 1
      BY <1>1, <2>3, <2>4
    <2> QED BY <2>1, <2>2, <2>5
  <1>3. SeedRows(id) = {at} /\ f - 1 \in Day /\ at \in DOMAIN db[id]
    BY <1>2
  <1>4. at \in Int
    <2>1. f - 1 \in Int
      BY <1>1
    <2> HIDE DEF f
    <2> QED BY <1>1, <2>1, MidnightOrder
  <1>6. f - 1 \in DOMAIN ByDay(db[id], zone) /\ ByDay(db[id], zone)[f - 1] = db[id][at]
    BY <1>3 DEF ByDay
  <1> HIDE DEF at
  <1>5. Max({at}) = at
    BY <1>4 DEF Max
  <1> QED BY <1>3, <1>5, <1>6 DEF LastTotal

\* The rows that a prepared plan writes of one series join on what is imported.
LEMMA RowsJoin ==
  ASSUME Inv, TotalsInv, pc = "compare", NEW id \in Built(plan.rows), DOMAIN Rows(id) # {}
  PROVE  /\ AtMidnights(Rows(id), zone)
         /\ IsSeries(ByDay(Rows(id), zone), today)
         /\ Joins(ByDay(Rows(id), zone), ByDay(db[id], zone))
  <1> DEFINE f == plan.first
             l == plan.last
             a == Max({f, job.from})
             inc == plan.rows[id]
             seed == IF id \in DOMAIN plan.seeds THEN plan.seeds[id] ELSE 0
             t == Totals(inc, f, l)
             rows == Rows(id)
             r == ByDay(rows, zone)
             old == ByDay(db[id], zone)
  <1>1. /\ DOMAIN rows = {Midnight(d, plan.zone) : d \in a..l}
        /\ rows = [at \in DOMAIN rows |-> rows[at]]
        /\ \A at \in DOMAIN rows : LET d == DayOf(at, plan.zone) IN
             /\ rows[at].cum = seed + Totals(inc, Max({1, f}), l)[d]
             /\ rows[at].inc = inc[d]
             /\ rows[at].cut = (d = job.from /\ d > f)
    BY DEF Rows, RowsOf
  <1>20. plan.zone = zone /\ zone \in Int
    BY DEF TotalsInv, PlanOK, Quiet, Books
  <1>2. id \in Ids /\ job.from \in Nat \ {0} /\ (~job.force => job.from = 1)
    BY DEF Built, Inv, KnownIds, TotalsInv, JobOK
  <1>3. /\ today \in 1..LastDay /\ LastDay \in Nat
        /\ IsSeries(old, today)
    BY <1>2, DaysAssumption DEF TotalsInv, Books, InOrder, Day
  <1>4. f \in Nat \ {0} => /\ a \in Nat \ {0} /\ a = IF job.from > f THEN job.from ELSE f
                         /\ Max({1, f}) = f
    BY <1>2 DEF Max
  <1> HIDE DEF f, l, a, rows
  <1>5. a..l # {}
    <2>1. DOMAIN rows # {}
      BY DEF rows
    <2> QED BY <1>1, <2>1
  <1>6. ~(f = 1 /\ l = 0)
    BY <1>4, <1>5
  <1>7. /\ plan.rows \in Increments /\ l \in 1..today /\ UpTo(l)
        /\ \/ f = 1 /\ plan.seeds = NoSeeds
           \/ /\ ~job.force /\ f \in Nat /\ f > 1 /\ id \in DOMAIN plan.seeds
    BY <1>6 DEF TotalsInv, PlanOK, f, l
  <1>8. f \in Nat \ {0} /\ a \in Nat /\ f <= a /\ a <= l
    BY <1>3, <1>4, <1>5, <1>7
  <1>9. a \in Day /\ l \in Day /\ f \in Day /\ inc \in [Day -> Nat] /\ l \in Nat
    BY <1>2, <1>3, <1>7, <1>8 DEF Day, Increments
  <1>21. \A d \in a..l : d \in Int /\ d \in Day
    <2>1. LastDay \in Nat
      BY DaysAssumption
    <2> QED BY <1>9, <2>1 DEF Day
  <1> HIDE DEF inc, t, seed
  <1>10. \A d \in f..l : t[d] \in Nat /\ t[d] = (IF d = f THEN 0 ELSE t[d - 1]) + inc[d]
    BY <1>8, <1>9, TotalsCarried DEF t
  <1>12. /\ f = 1 => seed = 0
         /\ f > 1 => f - 1 \in DOMAIN old /\ seed = old[f - 1].cum
         /\ seed \in Nat
    <2>1. CASE f = 1 /\ plan.seeds = NoSeeds
      BY <2>1 DEF seed, NoSeeds
    <2>2. CASE ~job.force /\ f \in Nat /\ f > 1 /\ id \in DOMAIN plan.seeds
      <3>1. SeedRows(id) # {} /\ seed = LastTotal(id, SeedRows(id))
        BY <2>2 DEF Inv, SeedsCurrent, seed
      <3>2. f - 1 \in DOMAIN old /\ seed = old[f - 1].cum
        BY <1>2, <1>20, <2>2, <3>1, SeedRowIsOfTheDayBefore DEF TotalsInv, f
      <3> QED BY <1>3, <2>2, <3>2 DEF IsSeries
    <2> QED BY <1>7, <2>1, <2>2
  <1>13. \A d \in a..l : d \in f..l /\ d \in Day /\ d \in 1..today
    BY <1>3, <1>7, <1>8, <1>9 DEF Day
  <1>14. /\ DOMAIN r = a..l /\ r = [d \in DOMAIN r |-> r[d]]
         /\ \A d \in a..l : /\ r[d].cum = seed + t[d] /\ r[d].inc = inc[d]
                            /\ r[d].cut = (d = job.from /\ d > f)
    <2>1. \A d \in a..l : Midnight(d, zone) \in DOMAIN rows /\ DayOf(Midnight(d, zone), zone) = d
      BY <1>1, <1>20, <1>21, DayOfMidnight
    <2>2. \A d \in Day : Midnight(d, zone) \in DOMAIN rows => d \in a..l
      <3> SUFFICES ASSUME NEW d \in Day, Midnight(d, zone) \in DOMAIN rows PROVE d \in a..l
        OBVIOUS
      <3>1. PICK e \in a..l : Midnight(d, zone) = Midnight(e, zone)
        BY <1>1, <1>20
      <3>2. d \in Int /\ e \in Int
        BY <1>21 DEF Day
      <3> QED BY <1>20, <3>1, <3>2, MidnightOrder
    <2>6. /\ DOMAIN r = {d \in Day : Midnight(d, zone) \in DOMAIN rows}
          /\ \A d \in DOMAIN r : r[d] = rows[Midnight(d, zone)]
          /\ r = [d \in DOMAIN r |-> r[d]]
      BY ByDayIs
    <2> HIDE DEF r
    <2>3. DOMAIN r = a..l
      BY <1>21, <2>1, <2>2, <2>6
    <2>4. \A d \in a..l : r[d] = rows[Midnight(d, zone)]
      BY <2>3, <2>6
    <2>5. \A d \in a..l : LET at == Midnight(d, zone) IN
            /\ rows[at].cum = seed + t[d] /\ rows[at].inc = inc[d]
            /\ rows[at].cut = (d = job.from /\ d > f)
      <3>1. Totals(inc, Max({1, f}), l) = t
        BY <1>4, <1>8 DEF t
      <3> QED BY <1>1, <1>20, <2>1, <3>1
    <2> QED BY <2>3, <2>4, <2>5, <2>6
  <1>22. AtMidnights(rows, zone)
    BY <1>1, <1>20, <1>21 DEF AtMidnights
  <1> HIDE DEF r, old
  <1>15. IsSeries(r, today)
    BY <1>9, <1>10, <1>12, <1>13, <1>14 DEF IsSeries
  <1>16. \A d \in (a + 1)..l : r[d].cum = r[d - 1].cum + r[d].inc
    <2> SUFFICES ASSUME NEW d \in (a + 1)..l PROVE r[d].cum = r[d - 1].cum + r[d].inc
      OBVIOUS
    <2>1. d \in a..l /\ d - 1 \in a..l /\ d \in f..l /\ d - 1 \in f..l /\ d # f /\ d \in Day
      <3>1. d \in a..l /\ d - 1 \in a..l /\ d # f
        BY <1>8, <1>9
      <3> QED BY <1>13, <3>1
    <2>2. t[d] = t[d - 1] + inc[d] /\ t[d - 1] \in Nat /\ inc[d] \in Nat
      BY <1>9, <1>10, <2>1
    <2> QED BY <1>12, <1>14, <2>1, <2>2
  <1>17. \/ r[a].cut
         \/ a = 1 /\ r[1].cum = r[1].inc
         \/ a > 1 /\ a - 1 \in DOMAIN old /\ r[a].cum = old[a - 1].cum + r[a].inc
    <2>1. a \in a..l
      BY <1>8
    <2>2. CASE job.from > f
      <3>1. a = job.from
        BY <1>4, <1>8, <2>2
      <3> QED BY <1>14, <2>1, <2>2, <3>1
    <2>3. CASE ~(job.from > f)
      <3>1. a = f /\ f \in f..l
        BY <1>4, <1>8, <2>3
      <3>2. t[f] = 0 + inc[f] /\ inc[f] \in Nat
        BY <1>9, <1>10, <3>1
      <3>3. r[a].cum = seed + inc[a] /\ r[a].inc = inc[a]
        BY <1>14, <2>1, <3>1, <3>2
      <3>4. f = 1 \/ f > 1
        BY <1>8
      <3> QED BY <1>12, <3>1, <3>2, <3>3, <3>4
    <2> QED BY <2>2, <2>3
  <1>18. \A d \in DOMAIN old : d <= l
    BY <1>2, <1>7 DEF UpTo, old
  <1>19. Joins(r, old)
    BY <1>8, <1>9, <1>14, <1>16, <1>17, <1>18 DEF Joins
  <1> QED BY <1>15, <1>19, <1>22 DEF r, old, rows

\* The last row of a series stands in one of its days.
LEMMA LastRowsDay ==
  ASSUME NEW z \in Int, NEW f, AtMidnights(f, z), DOMAIN f # {}
  PROVE  DayOf(Max(DOMAIN f), z) \in Day
  <1> DEFINE days == {d \in Day : Midnight(d, z) \in DOMAIN f}
  <1>1. LastDay \in Nat /\ Day \subseteq Int
    BY DaysAssumption DEF Day
  <1>2. days \in SUBSET Nat /\ days # {} /\ \A x \in days : x <= LastDay
    BY DaysAssumption DEF Day, AtMidnights
  <1>3. PICK last \in days : \A x \in days : x <= last
    <2> HIDE DEF days
    <2> QED BY <1>1, <1>2, NatSetMaximum
  <1>4. \A t \in DOMAIN f : \E d \in days : t = Midnight(d, z)
    BY DEF AtMidnights
  <1>5. \A t \in DOMAIN f : t \in Int /\ t <= Midnight(last, z)
    <2> SUFFICES ASSUME NEW t \in DOMAIN f PROVE t \in Int /\ t <= Midnight(last, z)
      OBVIOUS
    <2>1. PICK d \in days : t = Midnight(d, z)
      BY <1>4
    <2>2. d \in Int /\ last \in Int /\ d <= last
      BY <1>1, <1>3
    <2>3. Midnight(d, z) \in Int /\ Midnight(last, z) \in Int
      BY <2>2, MidnightOrder
    <2>4. d < last => Midnight(d, z) < Midnight(last, z)
      BY <2>2, MidnightOrder
    <2> QED BY <2>1, <2>2, <2>3, <2>4
  <1>6. Midnight(last, z) \in DOMAIN f /\ last \in Day
    BY <1>3
  <1>7. \A t \in DOMAIN f : Midnight(last, z) >= t
    BY <1>5, <1>6
  <1> HIDE DEF days
  <1>8. Max(DOMAIN f) \in DOMAIN f /\ \A t \in DOMAIN f : Max(DOMAIN f) >= t
    BY <1>6, <1>7 DEF Max
  <1>9. Max(DOMAIN f) = Midnight(last, z)
    BY <1>5, <1>6, <1>7, <1>8
  <1> QED BY <1>1, <1>6, <1>9, DayOfMidnight

\* A nonempty set of statistics with a last imported day each has an earliest one.
LEMMA WindowStartInt ==
  ASSUME Books, plan.zone = zone, plan.ids \subseteq Ids, plan.ids # {},
         \A id \in plan.ids : DOMAIN db[id] # {}
  PROVE  WindowStart \in Int
  <1> DEFINE ends == {DayOf(Max(DOMAIN db[id]), plan.zone) : id \in plan.ids}
  <1>1. ASSUME NEW id \in plan.ids PROVE DayOf(Max(DOMAIN db[id]), plan.zone) \in Nat
    <2>1. DayOf(Max(DOMAIN db[id]), plan.zone) \in Day
      BY LastRowsDay DEF Books
    <2> QED BY <2>1, DaysAssumption DEF Day
  <1>2. ends \in SUBSET Nat /\ ends # {}
    BY <1>1
  <1> HIDE DEF ends
  <1>3. \E x \in ends : \A y \in ends : x <= y
    BY <1>2, NatSetMinimum
  <1>4. Min(ends) \in ends
    BY <1>3 DEF Min
  <1>5. Overlap \in Int
    BY DaysAssumption
  <1>6. Min(ends) - Overlap \in Int
    <2>1. PICK m : m = Min(ends)
      OBVIOUS
    <2>2. m \in Nat
      BY <1>2, <1>4, <2>1
    <2>3. m - Overlap \in Int
      BY <1>5, <2>2
    <2> QED BY <2>1, <2>3
  <1> QED BY <1>6 DEF WindowStart, ends

(***************************************************************************)
(* Ways for a step to leave the books alone                                *)
(***************************************************************************)
\* The past stays in order when nothing is imported or queued.
LEMMA BooksKept ==
  ASSUME Books, QueueJoins, UNCHANGED <<source, today, db, queue, zone>>
  PROVE  /\ Books' /\ QueueJoins'
         /\ \A n : UpTo(n) => UpTo(n)'
  BY DEF Books, QueueJoins, UpTo

\* Everything that is imported or queued is of the past.
LEMMA AllPast ==
  ASSUME Books, QueueJoins
  PROVE  UpTo(today) /\ today \in 1..today /\ today \in Nat
  <1>1. today \in 1..today /\ today \in Nat /\ \A d \in 1..today : d <= today
    BY DaysAssumption DEF Books, Day
  <1>2. /\ \A id \in Ids : DOMAIN ByDay(db[id], zone) \subseteq 1..today
        /\ \A i \in DOMAIN queue : queue[i].id # Marker =>
             DOMAIN ByDay(queue[i].rows, zone) \subseteq 1..today
    BY DEF Books, QueueJoins, InOrder, IsSeries
  <1> QED BY <1>1, <1>2 DEF UpTo

LEMMA EndedTotals ==
  ASSUME EndPass, Books', QueueJoins'
  PROVE  TotalsInv'
  BY DEF EndPass, TotalsInv, Snapshots, JobOK, PlanOK, Quiet, Routine

\* A step of others, which may add to the past and let time pass.
LEMMA OthersTotals ==
  ASSUME TotalsInv, Books', QueueJoins', today' \in Nat, today <= today',
         \A n : UpTo(n) => UpTo(n)',
         UNCHANGED <<zone, pc, data, job, runtime, config, allowed, plan>>
  PROVE  TotalsInv'
  <1>1. today \in Nat
    BY DaysAssumption DEF TotalsInv, Books, Day
  <1>2. PICK d, r, l : d = data /\ r = runtime /\ l = plan.last
    OBVIOUS
  <1>3. /\ IsSnapshot(d) => IsSnapshot(d)'
        /\ IsSnapshot(r) => IsSnapshot(r)'
    BY <1>1 DEF IsSnapshot
  <1>4. Snapshots'
    BY <1>2, <1>3 DEF TotalsInv, Snapshots
  <1>5. l \in 1..today /\ UpTo(l) => l \in 1..today' /\ UpTo(l)'
    BY <1>1
  <1>6. plan.last \in 1..today /\ UpTo(plan.last) =>
          plan'.last \in 1..today' /\ UpTo(plan.last)'
    BY <1>2, <1>5
  <1>7. PlanOK'
    <2>1. Built(plan.rows)' = Built(plan.rows)
      BY DEF Built, Cumulative, Running
    <2> QED BY <1>6, <2>1 DEF TotalsInv, PlanOK
  <1>8. JobOK'
    BY DEF TotalsInv, JobOK
  <1> QED BY <1>4, <1>7, <1>8 DEF TotalsInv

(***************************************************************************)
(* The steps                                                               *)
(***************************************************************************)
LEMMA TotalsInit == Init => TotalsInv
  <1> SUFFICES ASSUME Init PROVE TotalsInv
    OBVIOUS
  <1>1. LastDay \in Nat \ {0} /\ today = 1 /\ queue = <<>> /\ pc = "idle" /\ job = Routine
    BY DaysAssumption DEF Init
  <1>2. source \in Increments
    <2>1. PICK first \in NewDays :
            source = [id \in Ids |-> [d \in Day |-> IF d = 1 THEN first[id] ELSE 0]]
      BY DEF Init
    <2>2. \A id \in Ids : first[id] \in Nat
      BY ValuesAssumption
    <2>3. \A id \in Ids : [d \in Day |-> IF d = 1 THEN first[id] ELSE 0] \in [Day -> Nat]
      BY <2>2
    <2> QED BY <2>1, <2>3 DEF Increments
  <1>3. db = [id \in Ids |-> [d \in {} |-> 0]]
    BY DEF Init
  <1>4. Books
    <2>1. zone \in Int
      BY ZonesAssumption DEF Init
    <2>2. \A id \in Ids : db[id] = [t \in {} |-> 0]
      BY <1>3
    <2>3. PICK f : f = [t \in {} |-> 0]
      OBVIOUS
    <2>4. DOMAIN f = {} /\ f = [t \in DOMAIN f |-> f[t]]
      BY <2>3
    <2>5. AtMidnights(f, zone) /\ DOMAIN ByDay(f, zone) = {}
      BY <2>4, ByDayIs DEF AtMidnights
    <2>6. InOrder(ByDay(f, zone), today)
      BY <2>5, ByDayIs DEF InOrder, IsSeries, AddsUp, FromTheStart
    <2> QED BY <1>1, <1>2, <1>3, <2>1, <2>2, <2>3, <2>5, <2>6 DEF Books, Day
  <1>5. QueueJoins
    BY <1>1 DEF QueueJoins
  <1> QED BY <1>1, <1>4, <1>5 DEF TotalsInv, Snapshots, JobOK, PlanOK, Quiet, Routine

LEMMA TotalsBegin ==
  ASSUME TotalsInv,
         Begin \/ \E from \in 1..today, only \in {Ids} \union {{id} : id \in Ids} :
                    BeginRebuild(from, only)
  PROVE  TotalsInv'
  <1>1. UNCHANGED <<source, today, db, queue, zone>> /\ pc' = "refresh"
    BY DEF Begin, BeginRebuild, world, context
  <1>2. job'.from \in Nat \ {0} /\ (~job'.force => job'.from = 1)
    BY DEF Begin, BeginRebuild, Routine
  <1>3. Books' /\ QueueJoins'
    BY <1>1, BooksKept DEF TotalsInv
  <1> QED BY <1>1, <1>2, <1>3 DEF TotalsInv, Snapshots, JobOK, PlanOK, Quiet

\* A snapshot is taken of the provider as it is.
LEMMA SnapshotTaken ==
  ASSUME Books, QueueJoins, NEW full \in BOOLEAN, NEW first
  PROVE  IsSnapshot(Snapshot(full, first))
  BY AllPast DEF IsSnapshot, Snapshot, Books

LEMMA TotalsRefresh ==
  ASSUME TotalsInv, NEW full \in BOOLEAN, NEW first \in 1..today, Refresh(full, first)
  PROVE  TotalsInv'
  <1>1. UNCHANGED <<source, today, db, queue, zone>>
    BY DEF Refresh, world, context
  <1>2. Books' /\ QueueJoins' /\ \A n : UpTo(n) => UpTo(n)'
    BY <1>1, BooksKept DEF TotalsInv
  <1>3. CASE EndPass
    BY <1>2, <1>3, EndedTotals
  <1>4. CASE data' = Snapshot(full, first) /\ pc' = "partition" /\ UNCHANGED pass
    <2>1. PICK s : s = Snapshot(full, first)
      OBVIOUS
    <2>2. IsSnapshot(s)
      BY <2>1, SnapshotTaken DEF TotalsInv
    <2>3. IsSnapshot(s)'
      BY <1>1, <1>2, <2>2 DEF IsSnapshot
    <2> QED BY <1>2, <1>4, <2>1, <2>3 DEF TotalsInv, Snapshots, JobOK, PlanOK, Quiet, pass
  <1> QED BY <1>3, <1>4 DEF Refresh

LEMMA TotalsPartition ==
  ASSUME TotalsInv, Partition
  PROVE  TotalsInv'
  <1>1. UNCHANGED <<source, today, db, queue, zone>> /\ pc = "partition"
    BY DEF Partition, world, context
  <1>2. Books' /\ QueueJoins' /\ \A n : UpTo(n) => UpTo(n)'
    BY <1>1, BooksKept DEF TotalsInv
  <1>3. CASE EndPass
    BY <1>2, <1>3, EndedTotals
  <1>4. CASE ~EndPass
    <2>1. runtime' = data /\ data' = data /\ pc' = "capture" /\ job' = job
      BY <1>4 DEF Partition
    <2>2. PICK s : s = data
      OBVIOUS
    <2>3. IsSnapshot(s)
      BY <1>1, <2>2 DEF TotalsInv, Snapshots
    <2>4. IsSnapshot(s)'
      BY <1>1, <1>2, <2>3 DEF IsSnapshot
    <2> QED BY <1>1, <1>2, <2>1, <2>2, <2>4 DEF TotalsInv, Snapshots, JobOK, PlanOK, Quiet
  <1> QED BY <1>3, <1>4

\* A step of the pass after its snapshot was taken: only its plan moves.
LEMMA PassTotals ==
  ASSUME TotalsInv, Books', QueueJoins', \A n : UpTo(n) => UpTo(n)',
         UNCHANGED <<today, data, runtime, job>>, pc' # "partition",
         pc \notin {"idle", "refresh", "partition"}, JobOK', PlanOK'
  PROVE  TotalsInv'
  <1>1. PICK d, r : d = data /\ r = runtime
    OBVIOUS
  <1>2. /\ IsSnapshot(d) => IsSnapshot(d)'
        /\ IsSnapshot(r) => IsSnapshot(r)'
    BY DEF IsSnapshot
  <1>3. Snapshots'
    BY <1>1, <1>2 DEF TotalsInv, Snapshots
  <1> QED BY <1>3 DEF TotalsInv

LEMMA TotalsCapture ==
  ASSUME Inv, TotalsInv, Capture
  PROVE  TotalsInv'
  <1>1. /\ UNCHANGED <<source, today, db, zone, data, runtime, job>>
        /\ pc = "capture" /\ pc' = "fence"
        /\ plan' = [NoPlan EXCEPT !.revision = revision, !.zone = zone]
        /\ queue' = Append(queue, [id |-> Marker, rows |-> <<>>])
    BY DEF Capture, world, context
  <1>2. /\ DOMAIN queue = 1..Len(queue) /\ DOMAIN queue' = 1..(Len(queue) + 1)
        /\ Len(queue) \in Nat /\ queue'[Len(queue) + 1].id = Marker
        /\ \A i \in DOMAIN queue : queue'[i] = queue[i]
    <2>1. PICK S : queue \in Seq(S) /\ [id |-> Marker, rows |-> <<>>] \in S
      <3>1. queue \in Seq({queue[i] : i \in DOMAIN queue} \cup {[id |-> Marker, rows |-> <<>>]})
        BY DEF Inv, IsTaskSequence
      <3> QED BY <3>1
    <2> QED BY <1>1, <2>1, AppendProperties
  <1>3. \A i \in DOMAIN queue' : queue'[i].id # Marker => i \in DOMAIN queue
    BY <1>2
  <1>4. Books'
    BY <1>1 DEF TotalsInv, Books
  <1>5. QueueJoins'
    BY <1>1, <1>2, <1>3 DEF TotalsInv, QueueJoins
  <1>6. \A n : UpTo(n) => UpTo(n)'
    BY <1>1, <1>2, <1>3 DEF UpTo
  <1>7. JobOK' /\ PlanOK'
    BY <1>1 DEF TotalsInv, JobOK, PlanOK, Quiet, NoPlan
  <1> QED BY <1>1, <1>4, <1>5, <1>6, <1>7, PassTotals

LEMMA TotalsInventory ==
  ASSUME Inv, TotalsInv, Inventory
  PROVE  TotalsInv'
  <1>1. /\ UNCHANGED <<source, today, db, queue, zone, data, runtime, job>>
        /\ pc = "fence" /\ pc' = IF job.force THEN "full" ELSE "latest"
    BY DEF Inventory, world, context
  <1>2. /\ plan'.first = plan.first /\ plan'.last = plan.last /\ plan'.seeds = plan.seeds
        /\ plan'.zone = plan.zone /\ plan'.ids \subseteq allowed
    BY DEF Inventory, Inv, IsPlan
  <1>3. Books' /\ QueueJoins' /\ \A n : UpTo(n) => UpTo(n)'
    BY <1>1, BooksKept DEF TotalsInv
  <1>4. JobOK' /\ PlanOK'
    BY <1>1, <1>2 DEF TotalsInv, JobOK, PlanOK, Quiet, Inv, KnownIds
  <1> QED BY <1>1, <1>3, <1>4, PassTotals

\* The pass falls back to the full baseline.
LEMMA TotalsFallback ==
  ASSUME TotalsInv, UNCHANGED <<source, today, db, queue, zone, data, runtime, job>>,
         pc \in {"latest", "seeds", "window"}, pc' = "full", plan' = NoPlanYet
  PROVE  TotalsInv'
  <1>1. Books' /\ QueueJoins' /\ \A n : UpTo(n) => UpTo(n)'
    BY BooksKept DEF TotalsInv
  <1>2. JobOK' /\ PlanOK'
    BY DEF TotalsInv, JobOK, PlanOK, Quiet, NoPlanYet, NoPlan
  <1> QED BY <1>1, <1>2, PassTotals

LEMMA TotalsLatest ==
  ASSUME Inv, TotalsInv, Latest
  PROVE  TotalsInv'
  <1>1. UNCHANGED <<source, today, db, queue, zone, data, runtime, job>> /\ pc = "latest"
    BY DEF Latest, world, context
  <1>2. Books' /\ QueueJoins' /\ \A n : UpTo(n) => UpTo(n)'
    BY <1>1, BooksKept DEF TotalsInv
  <1>3. CASE pc' = "points" /\ UNCHANGED plan
    <2>1. JobOK' /\ PlanOK'
      BY <1>1, <1>3 DEF TotalsInv, JobOK, PlanOK, Quiet
    <2> QED BY <1>1, <1>2, <1>3, <2>1, PassTotals
  <1>4. CASE plan' = NoPlanYet /\ pc' = "full"
    BY <1>1, <1>4, TotalsFallback
  <1>5. CASE /\ plan.ids # {} /\ ~(\E id \in plan.ids : DOMAIN db[id] = {})
             /\ plan' = [plan EXCEPT !.first = WindowStart, !.last = runtime.last]
             /\ pc' = "seeds"
    <2>1. plan.ids \subseteq Ids /\ plan.seeds = NoSeeds /\ plan.zone = zone /\ Books
      BY <1>1 DEF TotalsInv, PlanOK, Quiet
    <2>2. WindowStart \in Int
      BY <1>5, <2>1, WindowStartInt
    <2>3. /\ plan'.first = WindowStart /\ plan'.last = runtime.last
          /\ plan'.seeds = plan.seeds /\ plan'.ids = plan.ids /\ plan'.zone = plan.zone
      BY <1>5 DEF Inv, IsPlan
    <2>4. JobOK' /\ PlanOK'
      BY <1>1, <1>5, <2>1, <2>2, <2>3 DEF TotalsInv, JobOK, PlanOK, Quiet
    <2> QED BY <1>1, <1>2, <1>5, <2>4, PassTotals
  <1> QED BY <1>3, <1>4, <1>5 DEF Latest

LEMMA TotalsSeeds ==
  ASSUME Inv, TotalsInv, Seeds
  PROVE  TotalsInv'
  <1>1. UNCHANGED <<source, today, db, queue, zone, data, runtime, job>> /\ pc = "seeds"
    BY DEF Seeds, world, context
  <1>2. Books' /\ QueueJoins' /\ \A n : UpTo(n) => UpTo(n)'
    BY <1>1, BooksKept DEF TotalsInv
  <1>3. CASE plan' = NoPlanYet /\ pc' = "full"
    BY <1>1, <1>3, TotalsFallback
  <1>4. CASE /\ \A id \in plan.ids : SeedRows(id) # {}
             /\ plan' = [plan EXCEPT !.seeds =
                           [id \in plan.ids |-> LastTotal(id, SeedRows(id))]]
             /\ pc' = "window"
    <2>1. /\ plan.ids \subseteq Ids /\ plan.ids # {} /\ plan.first \in Int
          /\ plan.last = runtime.last /\ plan.zone = zone /\ Books
      BY <1>1 DEF TotalsInv, PlanOK, Quiet
    <2>2. plan.first > 1
      <3>1. PICK id \in plan.ids : id \in Ids /\ SeedRows(id) # {}
        BY <1>4, <2>1
      <3>2. plan.first - 1 \in DOMAIN ByDay(db[id], zone)
        BY <2>1, <3>1, SeedRowIsOfTheDayBefore
      <3>3. plan.first - 1 \in 1..today /\ today \in Nat
        BY <2>1, <3>1, <3>2, AllPast DEF TotalsInv, Books, InOrder, IsSeries
      <3> QED BY <2>1, <3>3
    <2>3. /\ plan'.first = plan.first /\ plan'.last = plan.last /\ plan'.zone = plan.zone
          /\ DOMAIN plan'.seeds = plan.ids
      BY <1>4 DEF Inv, IsPlan
    <2>4. JobOK' /\ PlanOK'
      BY <1>1, <1>4, <2>1, <2>2, <2>3 DEF TotalsInv, JobOK, PlanOK, Quiet
    <2> QED BY <1>1, <1>2, <1>4, <2>4, PassTotals
  <1> QED BY <1>3, <1>4 DEF Seeds

LEMMA TotalsReadWindow ==
  ASSUME Inv, TotalsInv, ReadWindow \/ WindowFails
  PROVE  TotalsInv'
  <1>1. /\ UNCHANGED <<source, today, db, queue, zone, data, runtime, job, config, allowed>>
        /\ pc = "window"
    BY DEF ReadWindow, WindowFails, world, context
  <1>2. Books' /\ QueueJoins' /\ \A n : UpTo(n) => UpTo(n)'
    BY <1>1, BooksKept DEF TotalsInv
  <1>3. CASE plan' = NoPlanYet /\ pc' = "full"
    BY <1>1, <1>3, TotalsFallback
  <1> DEFINE rows == Between(source, plan.first, plan.last)
  <1>4. CASE /\ SeedsCover(rows) /\ plan' = [plan EXCEPT !.rows = rows] /\ pc' = "points"
    <2>1. rows \in Increments
      <3>1. source \in Increments
        BY DEF TotalsInv, Books
      <3> QED BY <3>1 DEF Between, Increments
    <2> HIDE DEF rows
    <2>2. /\ plan.first > 1 /\ plan.first \in Nat /\ ~job.force /\ plan.zone = zone
          /\ plan.last = runtime.last /\ IsSnapshot(runtime)
      BY <1>1 DEF TotalsInv, PlanOK, JobOK, Snapshots, Quiet
    <2>3. PICK l : l = plan.last
      OBVIOUS
    <2>4. l \in 1..today /\ UpTo(l) /\ UpTo(l)'
      BY <1>2, <2>2, <2>3 DEF IsSnapshot
    <2>5. /\ plan'.first = plan.first /\ plan'.last = l /\ plan'.rows = rows
          /\ plan'.seeds = plan.seeds /\ plan'.existing = plan.existing
          /\ plan'.zone = plan.zone
      BY <1>4, <2>3 DEF Inv, IsPlan
    <2>6. Built(plan.rows)' \subseteq DOMAIN plan'.seeds
      BY <1>1, <1>4, <2>3, <2>5 DEF SeedsCover, Built, Cumulative, Running
    <2>7. UpTo(plan.last)'
      BY <2>4, <2>5
    <2>8. PlanOK'
      BY <1>1, <1>4, <2>1, <2>2, <2>4, <2>5, <2>6, <2>7 DEF PlanOK, Quiet
    <2>9. JobOK'
      BY <1>1, <1>4 DEF TotalsInv, JobOK
    <2> QED BY <1>1, <1>2, <1>4, <2>8, <2>9, PassTotals
  <1> QED BY <1>3, <1>4 DEF ReadWindow, WindowFails

LEMMA TotalsReadFull ==
  ASSUME Inv, TotalsInv, ReadFull
  PROVE  TotalsInv'
  <1>1. /\ UNCHANGED <<source, today, db, queue, zone, data, runtime, job>>
        /\ pc = "full" /\ pc' = "points"
    BY DEF ReadFull, world, context
  <1>2. Books' /\ QueueJoins' /\ \A n : UpTo(n) => UpTo(n)'
    BY <1>1, BooksKept DEF TotalsInv
  <1>3. plan.first = 1 /\ plan.seeds = NoSeeds /\ plan.zone = zone /\ IsSnapshot(runtime)
    BY <1>1 DEF TotalsInv, PlanOK, Snapshots, Quiet
  <1>4. PICK l : l = IF runtime.full THEN runtime.last ELSE today
    OBVIOUS
  <1>5. l \in 1..today /\ UpTo(l)
    BY <1>3, <1>4, AllPast DEF TotalsInv, IsSnapshot
  <1>6. /\ plan'.first = 1 /\ plan'.seeds = NoSeeds /\ plan'.last = l /\ plan'.zone = plan.zone
        /\ plan'.rows = IF runtime.full THEN runtime.rows ELSE source
    BY <1>3, <1>4 DEF ReadFull, Inv, IsPlan
  <1>7. plan'.rows \in Increments
    BY <1>3, <1>6 DEF TotalsInv, Books, IsSnapshot
  <1>8. UpTo(plan.last)'
    BY <1>2, <1>5, <1>6
  <1>9. PlanOK'
    BY <1>1, <1>3, <1>5, <1>6, <1>7, <1>8 DEF PlanOK, Quiet
  <1>10. JobOK'
    BY <1>1 DEF TotalsInv, JobOK
  <1> QED BY <1>1, <1>2, <1>9, <1>10, PassTotals

LEMMA TotalsRecheck ==
  ASSUME Inv, TotalsInv, Recheck
  PROVE  TotalsInv'
  <1>1. /\ UNCHANGED <<source, today, db, queue, zone, data, runtime, job, config, allowed>>
        /\ pc = "points" /\ pc' = "compare"
    BY DEF Recheck, world, context
  <1>2. Books' /\ QueueJoins' /\ \A n : UpTo(n) => UpTo(n)'
    BY <1>1, BooksKept DEF TotalsInv
  <1>3. /\ plan'.first = plan.first /\ plan'.last = plan.last /\ plan'.rows = plan.rows
        /\ plan'.seeds = plan.seeds /\ plan'.existing = plan.existing
        /\ plan'.zone = plan.zone
    BY DEF Recheck, Inv, IsPlan
  <1>4. Built(plan.rows)' = Built(plan.rows)
    BY <1>1, <1>3 DEF Built, Cumulative, Running
  <1>5. UpTo(plan.last) => UpTo(plan.last)'
    <2>1. PICK l : l = plan.last
      OBVIOUS
    <2> QED BY <1>2, <1>3, <2>1
  <1>6. PlanOK'
    BY <1>1, <1>3, <1>4, <1>5 DEF TotalsInv, PlanOK, Quiet
  <1>7. JobOK'
    BY <1>1 DEF TotalsInv, JobOK
  <1> QED BY <1>1, <1>2, <1>6, <1>7, PassTotals

LEMMA TotalsWrite ==
  ASSUME Inv, TotalsInv, Write
  PROVE  TotalsInv'
  <1>1. /\ UNCHANGED <<source, today, db, zone>> /\ pc = "compare" /\ EndPass
        /\ queue' = queue \o Batch
    BY DEF Write, world, context
  <1>2. PICK b : b = Batch
    OBVIOUS
  <1>3. /\ b \in Seq({b[i] : i \in DOMAIN b}) /\ DOMAIN b = 1..Len(b)
        /\ \A i \in DOMAIN b :
             /\ b[i].id \in Ids /\ b[i].id \in Built(plan.rows)
             /\ b[i].rows = Rows(b[i].id) /\ DOMAIN b[i].rows # {}
             /\ \A j \in DOMAIN b : b[j].id = b[i].id => j = i
    BY <1>2, BatchIsOwned DEF Inv, KnownIds
  <1>4. queue' = b
    <2>1. queue = <<>>
      BY <1>1 DEF Inv, SeedsCurrent
    <2> QED BY <1>1, <1>2, <1>3, <2>1
  <1>5. \A i \in DOMAIN b :
          /\ AtMidnights(b[i].rows, zone) /\ IsSeries(ByDay(b[i].rows, zone), today)
          /\ Joins(ByDay(b[i].rows, zone), ByDay(db[b[i].id], zone))
    BY <1>1, <1>3, RowsJoin
  <1>6. Books'
    BY <1>1 DEF TotalsInv, Books
  <1>7. QueueJoins'
    BY <1>1, <1>3, <1>4, <1>5 DEF QueueJoins
  <1> QED BY <1>1, <1>6, <1>7, EndedTotals

LEMMA TotalsRetry ==
  ASSUME TotalsInv, Retry
  PROVE  TotalsInv'
  <1>1. UNCHANGED <<source, today, db, queue, zone>> /\ pc = "compare"
    BY DEF Retry, world, context
  <1>2. Books' /\ QueueJoins' /\ \A n : UpTo(n) => UpTo(n)'
    BY <1>1, BooksKept DEF TotalsInv
  <1>3. CASE EndPass
    BY <1>2, <1>3, EndedTotals
  <1>4. CASE ~EndPass
    <2>1. runtime' = data /\ data' = data /\ pc' = "capture" /\ job' = job
      BY <1>4 DEF Retry
    <2>2. PICK s : s = data
      OBVIOUS
    <2>3. IsSnapshot(s)
      BY <1>1, <2>2 DEF TotalsInv, Snapshots
    <2>4. IsSnapshot(s)'
      BY <1>1, <1>2, <2>3 DEF IsSnapshot
    <2> QED BY <1>1, <1>2, <2>1, <2>2, <2>4 DEF TotalsInv, Snapshots, JobOK, PlanOK, Quiet
  <1> QED BY <1>3, <1>4

\* An abort, or a crash, which empties Recorder's queue.
LEMMA TotalsAbort ==
  ASSUME TotalsInv, Abort \/ Crash
  PROVE  TotalsInv'
  <1>1. /\ UNCHANGED <<source, today, db, zone>> /\ EndPass
        /\ queue' = queue \/ queue' = <<>>
    BY DEF Abort, Crash, world, context
  <1>2. Books'
    BY <1>1 DEF TotalsInv, Books
  <1>3. QueueJoins'
    BY <1>1 DEF TotalsInv, QueueJoins
  <1> QED BY <1>1, <1>2, <1>3, EndedTotals

LEMMA TotalsRecorderRuns ==
  ASSUME Inv, TotalsInv, RecorderRuns
  PROVE  TotalsInv'
  <1> DEFINE t == queue[1]
  <1>1. /\ UNCHANGED <<source, today, zone, pc, data, job, runtime, config, allowed, plan>>
        /\ queue # <<>> /\ queue' = Tail(queue)
        /\ db' = IF Head(queue).id = Marker THEN db
                 ELSE [db EXCEPT ![Head(queue).id] = Merge(Head(queue).rows, @)]
    BY DEF RecorderRuns, world, context, pass
  <1>2. /\ 1 \in DOMAIN queue /\ Head(queue) = t
        /\ \A i \in DOMAIN queue' : i + 1 \in DOMAIN queue /\ i + 1 # 1
                                    /\ queue'[i] = queue[i + 1]
    BY <1>1 DEF Inv, IsTaskSequence
  <1>3. /\ Books /\ QueueJoins /\ today \in Nat /\ today' \in Nat /\ today <= today'
    BY <1>1, AllPast DEF TotalsInv
  <1> HIDE DEF t
  <1>4. CASE t.id = Marker
    <2>1. db' = db
      BY <1>1, <1>2, <1>4
    <2>2. Books'
      <3> QED BY <1>1, <1>3, <2>1 DEF Books
    <2>3. \A i \in DOMAIN queue' : queue'[i].id # Marker =>
            /\ queue'[i].id \in Ids
            /\ AtMidnights(queue'[i].rows, zone)
            /\ IsSeries(ByDay(queue'[i].rows, zone), today)
            /\ Joins(ByDay(queue'[i].rows, zone), ByDay(db[queue'[i].id], zone))
      BY <1>2, <1>3 DEF QueueJoins
    <2>4. \A i, j \in DOMAIN queue' :
            queue'[i].id # Marker /\ queue'[j].id = queue'[i].id => j = i
      <3> SUFFICES ASSUME NEW i \in DOMAIN queue', NEW j \in DOMAIN queue',
                          queue'[i].id # Marker, queue'[j].id = queue'[i].id
                   PROVE  j = i
        OBVIOUS
      <3>1. j + 1 = i + 1
        BY <1>2, <1>3 DEF QueueJoins
      <3>2. DOMAIN queue' \subseteq Nat
        BY <1>1 DEF Inv, IsTaskSequence
      <3> QED BY <3>1, <3>2
    <2>5. QueueJoins'
      BY <1>1, <2>1, <2>3, <2>4 DEF QueueJoins
    <2>6. \A n : UpTo(n) => UpTo(n)'
      BY <1>1, <1>2, <2>1 DEF UpTo
    <2> QED BY <1>1, <1>3, <2>2, <2>5, <2>6, OthersTotals
  <1>5. CASE t.id # Marker
    <2> DEFINE g == Merge(t.rows, db[t.id])
    <2>1. /\ t.id \in Ids /\ AtMidnights(t.rows, zone)
          /\ IsSeries(ByDay(t.rows, zone), today)
          /\ Joins(ByDay(t.rows, zone), ByDay(db[t.id], zone))
          /\ \A j \in DOMAIN queue : queue[j].id = t.id => j = 1
      BY <1>2, <1>3, <1>5 DEF QueueJoins, t
    <2>2. /\ DOMAIN db' = Ids /\ db' = [id \in Ids |-> db'[id]] /\ db'[t.id] = g
          /\ \A id \in Ids : id # t.id => db'[id] = db[id]
      BY <1>1, <1>2, <1>3, <1>5, <2>1 DEF Books
    <2>3. /\ AtMidnights(g, zone) /\ InOrder(ByDay(g, zone), today)
          /\ DOMAIN ByDay(g, zone) = DOMAIN ByDay(t.rows, zone) \cup DOMAIN ByDay(db[t.id], zone)
      <3>1. AtMidnights(db[t.id], zone) /\ InOrder(ByDay(db[t.id], zone), today)
        BY <1>3, <2>1 DEF Books
      <3>2. /\ AtMidnights(g, zone)
            /\ ByDay(g, zone) = Merge(ByDay(t.rows, zone), ByDay(db[t.id], zone))
        BY <2>1, <3>1, MergeByDay
      <3>3. InOrder(Merge(ByDay(t.rows, zone), ByDay(db[t.id], zone)), today)
        BY <1>3, <2>1, <3>1, MergeJoins
      <3>4. DOMAIN Merge(ByDay(t.rows, zone), ByDay(db[t.id], zone)) =
              DOMAIN ByDay(t.rows, zone) \cup DOMAIN ByDay(db[t.id], zone)
        BY DEF Merge
      <3> QED BY <3>2, <3>3, <3>4
    <2> HIDE DEF g
    <2>5. \A id \in Ids : AtMidnights(db'[id], zone) /\ InOrder(ByDay(db'[id], zone), today)
      BY <1>3, <2>2, <2>3 DEF Books
    <2>6. Books'
      BY <1>1, <1>3, <2>2, <2>5 DEF Books
    <2>7. \A i \in DOMAIN queue' : queue'[i].id # Marker =>
            /\ queue'[i].id \in Ids /\ queue'[i].id # t.id
            /\ AtMidnights(queue'[i].rows, zone)
            /\ IsSeries(ByDay(queue'[i].rows, zone), today)
            /\ Joins(ByDay(queue'[i].rows, zone), ByDay(db'[queue'[i].id], zone))
      BY <1>2, <1>3, <2>1, <2>2 DEF QueueJoins
    <2>8. \A i, j \in DOMAIN queue' :
            queue'[i].id # Marker /\ queue'[j].id = queue'[i].id => j = i
      <3> SUFFICES ASSUME NEW i \in DOMAIN queue', NEW j \in DOMAIN queue',
                          queue'[i].id # Marker, queue'[j].id = queue'[i].id
                   PROVE  j = i
        OBVIOUS
      <3>1. j + 1 = i + 1
        BY <1>2, <1>3 DEF QueueJoins
      <3>2. DOMAIN queue' \subseteq Nat
        BY <1>1 DEF Inv, IsTaskSequence
      <3> QED BY <3>1, <3>2
    <2>9. QueueJoins'
      BY <1>1, <2>7, <2>8 DEF QueueJoins
    <2>10. \A n : UpTo(n) => UpTo(n)'
      <3> SUFFICES ASSUME NEW n, UpTo(n) PROVE UpTo(n)'
        OBVIOUS
      <3>1. \A d \in DOMAIN ByDay(t.rows, zone) : d <= n
        BY <1>2, <1>5 DEF UpTo, t
      <3>2. \A id \in Ids : \A d \in DOMAIN ByDay(db'[id], zone) : d <= n
        BY <2>1, <2>2, <2>3, <3>1 DEF UpTo
      <3>3. \A i \in DOMAIN queue' : queue'[i].id # Marker =>
              \A d \in DOMAIN ByDay(queue'[i].rows, zone) : d <= n
        BY <1>2 DEF UpTo
      <3> QED BY <1>1, <3>2, <3>3 DEF UpTo
    <2> QED BY <1>1, <1>3, <2>6, <2>9, <2>10, OthersTotals
  <1> QED BY <1>4, <1>5

LEMMA TotalsOtherRefresh ==
  ASSUME TotalsInv, NEW full \in BOOLEAN, NEW first \in 1..today, OtherRefresh(full, first)
  PROVE  TotalsInv'
  <1>1. /\ UNCHANGED <<source, today, db, queue, zone, pc, job, runtime, config, allowed, plan>>
        /\ data' = Snapshot(full, first)
    BY DEF OtherRefresh, world, context, pass
  <1>2. Books' /\ QueueJoins' /\ \A n : UpTo(n) => UpTo(n)'
    BY <1>1, BooksKept DEF TotalsInv
  <1>3. PICK s, r, l : s = Snapshot(full, first) /\ r = runtime /\ l = plan.last
    OBVIOUS
  <1>4. IsSnapshot(s) /\ (IsSnapshot(s) => IsSnapshot(s)') /\ (IsSnapshot(r) => IsSnapshot(r)')
    BY <1>1, <1>2, <1>3, SnapshotTaken DEF TotalsInv, IsSnapshot
  <1>5. Snapshots'
    BY <1>1, <1>3, <1>4 DEF TotalsInv, Snapshots
  <1>6. UpTo(plan.last) => UpTo(plan.last)'
    BY <1>1, <1>2, <1>3
  <1>7. PlanOK' /\ JobOK'
    <2>1. Built(plan.rows)' = Built(plan.rows)
      BY <1>1 DEF Built, Cumulative, Running
    <2> QED BY <1>1, <1>6, <2>1 DEF TotalsInv, PlanOK, JobOK
  <1> QED BY <1>2, <1>5, <1>7 DEF TotalsInv

\* The configuration changes, the provider corrects a day or starts a new one.
LEMMA TotalsOthers ==
  ASSUME TotalsInv,
         \/ \E new \in Configs : Reconfigure(new)
         \/ \E id \in Ids : Adopt(id)
         \/ \E inc \in NewDays : NewDay(inc)
         \/ \E id \in Ids, d \in 1..today, v \in Values : Correct(id, d, v)
  PROVE  TotalsInv'
  <1>1. UNCHANGED <<db, queue, zone, data, pc, job, runtime, config, allowed, plan>>
    BY DEF Reconfigure, Adopt, NewDay, Correct, pass, context
  <1>2. /\ Books /\ QueueJoins /\ today \in Nat /\ today \in Day /\ LastDay \in Nat
        /\ source \in Increments
    BY AllPast, DaysAssumption DEF TotalsInv, Books
  <1>3. today' \in Day /\ today' \in Nat /\ today <= today' /\ source' \in Increments
    <2>1. CASE UNCHANGED <<source, today>>
      BY <1>2, <2>1
    <2>2. CASE \E inc \in NewDays : NewDay(inc)
      <3>1. PICK inc \in NewDays : NewDay(inc)
        BY <2>2
      <3>2. \A id \in Ids : inc[id] \in Nat
        BY ValuesAssumption
      <3>3. today' \in Day
        BY <1>2, <3>1 DEF NewDay, Day
      <3>4. source' \in Increments
        BY <1>2, <3>1, <3>2 DEF NewDay, Increments
      <3> QED BY <1>2, <3>1, <3>3, <3>4 DEF NewDay
    <2>3. CASE \E id \in Ids, d \in 1..today, v \in Values : Correct(id, d, v)
      <3>1. PICK id \in Ids, d \in 1..today, v \in Values : Correct(id, d, v)
        BY <2>3
      <3>2. v \in Nat
        BY ValuesAssumption
      <3>3. UNCHANGED today /\ source' = [source EXCEPT ![id][d] = v]
        BY <3>1 DEF Correct
      <3>4. source[id] \in [Day -> Nat]
        BY <1>2 DEF Increments
      <3>5. [source[id] EXCEPT ![d] = v] \in [Day -> Nat]
        BY <3>2, <3>4
      <3>6. source' = [source EXCEPT ![id] = [source[id] EXCEPT ![d] = v]]
        BY <3>3
      <3>7. source' \in Increments
        BY <1>2, <3>5, <3>6 DEF Increments
      <3> QED BY <1>2, <3>3, <3>7
    <2> QED BY <2>1, <2>2, <2>3 DEF Reconfigure, Adopt, world
  <1>4. \A f : IsSeries(f, today) => IsSeries(f, today')
    <2>1. 1..today \subseteq 1..today'
      BY <1>2, <1>3
    <2> QED BY <2>1 DEF IsSeries
  <1>5. Books'
    <2>1. \A id \in Ids : AtMidnights(db[id], zone) /\ InOrder(ByDay(db[id], zone), today')
      BY <1>2, <1>4 DEF Books, InOrder
    <2> QED BY <1>1, <1>2, <1>3, <2>1 DEF Books
  <1>6. QueueJoins'
    <2>1. \A i \in DOMAIN queue : queue[i].id # Marker =>
            /\ queue[i].id \in Ids
            /\ AtMidnights(queue[i].rows, zone)
            /\ IsSeries(ByDay(queue[i].rows, zone), today')
            /\ Joins(ByDay(queue[i].rows, zone), ByDay(db[queue[i].id], zone))
            /\ \A j \in DOMAIN queue : queue[j].id = queue[i].id => j = i
      BY <1>2, <1>4 DEF QueueJoins
    <2> QED BY <1>1, <2>1 DEF QueueJoins
  <1>7. \A n : UpTo(n) => UpTo(n)'
    BY <1>1 DEF UpTo
  <1> QED BY <1>1, <1>2, <1>3, <1>5, <1>6, <1>7, OthersTotals

LEMMA TotalsStep ==
  ASSUME Inv, TotalsInv, [Next]_vars, ~\E new \in Zones : MoveTimeZone(new)
  PROVE  TotalsInv'
  <1>1. CASE PassStep
    BY <1>1, TotalsRefresh, TotalsPartition, TotalsCapture, TotalsInventory, TotalsLatest,
       TotalsSeeds, TotalsReadWindow, TotalsReadFull, TotalsRecheck, TotalsWrite, TotalsRetry
       DEF PassStep
  <1>2. CASE \E full \in BOOLEAN, first \in 1..today : OtherRefresh(full, first)
    BY <1>2, TotalsOtherRefresh
  <1>3. CASE WindowFails \/ Abort \/ Crash \/ RecorderRuns
    BY <1>3, TotalsReadWindow, TotalsAbort, TotalsRecorderRuns
  <1>4. CASE UNCHANGED vars
    <2>1. /\ UNCHANGED <<source, today, db, queue, zone>>
          /\ UNCHANGED <<zone, pc, data, job, runtime, config, allowed, plan>>
      BY <1>4 DEF vars
    <2>2. Books' /\ QueueJoins' /\ \A n : UpTo(n) => UpTo(n)'
      BY <2>1, BooksKept DEF TotalsInv
    <2>3. today' \in Nat /\ today <= today'
      BY <2>1, AllPast DEF TotalsInv
    <2> QED BY <2>1, <2>2, <2>3, OthersTotals
  <1> QED BY <1>1, <1>2, <1>3, <1>4, TotalsBegin, TotalsOthers DEF Next

\* A zone that has moved does not count as unmoved again.
LEMMA RevisionStays ==
  ASSUME Inv, [Next]_vars
  PROVE  /\ revision' = revision \/ revision' = revision + 1
         /\ (\E new \in Zones : MoveTimeZone(new)) => revision' = revision + 1
  BY DEF Next, PassStep, vars, context, Begin, BeginRebuild, Refresh, Partition, Capture,
         Inventory, Latest, Seeds, ReadWindow, WindowFails, ReadFull, Recheck, Write, Retry,
         Abort, RecorderRuns, Crash, OtherRefresh, Reconfigure, MoveTimeZone, Adopt, NewDay,
         Correct

\* While the zone has not moved, what is imported adds up, what is queued joins on
\* it, and a plan is of days no earlier than either, with a seed or from the
\* start.
THEOREM TotalsInvariant == Spec => []WhileUnmoved
  <1>1. Init => WhileUnmoved
    BY TotalsInit DEF WhileUnmoved
  <1>2. ASSUME Inv, WhileUnmoved, [Next]_vars PROVE WhileUnmoved'
    <2> SUFFICES ASSUME revision' = 0 PROVE TotalsInv'
      BY DEF WhileUnmoved
    <2>1. revision \in Nat
      BY <1>2 DEF Inv, ZoneKnown
    <2>2. revision = 0 /\ ~\E new \in Zones : MoveTimeZone(new)
      BY <1>2, <2>1, RevisionStays
    <2> QED BY <1>2, <2>2, TotalsStep DEF WhileUnmoved
  <1> QED BY <1>1, <1>2, PassInvariant, PTL DEF Spec

\* While the zone has not moved, the totals that Recorder holds of consecutive days
\* differ by the increment imported for the later one, for any corrections,
\* overlaps, reconfigurations, retries, aborts, crashes and rebuilds; only a
\* rebuild's first day may step.
THEOREM TotalsAlwaysAddUp == Spec => []TotalsAddUp
  <1>1. WhileUnmoved => TotalsAddUp
    BY DEF WhileUnmoved, TotalsInv, Books, InOrder, AddsUp, TotalsAddUp
  <1> QED BY <1>1, TotalsInvariant, PTL

\* Nor does a series start in the middle of the history: its first day is the first
\* source day, or where a rebuild cut it.
THEOREM TotalsStartWithHistory == Spec => []TotalsFromTheStart
  <1>1. WhileUnmoved => TotalsFromTheStart
    BY DEF WhileUnmoved, TotalsInv, Books, InOrder, FromTheStart, TotalsFromTheStart
  <1> QED BY <1>1, TotalsInvariant, PTL
=============================================================================
