-------------------------- MODULE HistoryEvidence --------------------------
(***************************************************************************)
(* The evidence of adopted hourly history over many passes: a provider     *)
(* that publishes and corrects five-minute points, reviewed plans that     *)
(* admit originals, and routine refreshes that capture the lookback        *)
(* window, keep only what changed as an integration delta, record what it  *)
(* supersedes, hold hours in conflict or accept the rest, and retire       *)
(* deltas no slot needs (HistoryWriter.refresh, source_view, plan;         *)
(* prepare_history_delta; build_hourly_statistics).                        *)
(*                                                                         *)
(* One resource, one quantity and one catalog month.  A pass is one step:  *)
(* it is refused when the root it was planned on changed meanwhile, which, *)
(* with its native rows and crashes, is HistoryJournal's subject.          *)
(***************************************************************************)
EXTENDS SourceMerge

CONSTANTS
  SlotCount,     \* slots of the month
  SlotsPerHour,
  HoursPerDay,
  Lookback,      \* hours a routine window reaches back
  ArchivePolicy, \* whether archives count before the first provider point
  Values,        \* the observations of valid rows
  Usual,         \* ... the one a slot is first published with
  MaxAcquisitions, MaxIrregular, MaxReviews   \* bounds

ASSUME SizesAssumption ==
  /\ {SlotsPerHour, HoursPerDay, Lookback} \subseteq Nat \ {0}
  /\ SlotCount \in Nat /\ SlotCount % (SlotsPerHour * HoursPerDay) = 0
  /\ SlotCount > 0
ASSUME BoundsAssumption ==
  {MaxAcquisitions, MaxIrregular, MaxReviews} \subseteq Nat
ASSUME ValuesAssumption ==
  /\ ArchivePolicy \in BOOLEAN /\ Usual \in Values
  /\ Values \cap {None, Gone, Disputed} = {}

SlotSet   == 0..(SlotCount - 1)
HourCount == SlotCount \div SlotsPerHour
HourSet   == 0..(HourCount - 1)
Observed  == Values \cup {Gone}

SlotsOf(h) == (h * SlotsPerHour)..((h + 1) * SlotsPerHour - 1)
HoursOf(window) == {h \in HourSet : SlotsOf(h) \subseteq window}
DayOf(s)   == LET d == s \div (SlotsPerHour * HoursPerDay)
              IN  {t \in SlotSet : t \div (SlotsPerHour * HoursPerDay) = d}
Days       == {DayOf(s) : s \in SlotSet}


VARIABLES
  feed,      \* what the provider would return for each slot now
  now,       \* slots that have elapsed
  dataEnd,   \* the provider's data_end in the coordinator's rows
  log,       \* staged acquisitions
  catalog,   \* those the committed month names
  edges,     \* the committed supersession relation
  first,     \* the committed first provider point
  proofs,    \* the committed assessment of each hour
  holds,     \* acquisitions in dispute at each held hour
  pass,      \* ghost: the last pass, while the provider is as it read it
  irregular, reviews

evidence == <<log, catalog, edges, first, proofs, holds>>
vars == <<feed, now, dataEnd, evidence, pass, irregular, reviews>>

Unassessed == [status |-> "unassessed", points |-> <<>>]
NoPass     == [window |-> {}, compacted |-> {}, held |-> {}]

----------------------------------------------------------------------------
(* A view of the evidence, as source_view loads it for a window.           *)

Held == UNION {holds[h] : h \in HourSet}

Views(asked, window, acquired, relation) ==
  LET ids     == asked \cup catalog \cup Held
      loaded  == Overlapping(acquired, ids, window)
      anchor  == FirstProvider(acquired, ids, first)
      from    == IF ArchivePolicy THEN anchor ELSE None
      before  == Resolution(acquired, loaded, relation, from)
      guarded == Held \cup (asked \ catalog)
      needed  == Needed(acquired, loaded, relation, window, guarded)
      view(retired, left) ==
        [ids |-> ids, sources |-> loaded \ retired, retired |-> retired, edges |-> left,
         first |-> anchor, slots |-> before.slots, horizon |-> before.horizon]
      without(retired) ==
        LET left == Contracted(relation, retired)
        IN  IF retired = {} \/ before = Resolution(acquired, loaded \ retired, left, from)
            THEN view(retired, left) ELSE view({}, relation)
  IN  {without(loaded \ (needed \cup w)) : w \in Witnesses(acquired, loaded, needed)}

\* An hour's assessment: only a closed hour with twelve valid points is ready.
Assessed(view, h) ==
  LET points == [i \in 1..SlotsPerHour |-> view.slots[h * SlotsPerHour + i - 1]]
      seen   == {points[i] : i \in 1..SlotsPerHour}
  IN  IF Disputed \in seen THEN [status |-> "source_conflict", points |-> <<>>]
      ELSE IF /\ (h + 1) * SlotsPerHour <= now
              /\ Greatest(SlotsOf(h)) <= view.horizon
              /\ seen \subseteq Values
           THEN [status |-> "ready", points |-> points]
           ELSE [status |-> "incomplete", points |-> <<>>]

InConflict(view, window) ==
  {h \in HoursOf(window) : Assessed(view, h).status = "source_conflict"}

\* The operation a pass accepts: its view replaces the month's evidence, the
\* window's hours are proved anew and are no longer held.
Commit(view, window) ==
  /\ catalog' = view.ids \ view.retired
  /\ edges' = view.edges
  /\ first' = view.first
  /\ proofs' = [h \in HourSet |-> IF h \in HoursOf(window) THEN Assessed(view, h)
                                  ELSE proofs[h]]
  /\ holds' = [h \in HourSet |-> IF h \in HoursOf(window) THEN {} ELSE holds[h]]

\* From Lookback hours before the current hour to that hour's end.
RoutineWindow ==
  LET current == (now \div SlotsPerHour)
  IN  UNION {SlotsOf(h) : h \in {k \in HourSet : current - Lookback <= k /\ k <= current}}

----------------------------------------------------------------------------
(* The provider, the clock and reviewed plans.                             *)

Init ==
  /\ now = SlotsPerHour
  /\ feed = [s \in SlotSet |-> IF s < now THEN Usual ELSE None]
  /\ dataEnd = now - 1
  /\ log = << [kind |-> "provider", delta |-> FALSE, lo |-> 0, hi |-> now,
               end |-> dataEnd, pts |-> feed] >>
  /\ catalog = {1} /\ edges = << {} >> /\ first = 0
  /\ proofs = [h \in HourSet |->
                 IF h = 0 THEN [status |-> "ready",
                                points |-> [i \in 1..SlotsPerHour |-> Usual]]
                 ELSE Unassessed]
  /\ holds = [h \in HourSet |-> {}]
  /\ pass = NoPass /\ irregular = 0 /\ reviews = 0

Irregular ==
  /\ irregular < MaxIrregular
  /\ irregular' = irregular + 1

\* A slot elapses, irregularly with a gap or before the coordinator reads of it.
Publish ==
  /\ now < SlotCount
  /\ now' = now + 1
  /\ \/ /\ feed' = [feed EXCEPT ![now] = Usual]
        /\ dataEnd' = now
        /\ UNCHANGED irregular
     \/ /\ Irregular
        /\ \/ UNCHANGED feed /\ dataEnd' = now
           \/ feed' = [feed EXCEPT ![now] = Usual] /\ UNCHANGED dataEnd
  /\ pass' = NoPass
  /\ UNCHANGED <<evidence, reviews>>

\* The coordinator reads the thermostat's data_end.
Summarise ==
  /\ dataEnd # now - 1
  /\ dataEnd' = now - 1
  /\ UNCHANGED <<feed, now, evidence, pass, irregular, reviews>>

\* The provider changes, deletes, fills or stops returning a past point.
Correct ==
  /\ Irregular
  /\ \E s \in SlotSet, o \in Observed \cup {None} :
       /\ s < now /\ feed[s] # o
       /\ feed' = [feed EXCEPT ![s] = o]
  /\ pass' = NoPass
  /\ UNCHANGED <<now, dataEnd, evidence, reviews>>

\* A reviewed plan for a window commits what it finds, conflicts included.
Plan(asked, window, acquired, relation) ==
  /\ reviews < MaxReviews
  /\ reviews' = reviews + 1
  /\ \E view \in Views(asked, window, acquired, relation) : Commit(view, window)
  /\ pass' = NoPass

Review ==
  /\ \E h \in HourSet : /\ h * SlotsPerHour < now
                       /\ Plan({}, SlotsOf(h), log, edges)
  /\ UNCHANGED <<feed, now, dataEnd, log, irregular>>

\* It may admit an original: an export of the month that has one point of use.
Admit ==
  /\ Len(log) < MaxAcquisitions
  /\ \E kind \in {"provider", "archive"}, s \in 0..(now - 1), o \in Values :
       /\ log' = Append(log, [kind |-> kind, delta |-> FALSE, lo |-> 0, hi |-> SlotCount,
                              end |-> dataEnd,
                              pts |-> [t \in SlotSet |-> IF t = s THEN o ELSE None]])
       /\ \E window \in {SlotsOf(s \div SlotsPerHour), SlotSet} :
            Plan({Len(log')}, window, log', Append(edges, {}))
  /\ UNCHANGED <<feed, now, dataEnd, irregular>>

----------------------------------------------------------------------------
(* Routine refresh.                                                        *)

\* Closed days of the window whose points still need several acquisitions.
Compaction(baseline, window) ==
  LET current == (now \div SlotsPerHour) * SlotsPerHour
  IN  {d \in Days : /\ d \subseteq window
                    /\ Greatest(d) + 1 <= current
                    /\ Greatest(d) + 1 <= Horizon(log, baseline.sources)
                    /\ WonOn(log, baseline.sources, baseline.edges, d) > 1}

\* Those the capture still has every baseline point of.
Carried(baseline, window) ==
  {d \in Compaction(baseline, window) :
     \A s \in d : baseline.slots[s] \notin {None, Disputed} => feed[s] # None}

\* The rows a delta keeps: those the baseline lacks or has differently, deleted
\* ones included, and every row of a carried day.
\* Mutant: a tombstone is not carried.
ChangedLive(baseline, window) ==
  {s \in window : /\ feed[s] \notin {None, Gone}
                  /\ \/ feed[s] # baseline.slots[s]
                     \/ \E d \in Carried(baseline, window) : s \in d}

\* Mutant: compacted days are not carried whole.
ChangedOnly(baseline, window) ==
  {s \in window : feed[s] # None /\ feed[s] # baseline.slots[s]}

Changed(baseline, window) ==
  {s \in window : /\ feed[s] # None
                  /\ \/ feed[s] # baseline.slots[s]
                     \/ \E d \in Carried(baseline, window) : s \in d}

Delta(changed, window) ==
  [kind |-> "provider", delta |-> TRUE, lo |-> Least(window),
   hi |-> Greatest(window) + 1, end |-> dataEnd,
   pts |-> [s \in SlotSet |-> IF s \in changed THEN feed[s] ELSE None]]

\* A new acquisition names its nearest predecessors in the baseline.
Superseding(baseline) ==
  LET known == {i \in baseline.sources : log[i].kind = "provider"}
  IN  Append([i \in DOMAIN edges |-> Nearest(edges, edges[i])], Nearest(edges, known))

Passed(window, baseline) ==
  pass' = [window |-> window, compacted |-> Carried(baseline, window), held |-> Held]

\* The capture changed nothing: only a newly complete hour authorises work, and
\* never beside a conflict.
RefreshRetained(baseline, window) ==
  /\ Changed(baseline, window) = {}
  /\ InConflict(baseline, window) = {}
  /\ \E h \in HoursOf(window) : /\ Assessed(baseline, h).status = "ready"
                               /\ proofs[h].status # "ready"
  /\ Passed(window, baseline)
  /\ Commit(baseline, window)
  /\ UNCHANGED log

\* The capture became a delta: hold the hours in conflict, or accept it.
RefreshDelta(baseline, window) ==
  LET changed  == Changed(baseline, window)
      id       == Len(log) + 1
  IN  /\ changed # {} /\ Len(log) < MaxAcquisitions
      /\ log' = Append(log, Delta(changed, window))
      /\ \E view \in Views({id}, window, log', Superseding(baseline)) :
         LET disputed == InConflict(view, window) IN
         \/ /\ disputed # {}
            /\ holds' = [h \in HourSet |-> IF h \in disputed THEN holds[h] \cup {id}
                                           ELSE holds[h]]
            /\ edges' = Append(edges, {})
            /\ pass' = NoPass
            /\ UNCHANGED <<catalog, first, proofs>>
         \/ /\ disputed = {}
            /\ Passed(window, baseline)
            /\ Commit(view, window)

Refresh ==
  /\ RoutineWindow # {}
  /\ \E window \in {RoutineWindow} : \E baseline \in Views({}, window, log, edges) :
       \/ RefreshRetained(baseline, window)
       \/ RefreshDelta(baseline, window)
  /\ UNCHANGED <<feed, now, dataEnd, irregular, reviews>>

Next == Publish \/ Summarise \/ Correct \/ Review \/ Admit \/ Refresh

Spec == Init /\ [][Next]_vars

----------------------------------------------------------------------------
(* Properties.                                                             *)

From == IF ArchivePolicy THEN first ELSE None

\* Retirement loses lineage only: whatever a pass of the present window would
\* retire, the window and the whole month, points outside it included, resolve
\* to the same observations, conflicts and horizon without it.  So the check
\* after source_redundancy never has to refuse (docs/hourly-history-v3.md:452).
RetirementInvisible ==
  LET ids    == catalog \cup Held
      window == RoutineWindow
      loaded == Overlapping(log, ids, window)
      needed == Needed(log, loaded, edges, window, Held)
  IN  window # {} =>
      \A w \in Witnesses(log, loaded, needed) :
        LET retired == loaded \ (needed \cup w)
            left    == Contracted(edges, retired)
        IN  retired # {} => \A some \in {loaded, ids} :
              Resolution(log, some \ retired, left, From) = Resolution(log, some, edges, From)

\* Once a pass is accepted, every ready hour of its window shows what the
\* provider returned for it, whatever was corrected, deleted, superseded,
\* retired or reviewed before; a point the provider no longer returns keeps its
\* last observation.
RoutineFollowsProvider ==
  \A h \in HoursOf(pass.window) :
    proofs[h].status = "ready" =>
      \A i \in 1..SlotsPerHour :
        feed[h * SlotsPerHour + i - 1] \in {None, proofs[h].points[i]}

\* A closed day that several acquisitions won, and whose points the capture
\* still has, is won by one acquisition after the pass, and no other delta
\* stays selected for that day alone but one that an hour held in conflict when
\* the pass began: "each closed day converges to one winning delta"
\* (docs/hourly-history-v3.md:451).
ClosedDaysConverge ==
  \A d \in pass.compacted :
    /\ WonOn(log, catalog, edges, d) = 1
    /\ Cardinality({i \in catalog \ pass.held :
                      /\ log[i].delta
                      /\ \A s \in SlotSet \ d : log[i].pts[s] = None}) <= 1
=============================================================================
