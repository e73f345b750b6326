---------------------------- MODULE SourceMerge ----------------------------
(***************************************************************************)
(* How the observations of several acquisitions of one resource become one *)
(* history (merge_source_bundle), which acquisitions no slot needs any     *)
(* more (source_redundancy), and how the supersession relation follows     *)
(* (_nearest, _contract).                                                  *)
(*                                                                         *)
(* A log is a sequence of acquisitions: provider or archive originals and  *)
(* integration deltas,                                                     *)
(*   [kind, delta, lo, hi, end, pts]                                       *)
(* where [lo, hi) is the window of the manifest, end its source_end and    *)
(* pts gives the observation of every five-minute slot, None where the     *)
(* acquisition has no row.  An acquisition is named by its place in the    *)
(* log; edges[i] names the earlier ones that i directly supersedes.  A     *)
(* window is a set of consecutive slots.                                   *)
(***************************************************************************)
EXTENDS Integers, Sequences, FiniteSets

CONSTANTS
  None,      \* no row, or no resolution
  Gone,      \* the observation of a row the provider marked deleted
  Disputed   \* candidates that no rule decides

ASSUME MarksAssumption == Cardinality({None, Gone, Disputed}) = 3

Least(S)    == CHOOSE x \in S : \A y \in S : x <= y
Greatest(S) == CHOOSE x \in S : \A y \in S : y <= x

----------------------------------------------------------------------------
(* The supersession relation.                                              *)

\* The transitive closure, of which _predecessor_closure returns a part.
Ancestors(edges) ==
  LET upTo[n \in 0..Len(edges)] ==
        IF n = 0 THEN <<>>
        ELSE LET anc == upTo[n - 1]
             IN  Append(anc, edges[n] \cup UNION {anc[j] : j \in edges[n]})
  IN  upTo[Len(edges)]

\* Predecessors that no other listed one reaches already.
Nearest(edges, preds) ==
  LET anc == Ancestors(edges) IN preds \ UNION {anc[p] : p \in preds}

\* Take the retired out, keeping what the others reach through them.
Contracted(edges, retired) ==
  LET through[i \in DOMAIN edges] ==
        (edges[i] \ retired) \cup UNION {through[j] : j \in edges[i] \cap retired}
      joined == [i \in DOMAIN edges |-> IF i \in retired THEN {} ELSE through[i]]
  IN  [i \in DOMAIN edges |-> Nearest(joined, joined[i])]

----------------------------------------------------------------------------
(* One slot.                                                               *)

Having(log, ids, kind, s) ==
  {i \in ids : log[i].kind = kind /\ log[i].pts[s] # None}

\* A winner supersedes every candidate that observed something else.
Winners(log, anc, candidates, s) ==
  {i \in candidates : \A j \in candidates :
                        log[j].pts[s] = log[i].pts[s] \/ j \in anc[i]}

Maximal(anc, winners) == {i \in winners : \A j \in winners : i \notin anc[j]}

\* What archives say counts only before the provider's first point.
ArchiveSlot(log, archives, first, s) ==
  IF archives = {} \/ first = None \/ s >= first THEN None
  ELSE LET seen == {log[i].pts[s] : i \in archives}
       IN  IF Cardinality(seen) = 1 THEN CHOOSE o \in seen : TRUE ELSE Disputed

ProviderSlot(log, provider, archives, anc, s) ==
  LET winners == Winners(log, anc, provider, s)
      o == log[CHOOSE i \in winners : TRUE].pts[s]
  IN  IF \/ winners = {}
         \/ o # Gone /\ \E i \in archives : log[i].pts[s] # o
      THEN Disputed ELSE o

Slot(log, ids, anc, first, s) ==
  LET provider == Having(log, ids, "provider", s)
      archives == Having(log, ids, "archive", s)
  IN  IF provider = {} THEN ArchiveSlot(log, archives, first, s)
      ELSE ProviderSlot(log, provider, archives, anc, s)

----------------------------------------------------------------------------
(* Bundles.                                                                *)

Overlapping(log, ids, window) ==
  {i \in ids : log[i].lo <= Greatest(window) /\ log[i].hi >= Least(window)}

FirstProvider(log, ids, anchor) ==
  LET points == {s \in DOMAIN log[1].pts : \E i \in ids : i \in Having(log, ids, "provider", s)}
                \cup ({anchor} \ {None})
  IN  IF points = {} THEN None ELSE Least(points)

\* The last interval start the provider stood behind; -1 without sources.
Horizon(log, ids) ==
  IF ids = {} THEN -1 ELSE Greatest({log[i].end : i \in ids})

\* Everything a merge resolves except lineage.
Resolution(log, ids, edges, first) ==
  LET anc == Ancestors(edges)
  IN  [slots   |-> [s \in DOMAIN log[1].pts |-> Slot(log, ids, anc, first, s)],
       basis   |-> [s \in DOMAIN log[1].pts |-> Having(log, ids, "provider", s) # {}],
       horizon |-> Horizon(log, ids)]

\* The provider acquisitions that slot s needs.
NeededAt(log, ids, anc, s) ==
  LET provider == Having(log, ids, "provider", s)
      archives == Having(log, ids, "archive", s)
  IN  IF provider = {} THEN {}
      ELSE IF ProviderSlot(log, provider, archives, anc, s) = Disputed THEN provider
      ELSE Maximal(anc, Winners(log, anc, provider, s))

\* The loaded acquisitions that must stay for what they say.
\* Mutant: points outside the window are forgotten.
NeededInside(log, ids, edges, window, protected) ==
  LET anc   == Ancestors(edges)
      fixed == {i \in ids : log[i].kind # "provider" \/ ~log[i].delta \/ i \in protected}
  IN  fixed \cup UNION {NeededAt(log, ids, anc, s) : s \in window}

Needed(log, ids, edges, window, protected) ==
  LET anc    == Ancestors(edges)
      Slots  == DOMAIN log[1].pts
      fixed  == {i \in ids : log[i].kind # "provider" \/ ~log[i].delta \/ i \in protected}
      beyond == {i \in ids : \E s \in Slots \ window : log[i].pts[s] # None}
  IN  fixed \cup beyond \cup UNION {NeededAt(log, ids, anc, s) : s \in Slots}

\* One more may have to stay for the horizon.  Which of several sorts first in
\* the code depends on their random names, hence the set of choices.
Witnesses(log, ids, needed) ==
  LET last == {i \in ids : log[i].end = Horizon(log, ids)}
  IN  IF last \cap needed # {} \/ last = {} THEN {{}} ELSE {{i} : i \in last}

\* How many acquisitions the slots of a day still need.
WonOn(log, ids, edges, day) ==
  LET anc == Ancestors(edges)
      settled(s) == /\ Having(log, ids, "provider", s) # {}
                    /\ Slot(log, ids, anc, None, s) # Disputed
  IN  Cardinality(UNION {NeededAt(log, ids, anc, s) : s \in {t \in day : settled(t)}})
=============================================================================
