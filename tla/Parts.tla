-------------------------------- MODULE Parts --------------------------------
(***************************************************************************)
(* Four parts that share no state: the device links, the point reads of an *)
(* import, the due state of a filter and the pages of a history query.  A  *)
(* behaviour is one of one of them; the other three keep quiet.            *)
(***************************************************************************)
EXTENDS DeviceLinks, Sequences

CONSTANTS
  ReadResources, ReadUnmapped, ReadDay, WindowDays, Retries, Budget, ReadSources, MaxFaults,
  Step, FilterDay, Reread, Lifetime, MaxAge, Fan, Start, FilterTime, FilterChanges,
  Quantities, Adopted, PageDay, Zones, Requests, Sizes, Starts, Worth, PageTime, PageChanges

VARIABLES
  part,                                                        \* the one that runs
  source, down, todo, attempt, streak, outcome, result, silent, faults,
  now, reported, changed, cache, task, published, timer, edits,
  clock, zone, revision, pending, held, proof, native, adoption, sums, query, amount,
  imported, moves

readsVars  == <<source, down, todo, attempt, streak, outcome, result, silent, faults>>
filterVars == <<now, reported, changed, cache, task, published, timer, edits>>
pagesVars  == <<clock, zone, revision, pending, held, proof, native, adoption, sums,
                query, amount, imported, moves>>

Reads == INSTANCE PointReads WITH
  Resources <- ReadResources, Unmapped <- ReadUnmapped, Day <- ReadDay, Sources <- ReadSources

Filter == INSTANCE FilterForecast WITH
  Day <- FilterDay, MaxTime <- FilterTime, MaxChanges <- FilterChanges,
  data <- published, changes <- edits

Pages == INSTANCE HistoryPages WITH
  Day <- PageDay, MaxTime <- PageTime, MaxChanges <- PageChanges,
  now <- clock, changes <- moves

----------------------------------------------------------------------------
(* What the parts rest on.                                                 *)

\* Every resource is read once; the source says how far its data goes.
ASSUME ReadsAssumption ==
  /\ ReadResources \in Seq({ReadResources[i] : i \in DOMAIN ReadResources})
  /\ \A i, k \in DOMAIN ReadResources : ReadResources[i] = ReadResources[k] => i = k
  /\ {ReadDay, WindowDays, Retries} \subseteq Nat \ {0} /\ Budget \in Nat
  /\ \A s \in ReadSources : /\ s.end \in Nat /\ s.dataEnd \in Int /\ s.limit \in Nat
                             /\ s.bad[1] \in Int /\ s.bad[2] \in Int

\* The widest window and the budget of the code; a day of units that halve well.
ASSUME ReadsBudget == WindowDays = 30 /\ Budget >= 8 /\ ReadDay % 16 = 0
\* The request of a query is not empty and its pages are not; a day has hours.
ASSUME PagesAssumption ==
  /\ Quantities \in Seq({Quantities[i] : i \in DOMAIN Quantities}) /\ Quantities # <<>>
  /\ Sizes \subseteq Nat \ {0} /\ PageDay \in Nat \ {0} /\ Zones \subseteq Int
  /\ \A r \in Requests : r.start \in Int /\ r.end \in Int /\ r.start < r.end
\* What the hours of the model are: the sources say an amount of every one.
ASSUME PagesTime ==
  /\ PageTime \in Nat /\ Worth \in [0 .. PageTime - 1 -> Int] /\ Zones \subseteq Nat
  /\ \A r \in Requests : r.start \in Nat
  /\ \A s \in Starts : s.at \in 0..PageTime /\ s.imported \in Int
\* A day is a number of slots; the fan runs in finitely many units.
ASSUME FilterAssumption ==
  /\ {Step, FilterDay} \subseteq Nat \ {0} /\ FilterDay % Step = 0
  /\ Lifetime \in Int /\ MaxAge \in Int /\ Start \in Nat /\ FilterTime \in Nat
  /\ Fan \subseteq Int /\ IsFiniteSet(Fan)
  /\ None \notin Int /\ None \notin BOOLEAN

----------------------------------------------------------------------------
(* One part runs.                                                          *)

LinksOff ==
  /\ at = InitialAt /\ dev = InitialDev /\ over = [r \in Resources |-> Nothing]
  /\ data = {} /\ entities = {} /\ devices = {} /\ event = Setup /\ changes = 0

ReadsOff ==
  /\ source = None /\ down = None /\ todo = None /\ attempt = None /\ streak = None
  /\ outcome = None /\ result = None /\ silent = None /\ faults = None

FilterOff ==
  /\ now = None /\ reported = None /\ changed = None /\ cache = None
  /\ task = None /\ published = None /\ timer = None /\ edits = None

PagesOff ==
  /\ clock = None /\ zone = None /\ revision = None /\ pending = None /\ held = None
  /\ proof = None /\ native = None /\ adoption = None /\ sums = None /\ query = None
  /\ amount = None /\ imported = None /\ moves = None

PartsInit ==
  \/ part = "links" /\ Init /\ ReadsOff /\ FilterOff /\ PagesOff
  \/ part = "reads" /\ Reads!Init /\ LinksOff /\ FilterOff /\ PagesOff
  \/ part = "filter" /\ Filter!Init /\ LinksOff /\ ReadsOff /\ PagesOff
  \/ part = "pages" /\ Pages!Init /\ LinksOff /\ ReadsOff /\ FilterOff

PartsNext ==
  \/ part = "links" /\ Next /\ UNCHANGED <<part, readsVars, filterVars, pagesVars>>
  \/ part = "reads" /\ Reads!Next /\ UNCHANGED <<part, vars, filterVars, pagesVars>>
  \/ part = "filter" /\ Filter!Next /\ UNCHANGED <<part, vars, readsVars, pagesVars>>
  \/ part = "pages" /\ Pages!Next /\ UNCHANGED <<part, vars, readsVars, filterVars>>

PartsSpec == PartsInit /\ [][PartsNext]_<<part, vars, readsVars, filterVars, pagesVars>>

----------------------------------------------------------------------------
\* No failure, retry or split of a read loses or repeats a moment.
Accounted == part = "reads" => Reads!Accounted

\* The failure budget ends a pass in an outage, and not for one bad day.
BudgetFits == part = "reads" => Reads!BudgetFits

\* Until the deadline that was set, a published due state is true.
DueStateProven == part = "filter" => Filter!DueStateProven

\* The pages that a caller joins are one answer, of one view.
PagesAreOneView == part = "pages" => Pages!PagesAreOneView

\* A total that an answer calls complete is that of all its hours, once.
TotalsTrue == part = "pages" => Pages!TotalsTrue
=============================================================================
