---------------------------- MODULE HistoryPages ----------------------------
(***************************************************************************)
(* What a query of hourly history answers: the reason and value of every   *)
(* hour, the total of every local day, from its points or from one legacy  *)
(* daily row, and the pages of one view (hourly_history_query,             *)
(* hourly_history_legacy).                                                 *)
(*                                                                         *)
(* HistoryQuery shows that one answer is one root's, so an answer is one   *)
(* step here, and so is the writer's replacement of an hour from the       *)
(* intent to the proof.  Time is counted in hours; a fan is the quantity,  *)
(* its amounts differ from hour to hour so that a total tells its hours.   *)
(* Measurements, slot counts, provenance, metadata that disagrees and days *)
(* of 23 or 25 hours are left out.                                         *)
(***************************************************************************)
EXTENDS Integers, Sequences, FiniteSets, FiniteSetsExt, SequencesExt

CONSTANTS
  Quantities,   \* as requested, in order
  Adopted,      \* the one of them that is adopted
  Day,          \* hours of a day
  Zones,        \* time zones, by the hour at which their days begin
  Requests,     \* [period, start, end]
  Sizes,        \* of pages
  Starts,       \* what adoption may find: [at, imported, missing, proven]
  Worth,        \* what the sources say of every hour at first
  MaxTime,      \* bound: hours
  MaxChanges,   \* bound: changes of the evidence, the zone or the clock
  None

VARIABLES
  now, zone,
  revision,     \* of the durable root
  pending,      \* hours that an accepted operation still has to replace
  held,         \* hours whose sources are in conflict
  proof,        \* the committed amount of every hour, or None
  native,       \* Recorder's hourly rows
  adoption,     \* the selection's adopted_at and timezone
  sums,         \* the retired daily rows: [at, sum]
  query,        \* one caller: what it asked, its token, the pages it has
  amount,       \* ghost: what the sources say of every hour
  imported,     \* ghost: how far the daily writer's last import saw
  changes

evidence == <<revision, pending, held, proof, native>>
legacy   == <<adoption, sums, imported>>
vars == <<now, zone, evidence, legacy, query, amount, changes>>

Hour == 0 .. MaxTime - 1
Least(a, b) == IF a < b THEN a ELSE b
Most(a, b)  == IF a > b THEN a ELSE b
Total(f, S) == FoldSet(LAMBDA h, n : n + f[h], 0, S)

First(k, z) == k * Day + z          \* the hour at which day k begins
DayOf(h, z) == (h - z) \div Day
Whole(k, z) == First(k, z) .. First(k + 1, z) - 1

----------------------------------------------------------------------------
(* Legacy days.                                                            *)

\* Mutant: the day of adoption, which the daily writer did not finish.
DaysThroughAdoption(first, end) ==
  {k \in DayOf(first, zone) .. DayOf(adoption.at, zone) :
     first <= First(k, zone) /\ First(k + 1, zone) <= Least(end, now)}

\* _eligible_days: whole days of the window that ended before adoption's day.
EligibleDays(first, end) ==
  {k \in DayOf(first, zone) .. DayOf(adoption.at, zone) - 1 :
     first <= First(k, zone) /\ First(k + 1, zone) <= Least(end, now)}

\* async_read_legacy_days: the difference to the row of the day before.
LegacyDays(first, end) ==
  IF adoption.zone # zone THEN {}
  ELSE {[day |-> t.day, amount |-> t.row.sum - t.before.sum] :
          t \in {t \in [day : EligibleDays(first, end), row : sums, before : sums] :
                  /\ t.row.at = First(t.day, zone) /\ t.before.at = First(t.day - 1, zone)
                  /\ t.before.sum <= t.row.sum}}

----------------------------------------------------------------------------
(* One view: the request, and all that its answer is computed from.        *)

Span(req) == req.start .. req.end - 1

View(req) ==
  [req |-> req, zone |-> zone, revision |-> revision,
   pending |-> pending, held |-> held \cap Span(req),
   proof  |-> [h \in Span(req) |-> proof[h]],
   native |-> [h \in Span(req) |-> native[h]],
   days   |-> IF req.period = "day" THEN LegacyDays(req.start, req.end) ELSE {}]

\* Mutant: the token binds the root, and not what was read from Recorder.
TokenOfRoot(v) == [v EXCEPT !.native = <<>>]
Token(v) == v

\* _hour_reason, and the source holds of _hour.
Reason(v, q, h) ==
  IF q # Adopted THEN IF h + 1 > v.req.at THEN "provisional" ELSE "unassessed"
  ELSE IF h \in v.pending THEN "pending"
  ELSE IF h \in v.held THEN "conflict"
  ELSE IF h + 1 > v.req.at THEN "provisional"
  ELSE IF v.proof[h] = None
       THEN IF v.native[h] = None THEN "unassessed" ELSE "unverified_native"
  ELSE IF v.native[h] # v.proof[h] THEN "unverified_native"
  ELSE "ready"

\* A bucket: value is what was observed, total what is complete.
Bucket(from, to, reason, value, total) ==
  [from |-> from, to |-> to, reason |-> reason, value |-> value, total |-> total]

HourBucket(v, q, h) ==
  LET reason == Reason(v, q, h)
      value  == IF reason = "ready" THEN v.native[h] ELSE None
  IN  Bucket(h, h + 1, reason, value, value)

\* _absent_day_reason
Absent(reasons) ==
  LET order == <<"pending", "conflict", "provisional", "unverified_native", "unassessed">>
  IN  order[Min({i \in DOMAIN order : order[i] \in reasons})]

\* _point_day: what the verified hours of a day sum up to.
PointDay(v, start, stop, verified, reasons) ==
  IF verified # {}
  THEN Bucket(start, stop, "partial", Total(v.native, verified), None)
  ELSE Bucket(start, stop, Absent(reasons), None, None)

\* _legacy_value: the legacy day of k, if it had ended.
Fallback(v, q, k) ==
  {d \in v.days : q = Adopted /\ d.day = k /\ First(k + 1, v.zone) <= v.req.at}

\* _day: the points of a complete day, or one legacy day, or what there is.
DayBucket(v, q, k) ==
  LET start    == Most(v.req.start, First(k, v.zone))
      stop     == Least(v.req.end, First(k + 1, v.zone))
      included == start .. stop - 1
      reasons  == {Reason(v, q, h) : h \in included}
      verified == {h \in included : Reason(v, q, h) = "ready"}
      whole    == included = Whole(k, v.zone)
      points   == PointDay(v, start, stop, verified, reasons)
  IN  IF whole /\ verified = included
      THEN Bucket(start, stop, "ready", points.value, points.value)
      ELSE IF whole /\ Fallback(v, q, k) # {} /\ reasons \cap {"pending", "conflict"} = {}
      THEN LET d == CHOOSE d \in Fallback(v, q, k) : TRUE
           IN  Bucket(start, stop, "legacy_day", d.amount, d.amount)
      ELSE points

\* _series
Series(v, q) ==
  IF v.req.period = "hour"
  THEN [i \in 1 .. v.req.end - v.req.start |-> HourBucket(v, q, v.req.start + i - 1)]
  ELSE LET first == DayOf(v.req.start, v.zone)
       IN  [i \in 1 .. DayOf(v.req.end - 1, v.zone) - first + 1 |-> DayBucket(v, q, first + i - 1)]

\* The complete total of _summary.
Complete(v, q) ==
  LET s == Series(v, q)
  IN  IF \E i \in DOMAIN s : s[i].total = None THEN None
      ELSE FoldSet(LAMBDA i, n : n + s[i].total, 0, DOMAIN s)

Each(v) == Len(Series(v, Quantities[1]))
All(v)  == Each(v) * Len(Quantities)

\* _page: the buckets from offset to stop, over all quantities.
Page(v, offset, stop) ==
  FlattenSeq([i \in 1..Len(Quantities) |->
     LET cursor == (i - 1) * Each(v)
     IN  IF offset < cursor + Each(v) /\ stop > cursor
         THEN SubSeq(Series(v, Quantities[i]), Most(0, offset - cursor) + 1,
                     Least(Each(v), stop - cursor))
         ELSE <<>>])

----------------------------------------------------------------------------
(* The caller reads its pages.                                             *)

NoQuery == [pc |-> "idle", token |-> None, seen |-> None, got |-> <<>>]

Answered(v, token, seen, got, size) ==
  LET offset == Len(got)
      stop   == Least(All(v), offset + size)
  IN  query' = [pc |-> IF stop < All(v) THEN "reading" ELSE "done",
                token |-> token, seen |-> seen, got |-> got \o Page(v, offset, stop)]

\* The first page is evaluated now, or at a moment the caller names.
Ask(r, at, size) ==
  /\ query = NoQuery
  /\ at <= now
  /\ LET v == View([period |-> r.period, start |-> r.start, end |-> r.end, at |-> at])
     IN  Answered(v, Token(v), v, <<>>, size)
  /\ UNCHANGED <<now, zone, evidence, legacy, amount, changes>>

\* A further page repeats the request; a view that changed is refused.
More(size) ==
  /\ query.pc = "reading"
  /\ LET v == View(query.seen.req)
     IN  IF Token(v) = query.token
         THEN Answered(v, query.token, query.seen, query.got, size)
         ELSE query' = [NoQuery EXCEPT !.pc = "refused"]
  /\ UNCHANGED <<now, zone, evidence, legacy, amount, changes>>

----------------------------------------------------------------------------
(* The world.                                                              *)

\* The daily rows of the import that came last; a day may have none.
Rows(z, until, missing) ==
  {[at |-> First(k, z), sum |-> Total(Worth, 0 .. Least(First(k + 1, z), until) - 1)] :
     k \in {k \in 0 .. DayOf(until - 1, z) : k # missing}}

Init ==
  /\ zone \in Zones
  /\ \E s \in Starts :
       /\ now = s.at /\ imported = s.imported
       /\ adoption = [at |-> s.at, zone |-> zone]
       /\ sums = Rows(zone, s.imported, s.missing)
       /\ proof = [h \in Hour |-> IF h \in s.proven THEN Worth[h] ELSE None]
  /\ native = proof
  /\ amount = Worth
  /\ revision = 1 /\ pending = {} /\ held = {}
  /\ query = NoQuery
  /\ changes = 0

\* Nothing more is of interest when the caller has its answer.
Open == query.pc \in {"idle", "reading"}
Changing == Open /\ changes < MaxChanges /\ changes' = changes + 1

\* An operation for one hour: of new evidence, or of a correction of it.
Accept(h) ==
  /\ Changing /\ pending = {} /\ h < now
  /\ \/ UNCHANGED amount
     \/ amount' = [amount EXCEPT ![h] = 0]
  /\ pending' = {h} /\ revision' = revision + 1
  /\ UNCHANGED <<now, zone, held, proof, native, legacy, query>>

\* Its rows are verified and its proof is published.
Commit ==
  /\ Open /\ pending # {}
  /\ native' = [h \in Hour |-> IF h \in pending THEN amount[h] ELSE native[h]]
  /\ proof'  = [h \in Hour |-> IF h \in pending THEN amount[h] ELSE proof[h]]
  /\ held' = held \ pending /\ pending' = {} /\ revision' = revision + 1
  /\ UNCHANGED <<now, zone, legacy, query, amount, changes>>

\* A pass finds the sources of an hour in conflict.
Hold(h) ==
  /\ Changing /\ pending = {} /\ h \notin held /\ h < now
  /\ held' = held \cup {h} /\ revision' = revision + 1
  /\ UNCHANGED <<now, zone, pending, proof, native, legacy, query, amount>>

\* Somebody else removes or replaces an hourly row.
ForeignEdit(h) ==
  /\ Changing /\ h < now
  /\ \E row \in {None, 1} : native' = [native EXCEPT ![h] = row]
  /\ UNCHANGED <<now, zone, revision, pending, held, proof, legacy, query, amount>>

MoveTimeZone ==
  /\ Changing
  /\ zone' \in Zones \ {zone}
  /\ UNCHANGED <<now, evidence, legacy, query, amount>>

Tick ==
  /\ Changing /\ now < MaxTime
  /\ now' = now + 1
  /\ UNCHANGED <<zone, evidence, legacy, query, amount>>

Next ==
  \/ \E r \in Requests, at \in now - 1 .. now, size \in Sizes : Ask(r, at, size)
  \/ \E size \in Sizes : More(size)
  \/ \E h \in Hour : Accept(h) \/ Hold(h) \/ ForeignEdit(h)
  \/ Commit \/ MoveTimeZone \/ Tick

Spec == Init /\ [][Next]_vars

----------------------------------------------------------------------------
(***************************************************************************)
(* "The producer rejects changed views rather than combining revisions":   *)
(* the pages a caller has joined are the beginning of the one answer that  *)
(* a single page would have been when it asked first, none lost, repeated  *)
(* or from another view, and all of it at the end.                         *)
(***************************************************************************)
PagesAreOneView ==
  query.pc \in {"reading", "done"} =>
    LET whole == FlattenSeq([i \in 1..Len(Quantities) |-> Series(query.seen, Quantities[i])])
    IN  /\ query.got = SubSeq(whole, 1, Len(query.got))
        /\ query.pc = "done" => Len(query.got) = Len(whole)

(***************************************************************************)
(* "complete_total is non-null only for a complete eligible day.  It never *)
(* adds legacy and points": a total that is called complete is the amount  *)
(* of all its hours, each once, none of them awaiting a replacement or in  *)
(* conflict, and a day's is one of the caller's local day.  A legacy day   *)
(* had ended when its quantity was adopted, and is as good as the daily    *)
(* writer's last import of it: one that it saw to its end says what the    *)
(* source said then.  (Of whatever the caller may ask first.)              *)
(***************************************************************************)
True(v, b) ==
  LET hours == b.from .. b.to - 1
  IN  /\ hours \cap (pending \cup held) = {}
      /\ v.req.period = "day" => hours = Whole(DayOf(b.from, zone), zone)
      /\ b.to <= v.req.at
      /\ IF b.reason # "legacy_day" THEN b.total = Total(amount, hours)
         ELSE /\ b.to <= adoption.at
              /\ b.to <= imported => b.total = Total(Worth, hours)

TotalsTrue ==
  query = NoQuery => \A r \in Requests, at \in now - 1 .. now :
    LET v == View([period |-> r.period, start |-> r.start, end |-> r.end, at |-> at])
        s == Series(v, Adopted)
        old == \E i \in DOMAIN s : s[i].reason = "legacy_day"
    IN  /\ \A i \in DOMAIN s : s[i].total # None => True(v, s[i])
        /\ Complete(v, Adopted) # None /\ ~old =>
             Complete(v, Adopted) = Total(amount, Span(v.req))
=============================================================================
