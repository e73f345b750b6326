--------------------------- MODULE MCEntryLifecycle ---------------------------
EXTENDS EntryLifecycle, TLC

CONSTANTS t1, t2, r1, r2, s1, s2, z1, z2

OneThermostat == {t1}
TwoThermostats == {t1, t2}
NoService == {}
TwoRequests   == {r1, r2}
TwoSlots      == {s1, s2}
OneService    == {r1}
OneSlot       == {s1}
OneZone       == {z1}
TwoZones      == {z1, z2}

(* The points of version 0 reach the boundaries of time 0 and not yet those *)
(* of time 1, version 1 has lost some of them, and version 2 has them all. *)
Reaching == {<<0, 0>>, <<2, 0>>, <<2, 1>>}
Recovering == {<<p[1], p[2], z>> : p \in Reaching, z \in Zones}

(* The summary shows version 1, and then again what it showed of version 0. *)
BackAndForth == [v \in 0..MaxSource |-> IF v = 1 THEN "corrected" ELSE "first"]

Alike == Permutations(Thermostats) \cup Permutations(Slots)
         \cup Permutations(Requests \ Services) \cup Permutations(Zones)
=============================================================================
