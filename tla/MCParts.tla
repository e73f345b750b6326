------------------------------ MODULE MCParts ------------------------------
(***************************************************************************)
(* Small instances of the four parts.                                      *)
(***************************************************************************)
EXTENDS Parts

(***************************************************************************)
(* Links: two thermostats, a sensor built into A and a room sensor SR.  Of *)
(* two HomeKit thermostats h1 is known as an ecobee; the probes p1 and p2  *)
(* carry the serial x that h1 also publishes; only p1 exists at first.     *)
(* Users select climates and sources for the thermostats, and p1 for SA.   *)
(***************************************************************************)
MCParent == [s \in {"SA", "SR"} |-> IF s = "SA" THEN "A" ELSE None]
MCLabel  == [r \in {"A", "B", "SA", "SR"} |-> IF r \in {"A", "SR"} THEN "n1" ELSE "n2"]

MCProbeSerial == [p \in {"p1", "p2"} |-> "x"]

MCInitialAt ==
  [e \in {"c1", "c2", "t1", "t2", "p1", "p2"} |->
     CASE e \in {"c1", "t1"} -> "h1"
       [] e \in {"c2", "t2"} -> "h2"
       [] e = "p1"           -> "e1"
       [] OTHER              -> None]

MCInitialDev ==
  [d \in {"h1", "h2", "e1", "e2"} |->
     [name |-> "n1", serial |-> IF d = "h2" THEN None ELSE "x", on |-> TRUE]]

MCSelections ==
  {f \in [{"A", "B", "SA", "SR"} ->
            [climate: {None, "c1", "c2"}, temp: {None, "t1", "p1"}]] :
     /\ f["B"] \in [climate: {None, "c2"}, temp: {None, "p1"}]
     /\ f["SA"] \in [climate: {None}, temp: {None, "p1"}]
     /\ f["SR"] = Nothing}

(***************************************************************************)
(* Reads: a thermostat and a sensor whose thermostat is not named.  A pass *)
(* of one full window and each of its days bad; and a window and a half    *)
(* day, of which the thermostat has none, a moment, a part or all, with a  *)
(* bad interval or none and short responses or long ones.                  *)
(***************************************************************************)
MCResources == <<"thermostat", "sensor">>

MCSources ==
  [end : {480}, dataEnd : {480}, bad : {<<16 * k, 16 * k + 16>> : k \in 0..30}, limit : {480}]
  \cup [end : {488}, dataEnd : {-8, 0, 40, 500}, bad : {<<-1, -1>>, <<20, 30>>},
        limit : {480, 100, 10}]

(***************************************************************************)
(* Filter: three days of two slots of two units.  The fan runs before the  *)
(* first replacement, in the middle of a slot, and from the second day on. *)
(***************************************************************************)
MCFan == {2} \cup 4..10

(***************************************************************************)
(* Pages: days of two hours that begin at even or at odd hours, the fan    *)
(* adopted amid a day, nothing of it proven, or a day, or hours of two     *)
(* days; the daily writer's last import is two hours old or complete, with *)
(* or without the row of the first day.  Nothing else is adopted.  No two  *)
(* sets of hours are worth the same.                                       *)
(***************************************************************************)
MCQuantities == <<"fan", "aux">>

MCRequests ==
  {[period |-> "day", start |-> 2, end |-> 6], [period |-> "hour", start |-> 2, end |-> 5]}

MCStarts ==
  {[at |-> 5, imported |-> 3, missing |-> None, proven |-> {}],
   [at |-> 5, imported |-> 5, missing |-> None, proven |-> 2..3],
   [at |-> 5, imported |-> 5, missing |-> 0, proven |-> {2, 4}]}

MCWorth == [h \in 0..5 |-> 2 ^ h]
=============================================================================
