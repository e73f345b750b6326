--------------------------- MODULE MCDailyImport ---------------------------
(***************************************************************************)
(* The instances of DailyImport that TLC checks.  One plain statistic and  *)
(* one stage; three days and an overlap of one day are the least history   *)
(* with a seed, a window and a day a later pass adds.  Days are two        *)
(* instants long, so that two zones half a day apart have midnights of     *)
(* their own, west and east of each other.                                 *)
(***************************************************************************)
EXTENDS DailyImport

MCIds     == {"heat", "stage"}
MCStages  == {"stage"}
MCValues  == {0, 1}

OneConfig == {MCIds}
AllOrNone == {MCIds, {}}

TwoZones == {0, 1}

(* A day as it is first reported: the stage is seen by a correction only,  *)
(* or from the first day on.                                               *)
StageHidden == {[id \in MCIds |-> IF id \in Stages THEN 0 ELSE 1]}
StageShown  == {[id \in MCIds |-> 1]}
=============================================================================
