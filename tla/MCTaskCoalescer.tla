-------------------------- MODULE MCTaskCoalescer --------------------------
(***************************************************************************)
(* The instance of TaskCoalescer that TLC checks: four requests make       *)
(* bursts meet a running pass, a resuming drain and an ended one; a        *)
(* startup import and a service call compete with the drain for the lock.  *)
(***************************************************************************)
EXTENDS TaskCoalescer

MCCallers == {"startup", "service"}
MCStartup == "startup"
=============================================================================
