--------------------------- MODULE MCHistoryQuery ---------------------------
(***************************************************************************)
(* The instance of HistoryQuery that TLC checks.  Two cells let a query    *)
(* read one before and one after a change; one operation and two holds let *)
(* a hold be resolved and another meet a fence of the first; two faults    *)
(* let a crash or reload follow a failed or cancelled write.               *)
(***************************************************************************)
EXTENDS HistoryQuery
=============================================================================
