------------------------- MODULE MCHistoryEvidence -------------------------
(***************************************************************************)
(* The instance of HistoryEvidence that TLC checks.  Two days of one hour  *)
(* of two slots: the routine window slides past the first day while its    *)
(* evidence is still corrected.  Two irregularities of the provider and    *)
(* one reviewed plan meet up to four later acquisitions.                   *)
(***************************************************************************)
EXTENDS HistoryEvidence

CONSTANTS v1, v2
MCValues == {v1, v2}
=============================================================================
