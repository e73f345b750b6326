-------------------------- MODULE MCHistoryJournal --------------------------
(***************************************************************************)
(* The instances of HistoryJournal that TLC checks.  Two cells give an     *)
(* operation of one batch, of two, and one that leaves a cell alone; two   *)
(* operations let a later one supersede an earlier; two managers let a     *)
(* reload meet the saves and rows its predecessor left behind; in the      *)
(* first generation a failure can hit the handling of another.             *)
(***************************************************************************)
EXTENDS HistoryJournalInvariant

MCCells     == 2
MCMaxOps    == 2
MCMaxGen    == 2
MCMaxFaults == 3

\* The smallest instance with an adoption that a restart interrupts.
OneCell    == 1
OneOp      == 1
NoFaults   == 0
=============================================================================
