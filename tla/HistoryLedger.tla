---------------------------- MODULE HistoryLedger ----------------------------
(***************************************************************************)
(* What the hourly journal promises a reader of hourly history, whatever   *)
(* its saves, its runtimes and its Recorder writes do: every quantity/     *)
(* month shows the rows of one verified operation or nothing at all.       *)
(* Accepting an operation hides the windows it replaces; each reappears    *)
(* with that operation's rows once they are verified.  A window may be     *)
(* hidden again while its verification is in doubt, but rows that a later  *)
(* operation replaced are never shown again.                               *)
(***************************************************************************)
EXTENDS Integers

CONSTANTS Cells, MaxOps

VARIABLES current,   \* the operation accepted last, 0 for none
          visible    \* visible[c]: the operation whose rows are shown, or Hidden

Hidden == -1
Cell   == 1..Cells

LedgerInit == current = 0 /\ visible = [c \in Cell |-> 0]

Accept ==
  /\ \A c \in Cell : visible[c] # Hidden
  /\ \E o \in (current + 1)..MaxOps, k \in 0..Cells :
       /\ current' = o
       /\ visible' = [c \in Cell |-> IF c <= k THEN Hidden ELSE visible[c]]

Reveal ==
  \E c \in Cell : /\ visible[c] = Hidden
                  /\ visible' = [visible EXCEPT ![c] = current]
                  /\ UNCHANGED current

Withdraw ==
  \E c \in Cell : /\ visible[c] = current
                  /\ visible' = [visible EXCEPT ![c] = Hidden]
                  /\ UNCHANGED current

LedgerNext == Accept \/ Reveal \/ Withdraw

LedgerSpec == LedgerInit /\ [][LedgerNext]_<<current, visible>>
=============================================================================
