----------------------------- MODULE PointReads -----------------------------
(***************************************************************************)
(* The point reads of one import pass: the windows of a thermostat and its *)
(* sensors, the client's retries, the bisection of windows that fail and   *)
(* the budget of consecutive failures (importer._async_read_runtime_window,*)
(* import_support, import_evidence, api._async_call_raw).                  *)
(*                                                                         *)
(* Time is counted from the first local midnight of the pass in units of   *)
(* which Day make a day; a window becomes shorter than a day before it is  *)
(* as short as a unit.  A request is inclusive at both ends.  The rows are *)
(* left out: a window is returned or it is not.  So is which resources an  *)
(* import selects.                                                         *)
(***************************************************************************)
EXTENDS Integers, Sequences, FiniteSets, SequencesExt

CONSTANTS
  Resources,    \* the resources in the order they are read
  Unmapped,     \* those whose thermostat the cached rows do not name
  Day,
  WindowDays,   \* MAX_WINDOW_DAYS
  Retries,      \* attempts of the client at one request
  Budget,       \* MAX_TRANSIENT_WINDOW_FAILURES
  Sources,      \* what the source may be like: [end, dataEnd, bad, limit]
  MaxFaults     \* bound: outages, failures and refusals beside those

VARIABLES
  source,       \* end of the pass, thermostat's data_end, an interval that the
                \* source cannot serve, the longest window it can send
  down,         \* whether the source is out
  todo,         \* windows still to be read, in order
  attempt,
  streak,       \* transient_failure_count
  outcome,      \* windows returned (got) or recorded as skipped
  result,       \* of the pass
  silent,       \* failed attempts since the source last answered
  faults

vars == <<source, down, todo, attempt, streak, outcome, result, silent, faults>>

Width    == WindowDays * Day
Order    == 1..Len(Resources)
Least(a, b) == IF a < b THEN a ELSE b

----------------------------------------------------------------------------
(* Windows.                                                                *)

Cap(r) == IF r \in Unmapped THEN source.end ELSE Least(source.end, source.dataEnd)

\* _iter_windows: a resource whose data ends before the pass starts has none.
Windows(r) ==
  LET count == IF Cap(r) < 0 THEN 0 ELSE IF Cap(r) = 0 THEN 1
               ELSE (Cap(r) + Width - 1) \div Width
  IN  [i \in 1..count |-> [of |-> r, from |-> (i - 1) * Width,
                           to |-> Least(i * Width, Cap(r))]]

Bad(w) == w.from < source.bad[2] /\ w.to >= source.bad[1]

Init ==
  /\ source \in Sources
  /\ down = FALSE
  /\ todo = FlattenSeq([i \in Order |-> Windows(Resources[i])])
  /\ attempt = 1
  /\ streak = 0
  /\ outcome = {}
  /\ result = "reading"
  /\ silent = 0
  /\ faults = 0

----------------------------------------------------------------------------
(* One request.                                                            *)

Reading == result = "reading" /\ todo # <<>>
Window  == Head(todo)
Log(got) == outcome' = outcome \cup {[of |-> Window.of, from |-> Window.from,
                                      to |-> Window.to, got |-> got]}

Fault == faults < MaxFaults /\ faults' = faults + 1

\* Mutant: one budget for the whole pass.
StreakKept == streak' = streak
StreakOver == streak' = 0

\* The rows arrive: the source is up, and the failures before do not count.
Answer ==
  /\ Reading /\ ~down /\ ~Bad(Window) /\ Window.to - Window.from <= source.limit
  /\ Log(TRUE)
  /\ todo' = Tail(todo)
  /\ attempt' = 1 /\ StreakOver /\ silent' = 0
  /\ UNCHANGED <<source, down, result, faults>>

Middle(w) == w.from + (w.to - w.from) \div 2

\* Mutant: the halves do not meet.
HalvesApart(w) == <<[w EXCEPT !.to = Middle(w) - 1], [w EXCEPT !.from = Middle(w)]>>
Halves(w) == <<[w EXCEPT !.to = Middle(w)], [w EXCEPT !.from = Middle(w)]>>

\* Read a failed window in halves; a short one is skipped and recorded.
Narrow ==
  IF Window.to - Window.from > Day
  THEN todo' = Halves(Window) \o Tail(todo) /\ UNCHANGED outcome
  ELSE todo' = Tail(todo) /\ Log(FALSE)

\* The response exceeds the size limit: no retry, and no failure of the source.
TooLarge ==
  /\ Reading /\ ~down /\ ~Bad(Window) /\ Window.to - Window.from > source.limit
  /\ Narrow
  /\ attempt' = 1 /\ silent' = 0
  /\ UNCHANGED <<source, down, streak, result, faults>>

\* A timeout, a network or server error, or a response that makes no sense.
Fails ==
  /\ Reading
  /\ \/ (down \/ Bad(Window)) /\ UNCHANGED faults
     \/ Fault

Retry ==
  /\ Fails /\ attempt < Retries
  /\ attempt' = attempt + 1 /\ silent' = silent + 1
  /\ UNCHANGED <<source, down, todo, streak, outcome, result>>

\* The client's last attempt has failed; or the rows of a response make no sense,
\* which is found once the client's attempts are over.
GiveUp ==
  /\ Fails /\ (attempt = Retries \/ ~down)
  /\ attempt' = 1 /\ silent' = silent + 1 /\ streak' = streak + 1
  /\ IF streak' > Budget
     THEN result' = "failed" /\ UNCHANGED <<todo, outcome>>
     ELSE Narrow /\ UNCHANGED result
  /\ UNCHANGED <<source, down>>

\* Rejected credentials and permanent errors end the pass at once.
Refused ==
  /\ Reading /\ ~down /\ Fault
  /\ result' = "failed"
  /\ UNCHANGED <<source, down, todo, attempt, streak, outcome, silent>>

Finish ==
  /\ result = "reading" /\ todo = <<>>
  /\ result' = "read"
  /\ UNCHANGED <<source, down, todo, attempt, streak, outcome, silent, faults>>

Outage ==
  /\ Reading /\ ~down /\ Fault
  /\ down' = TRUE
  /\ UNCHANGED <<source, todo, attempt, streak, outcome, result, silent>>

Recover ==
  /\ down
  /\ down' = FALSE
  /\ UNCHANGED <<source, todo, attempt, streak, outcome, result, silent, faults>>

Next == \/ Answer \/ TooLarge \/ Retry \/ GiveUp \/ Refused \/ Finish \/ Outage \/ Recover

Spec == Init /\ [][Next]_vars

----------------------------------------------------------------------------
(***************************************************************************)
(* Every moment of every resource's window is in exactly one window that   *)
(* was returned, was recorded as skipped or is still to be read: no        *)
(* failure, retry or split loses or repeats one.                           *)
(***************************************************************************)
Accounted ==
  \A i \in Order :
    LET r == Resources[i]
        tiles == {[from |-> w.from, to |-> w.to] : w \in {w \in outcome \cup Range(todo) : w.of = r}}
    IN  Cap(r) >= 0 =>
          /\ \A p \in {0} \cup {w.to : w \in tiles} :
               p = Cap(r) \/ Cardinality({w \in tiles : w.from = p}) = 1
          /\ \A w \in tiles : w.from = 0 \/ \E v \in tiles : v.to = w.from

(***************************************************************************)
(* "A budget of consecutive failures keeps an outage from fanning out into *)
(* one retried request per bisected window": a source that does not answer *)
(* is asked so often and no more, whatever was left to read.               *)
(***************************************************************************)
OutageBounded == silent <= (Budget + 1) * Retries

(***************************************************************************)
(* "The budget must be at least 7 for that day to reach skip-with-evidence *)
(* (...); 8 leaves one spare": one bad day in full windows never ends the  *)
(* pass, and costs only the windows that touch it.                         *)
(***************************************************************************)
OneBadDaySkipped ==
  /\ faults = 0 /\ source.limit >= Width
  /\ \A i \in Order : Cap(Resources[i]) # 0 /\ Cap(Resources[i]) % Width = 0
  /\ source.bad[1] % Day = 0 /\ source.bad[2] = source.bad[1] + Day
  => /\ result # "failed"
     /\ \A w \in outcome : w.got \/ Bad(w)

\* The failure budget ends a pass in an outage, and not for one bad day.
BudgetFits == OutageBounded /\ OneBadDaySkipped
=============================================================================
