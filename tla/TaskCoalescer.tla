--------------------------- MODULE TaskCoalescer ---------------------------
(***************************************************************************)
(* Who asks for import passes, and what becomes of the requests.  The      *)
(* interval timer and the filter-date helpers ask through                  *)
(* CoalescingTaskScheduler, which drains one pending flag in one task; the *)
(* startup import, the services and the button call the importer directly. *)
(* All passes queue on the importer's lock, first come first served.       *)
(*                                                                         *)
(* A pass runs in a task of its own that the drain awaits, so the lock is  *)
(* free, and perhaps taken by somebody else, before the drain resumes.     *)
(* Tasks start eagerly: a pass that raises before its first await is over  *)
(* before schedule() returns, and the drain with it.                       *)
(***************************************************************************)
EXTENDS Integers, Sequences

CONSTANTS
  Callers,      \* tasks that run a pass directly
  Startup,      \* the one that async_setup_entry creates
  MaxRequests   \* bound: requests in one behaviour

Drain  == "drain"
Nobody == "nobody"
Actors == Callers \union {Drain}

ASSUME CallersAssumption == Startup \in Callers /\ {Drain, Nobody} \cap Callers = {}
ASSUME RequestsAssumption == MaxRequests \in Nat

VARIABLES
  pending,   \* CoalescingTaskScheduler._pending
  task,      \* its _task: awaiting a pass, about to resume from one, over
  asked,     \* requests made so far
  seen,      \* the requests made before the latest scheduled pass began
  begun,     \* scheduled passes begun so far
  holder,    \* who holds the importer's lock
  waiters,   \* who waits for it
  open       \* the entry is set up

scheduler == <<pending, task, asked, seen, begun>>
lock == <<holder, waiters>>
vars == <<pending, task, asked, seen, begun, holder, waiters, open>>

TypeOK ==
  /\ pending \in BOOLEAN
  /\ task \in {"none", "pass", "resume", "done"}
  /\ asked \in 0..MaxRequests
  /\ seen \in 0..MaxRequests
  /\ begun \in Nat
  /\ holder \in Actors \union {Nobody}
  /\ waiters \in Seq(Actors)
  /\ open \in BOOLEAN
  /\ ~open => task = "none" /\ holder = Nobody /\ waiters = <<>>

Init ==
  /\ pending = FALSE
  /\ task = "none"
  /\ asked = 0
  /\ seen = 0
  /\ begun = 0
  /\ holder = Startup
  /\ waiters = <<>>
  /\ open = TRUE

(***************************************************************************)
(* The importer's lock.  A woken waiter keeps its place until it runs, so  *)
(* a release and the hand-over to the first waiter are one step.           *)
(***************************************************************************)
Waiting(a) == \E i \in 1..Len(waiters) : waiters[i] = a

Acquire(a) ==
  IF holder = Nobody
  THEN holder' = a /\ UNCHANGED waiters
  ELSE waiters' = Append(waiters, a) /\ UNCHANGED holder

Release ==
  IF waiters = <<>>
  THEN holder' = Nobody /\ UNCHANGED waiters
  ELSE holder' = Head(waiters) /\ waiters' = Tail(waiters)

(***************************************************************************)
(* The scheduler                                                           *)
(***************************************************************************)
\* Mutants: bugs the properties must see.
LiveWhilePresent  == task # "none"
LiveNever         == FALSE
TurnKeepingPending(n, over) ==
  /\ pending' = (over = "none")
  /\ seen' = n
  /\ begun' = begun + 1
  /\ \/ task' = "pass" /\ Acquire(Drain)
     \/ holder = Nobody /\ task' = over /\ UNCHANGED lock

Live == task \in {"pass", "resume"}

\* One turn of the drain's loop up to run()'s first await.  run() catches what
\* the pass raises; over is what the task is when that ends the drain, n the
\* number of requests made by then.
Turn(n, over) ==
  /\ pending' = FALSE
  /\ seen' = n
  /\ begun' = begun + 1
  /\ \/ task' = "pass" /\ Acquire(Drain)
     \/ holder = Nobody /\ task' = over /\ UNCHANGED lock

Schedule ==
  /\ open
  /\ asked < MaxRequests
  /\ asked' = asked + 1
  /\ IF Live
     THEN pending' = TRUE /\ UNCHANGED <<task, seen, begun, lock>>
     ELSE Turn(asked + 1, "done")
  /\ UNCHANGED open

DrainResumes ==
  /\ task = "resume"
  /\ IF pending
     THEN Turn(asked, "none")
     ELSE task' = "none" /\ UNCHANGED <<pending, seen, begun, lock>>
  /\ UNCHANGED <<asked, open>>

DirectCall(c) ==
  /\ open
  /\ holder # c
  /\ ~Waiting(c)
  /\ Acquire(c)
  /\ UNCHANGED <<scheduler, open>>

\* Mutant: the flag is cleared after the pass instead of before it.
PassEndsClearing ==
  /\ holder # Nobody
  /\ Release
  /\ task' = IF holder = Drain THEN "resume" ELSE task
  /\ pending' = (holder # Drain /\ pending)
  /\ UNCHANGED <<asked, seen, begun, open>>

PassEnds ==
  /\ holder # Nobody
  /\ Release
  /\ task' = IF holder = Drain THEN "resume" ELSE task
  /\ UNCHANGED <<pending, asked, seen, begun, open>>

\* Unloading cancels every task of the entry; the drain's finally clears _task.
Unload ==
  /\ open
  /\ open' = FALSE
  /\ task' = "none"
  /\ holder' = Nobody
  /\ waiters' = <<>>
  /\ UNCHANGED <<pending, asked, seen, begun>>

\* A new scheduler and importer.  The startup import reconciles what the old
\* scheduler was still asked for.
SetUp ==
  /\ ~open
  /\ open' = TRUE
  /\ pending' = FALSE
  /\ task' = "none"
  /\ seen' = asked
  /\ holder' = Startup
  /\ waiters' = <<>>
  /\ UNCHANGED <<asked, begun>>

Next ==
  \/ Schedule
  \/ DrainResumes
  \/ \E c \in Callers : DirectCall(c)
  \/ PassEnds
  \/ Unload
  \/ SetUp

Spec == Init /\ [][Next]_vars

\* The event loop resumes the drain, and every pass ends: each of its network
\* requests has a timeout and Recorder answers.  Nobody need ask or call.
FairSpec == Spec /\ WF_vars(DrainResumes) /\ WF_vars(PassEnds)

(***************************************************************************)
(* Properties                                                              *)
(***************************************************************************)
\* A drain is alive: what Live must say.
Draining == task \in {"pass", "resume"}

\* A request made after the latest scheduled pass began is never dropped: the
\* flag is up and a drain that will look at it is alive (schedule, _async_drain).
RequestRetained == open /\ seen < asked => Draining /\ pending

\* A burst costs one follow-up: a scheduled pass only begins for a request that the
\* scheduled pass before it began too early to answer, and it answers every request
\* made until then, so that no request has a second pass.
Coalesced == [][begun' # begun => seen < asked']_vars

\* The scheduler never has two passes queued or running, and its lone pass is
\* where _task says it is.
OnePass ==
  /\ holder = Drain \/ Waiting(Drain) => task = "pass"
  /\ holder = Drain => ~Waiting(Drain)
  /\ \A i, j \in 1..Len(waiters) :
       waiters[i] = Drain /\ waiters[j] = Drain => i = j

\* Every request is followed by the start of a pass, however many direct callers
\* compete for the lock and however many passes fail, unless the entry unloads.
EveryRequestServed ==
  \A n \in 1..MaxRequests : (asked >= n) ~> (seen >= n \/ ~open)
=============================================================================
