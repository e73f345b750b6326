------------------------ MODULE TaskCoalescerProofs ------------------------
(***************************************************************************)
(* No import request is dropped, no scheduled pass begins without one that *)
(* the pass before it did not answer, and the scheduler has at most one    *)
(* pass in the lock's queue: for any number of requests and of direct      *)
(* callers.  What a raised flag announces, the other two properties and    *)
(* the type invariant are inductive together.                              *)
(***************************************************************************)
EXTENDS TaskCoalescer, SequenceTheorems, TLAPS

\* The raised flag of a drain stands for a request that its pass does not answer.
FlagIsNews == Draining /\ pending => seen < asked

\* Nobody answers what was not asked.
SeenWasAsked == seen <= asked

Inv == TypeOK /\ RequestRetained /\ FlagIsNews /\ SeenWasAsked /\ OnePass

\* A release hands the lock to the first waiter, or to nobody.
LEMMA ReleaseShifts ==
  ASSUME TypeOK, Release
  PROVE  /\ waiters' \in Seq(Actors)
         /\ holder' \in Actors \union {Nobody}
         /\ \/ holder' = Nobody /\ Len(waiters') = 0
            \/ /\ Len(waiters) > 0
               /\ holder' = waiters[1]
               /\ Len(waiters') = Len(waiters) - 1
               /\ \A i \in 1..Len(waiters') : waiters'[i] = waiters[i + 1]
  <1>1. CASE waiters = <<>>
    BY <1>1 DEF Release, TypeOK
  <1>2. CASE waiters # <<>>
    <2>1. holder' = Head(waiters) /\ waiters' = Tail(waiters)
      BY <1>2 DEF Release
    <2>2. waiters \in Seq(Actors) /\ Len(waiters) > 0
      BY <1>2, EmptySeq DEF TypeOK
    <2> QED
      BY <2>1, <2>2, HeadTailProperties
  <1> QED
    BY <1>1, <1>2

\* Whoever acquires the lock holds it or is its last waiter.
LEMMA AcquireAppends ==
  ASSUME TypeOK, NEW a \in Actors, Acquire(a)
  PROVE  /\ waiters' \in Seq(Actors)
         /\ holder' \in Actors \union {Nobody}
         /\ \/ holder = Nobody /\ holder' = a /\ waiters' = waiters
            \/ /\ holder' = holder
               /\ Len(waiters') = Len(waiters) + 1
               /\ \A i \in 1..Len(waiters) : waiters'[i] = waiters[i]
               /\ waiters'[Len(waiters) + 1] = a
  <1>1. CASE holder = Nobody
    BY <1>1 DEF Acquire, TypeOK
  <1>2. CASE holder # Nobody
    <2>1. waiters' = Append(waiters, a) /\ holder' = holder
      BY <1>2 DEF Acquire
    <2>2. waiters \in Seq(Actors)
      BY DEF TypeOK
    <2> QED
      BY <2>1, <2>2, AppendProperties DEF TypeOK
  <1> QED
    BY <1>1, <1>2

\* The drain may queue a pass whenever it has none queued.
LEMMA DrainQueues ==
  ASSUME Inv, task # "pass", Acquire(Drain), task' = "pass"
  PROVE  OnePass'
  <1>1. Drain \in Actors /\ Drain # Nobody
    BY CallersAssumption DEF Actors, Drain, Nobody
  <1>2. holder # Drain /\ \A i \in 1..Len(waiters) : waiters[i] # Drain
    BY DEF Inv, OnePass, Waiting
  <1>3. waiters \in Seq(Actors) /\ Len(waiters) \in Nat
    BY LenProperties DEF Inv, TypeOK
  <1>4. CASE holder = Nobody
    BY <1>2, <1>4 DEF Acquire, OnePass, Waiting
  <1>5. CASE holder # Nobody
    <2>1. /\ holder' = holder
          /\ Len(waiters') = Len(waiters) + 1
          /\ \A i \in 1..Len(waiters) : waiters'[i] = waiters[i]
      BY <1>1, <1>5, AcquireAppends DEF Inv
    <2>2. \A i \in 1..Len(waiters') : waiters'[i] = Drain => i = Len(waiters')
      BY <1>2, <1>3, <2>1
    <2> QED
      BY <1>2, <2>1, <2>2 DEF OnePass, Waiting
  <1> QED
    BY <1>4, <1>5

\* A turn of the drain leaves at most one scheduled pass behind.
LEMMA TurnKeepsOnePass ==
  ASSUME Inv, task # "pass", NEW n \in 0..MaxRequests,
         NEW over \in {"none", "done"}, Turn(n, over), open' = open, open
  PROVE  /\ OnePass'
         /\ waiters' \in Seq(Actors)
         /\ holder' \in Actors \union {Nobody}
         /\ task' \in {"pass", over}
  <1>1. Drain \in Actors
    BY DEF Actors
  <1>2. CASE task' = "pass" /\ Acquire(Drain)
    BY <1>1, <1>2, DrainQueues, AcquireAppends DEF Inv
  <1>3. CASE holder = Nobody /\ task' = over /\ UNCHANGED lock
    BY <1>3 DEF lock, Inv, OnePass, Waiting, TypeOK
  <1> QED
    BY <1>2, <1>3 DEF Turn

LEMMA InvInit == Init => Inv
  <1> SUFFICES ASSUME Init PROVE Inv
    OBVIOUS
  <1>1. Startup # Drain /\ Startup \in Actors
    BY CallersAssumption DEF Actors
  <1>2. TypeOK
    <2>1. 0 \in 0..MaxRequests /\ 0 \in Nat
      BY RequestsAssumption
    <2>2. waiters \in Seq(Actors)
      BY EmptySeq DEF Init
    <2> QED
      BY <1>1, <2>1, <2>2 DEF Init, TypeOK
  <1>3. OnePass
    BY <1>1 DEF Init, OnePass, Waiting
  <1> QED
    BY <1>2, <1>3, RequestsAssumption DEF Init, Inv, RequestRetained, FlagIsNews, SeenWasAsked, Draining

LEMMA InvSchedule == Inv /\ Schedule => Inv'
  <1> SUFFICES ASSUME Inv, Schedule PROVE Inv'
    OBVIOUS
  <1>1. asked' \in 0..MaxRequests /\ asked' = asked + 1 /\ open /\ open' = open
    BY RequestsAssumption DEF Schedule, Inv, TypeOK
  <1>2. CASE Live
    <2>1. pending' = TRUE /\ UNCHANGED <<task, seen, begun, lock>>
      BY <1>2 DEF Schedule
    <2>2. TypeOK'
      BY <1>1, <2>1 DEF Inv, TypeOK, lock
    <2>3. OnePass'
      BY <2>1 DEF Inv, OnePass, Waiting, lock
    <2>4. RequestRetained'
      BY <1>2, <2>1 DEF RequestRetained, Draining, Live
    <2>5. FlagIsNews' /\ SeenWasAsked'
      BY <1>1, <2>1 DEF Inv, TypeOK, FlagIsNews, SeenWasAsked, Draining
    <2> QED
      BY <2>2, <2>3, <2>4, <2>5 DEF Inv
  <1>3. CASE ~Live
    <2>1. Turn(asked + 1, "done") /\ task # "pass"
      BY <1>3 DEF Schedule, Live
    <2>2. pending' = FALSE /\ seen' = asked' /\ begun' = begun + 1
      BY <1>1, <2>1 DEF Turn
    <2>3. /\ OnePass' /\ waiters' \in Seq(Actors)
          /\ holder' \in Actors \union {Nobody} /\ task' \in {"pass", "done"}
      BY <1>1, <2>1, TurnKeepsOnePass
    <2>4. TypeOK'
      <3>1. begun' \in Nat /\ seen' \in 0..MaxRequests /\ asked' \in 0..MaxRequests
        BY <1>1, <2>2 DEF Inv, TypeOK
      <3> QED
        BY <1>1, <2>2, <2>3, <3>1 DEF TypeOK
    <2>5. RequestRetained'
      BY <1>1, <2>2 DEF RequestRetained
    <2>6. FlagIsNews' /\ SeenWasAsked'
      BY <1>1, <1>3, <2>2 DEF Inv, TypeOK, FlagIsNews, SeenWasAsked, Draining, Live
    <2> QED
      BY <2>3, <2>4, <2>5, <2>6 DEF Inv
  <1> QED
    BY <1>2, <1>3

LEMMA InvDrainResumes == Inv /\ DrainResumes => Inv'
  <1> SUFFICES ASSUME Inv, DrainResumes PROVE Inv'
    OBVIOUS
  <1>1. task = "resume" /\ asked' = asked /\ open' = open /\ open
    BY DEF DrainResumes, Inv, TypeOK
  <1>2. CASE pending
    <2>1. Turn(asked, "none")
      BY <1>2 DEF DrainResumes
    <2>2. pending' = FALSE /\ seen' = asked' /\ begun' = begun + 1
      BY <1>1, <2>1 DEF Turn
    <2>3. /\ OnePass' /\ waiters' \in Seq(Actors)
          /\ holder' \in Actors \union {Nobody} /\ task' \in {"pass", "none"}
      BY <1>1, <2>1, TurnKeepsOnePass DEF Inv, TypeOK
    <2>4. TypeOK'
      <3>1. begun' \in Nat /\ seen' \in 0..MaxRequests /\ asked' \in 0..MaxRequests
        BY <1>1, <2>2 DEF Inv, TypeOK
      <3> QED
        BY <1>1, <2>2, <2>3, <3>1 DEF TypeOK
    <2>5. RequestRetained' /\ FlagIsNews' /\ SeenWasAsked'
      BY <1>1, <1>2, <2>2 DEF Inv, TypeOK, RequestRetained, FlagIsNews, SeenWasAsked, Draining
    <2> QED
      BY <2>3, <2>4, <2>5 DEF Inv
  <1>3. CASE ~pending
    <2>1. task' = "none" /\ UNCHANGED <<pending, seen, begun, lock>>
      BY <1>3 DEF DrainResumes
    <2>2. TypeOK' /\ OnePass'
      BY <1>1, <2>1 DEF Inv, TypeOK, OnePass, Waiting, lock
    <2>3. RequestRetained' /\ FlagIsNews' /\ SeenWasAsked'
      BY <1>1, <1>3, <2>1 DEF Inv, TypeOK, RequestRetained, FlagIsNews, SeenWasAsked, Draining
    <2> QED
      BY <2>2, <2>3 DEF Inv
  <1> QED
    BY <1>2, <1>3

LEMMA InvDirectCall == ASSUME NEW c \in Callers PROVE Inv /\ DirectCall(c) => Inv'
  <1> SUFFICES ASSUME Inv, DirectCall(c) PROVE Inv'
    OBVIOUS
  <1>1. c \in Actors /\ c # Drain /\ c # Nobody
    BY CallersAssumption DEF Actors
  <1>2. UNCHANGED <<pending, task, asked, seen, begun, open>> /\ open /\ Acquire(c)
    BY DEF DirectCall, scheduler
  <1>3. TypeOK'
    BY <1>1, <1>2, AcquireAppends DEF Inv, TypeOK
  <1>4. OnePass'
    <2>1. CASE holder = Nobody
      BY <1>1, <1>2, <2>1 DEF Acquire, Inv, OnePass, Waiting
    <2>2. CASE holder # Nobody
      <3>1. /\ holder' = holder
            /\ Len(waiters') = Len(waiters) + 1
            /\ \A i \in 1..Len(waiters) : waiters'[i] = waiters[i]
            /\ waiters'[Len(waiters) + 1] = c
        BY <1>1, <1>2, <2>2, AcquireAppends DEF Inv
      <3>2. Len(waiters) \in Nat
        BY LenProperties DEF Inv, TypeOK
      <3>3. \A i \in 1..Len(waiters') :
              waiters'[i] = Drain => i \in 1..Len(waiters) /\ waiters[i] = Drain
        BY <1>1, <3>1, <3>2
      <3> QED
        BY <1>2, <3>1, <3>3 DEF Inv, OnePass, Waiting
    <2> QED
      BY <2>1, <2>2
  <1>5. RequestRetained' /\ FlagIsNews' /\ SeenWasAsked'
    BY <1>2 DEF Inv, RequestRetained, FlagIsNews, SeenWasAsked, Draining
  <1> QED
    BY <1>3, <1>4, <1>5 DEF Inv

LEMMA InvPassEnds == Inv /\ PassEnds => Inv'
  <1> SUFFICES ASSUME Inv, PassEnds PROVE Inv'
    OBVIOUS
  <1>1. /\ UNCHANGED <<pending, asked, seen, begun, open>> /\ holder # Nobody
        /\ Release /\ task' = IF holder = Drain THEN "resume" ELSE task
    BY DEF PassEnds
  <1>2. holder = Drain => task = "pass"
    BY DEF Inv, OnePass
  <1>3. open
    BY <1>1 DEF Inv, TypeOK
  <1>4. TypeOK'
    BY <1>1, <1>3, ReleaseShifts DEF Inv, TypeOK
  <1>5. RequestRetained' /\ FlagIsNews' /\ SeenWasAsked'
    BY <1>1, <1>2 DEF Inv, RequestRetained, FlagIsNews, SeenWasAsked, Draining
  <1>6. OnePass'
    <2>1. Len(waiters) \in Nat /\ Len(waiters') \in Nat
      BY <1>1, ReleaseShifts, LenProperties DEF Inv, TypeOK
    <2>2. CASE holder' = Nobody /\ Len(waiters') = 0
      BY <2>2 DEF OnePass, Waiting, Nobody, Drain
    <2>3. CASE /\ Len(waiters) > 0
               /\ holder' = waiters[1]
               /\ Len(waiters') = Len(waiters) - 1
               /\ \A i \in 1..Len(waiters') : waiters'[i] = waiters[i + 1]
      <3>1. holder' = Drain \/ Waiting(Drain)' => Waiting(Drain)
        BY <2>1, <2>3 DEF Waiting
      <3>2. Waiting(Drain) => task = "pass" /\ holder # Drain
        BY DEF Inv, OnePass
      <3>3. \A i, j \in 1..Len(waiters) :
              waiters[i] = Drain /\ waiters[j] = Drain => i = j
        BY DEF Inv, OnePass
      <3>4. \A i \in 1..Len(waiters') : /\ i + 1 \in 1..Len(waiters)
                                        /\ i + 1 # 1
                                        /\ waiters'[i] = waiters[i + 1]
        BY <2>1, <2>3
      <3>5. 1 \in 1..Len(waiters)
        BY <2>1, <2>3
      <3>6. holder' = Drain => ~Waiting(Drain)'
        BY <2>3, <3>3, <3>4, <3>5 DEF Waiting
      <3>7. ASSUME NEW i \in 1..Len(waiters'), NEW j \in 1..Len(waiters'),
                   waiters'[i] = Drain, waiters'[j] = Drain
            PROVE  i = j
        <4>1. i + 1 = j + 1
          BY <3>3, <3>7, <3>4
        <4> QED
          BY <2>1, <4>1
      <3> QED
        BY <1>1, <3>1, <3>2, <3>6, <3>7 DEF OnePass
    <2> QED
      BY <1>1, <2>2, <2>3, ReleaseShifts DEF Inv
  <1> QED
    BY <1>4, <1>5, <1>6 DEF Inv

LEMMA InvUnload == Inv /\ Unload => Inv'
  <1> SUFFICES ASSUME Inv, Unload PROVE Inv'
    OBVIOUS
  <1> USE DEF Unload
  <1>1. TypeOK'
    <2>1. waiters' \in Seq(Actors)
      BY EmptySeq
    <2> QED
      BY <2>1 DEF Inv, TypeOK
  <1>2. OnePass'
    BY DEF OnePass, Waiting, Drain, Nobody
  <1>3. RequestRetained' /\ FlagIsNews' /\ SeenWasAsked'
    BY DEF Inv, TypeOK, RequestRetained, FlagIsNews, SeenWasAsked, Draining
  <1> QED
    BY <1>1, <1>2, <1>3 DEF Inv

LEMMA InvSetUp == Inv /\ SetUp => Inv'
  <1> SUFFICES ASSUME Inv, SetUp PROVE Inv'
    OBVIOUS
  <1> USE DEF SetUp
  <1>1. Startup # Drain /\ Startup \in Actors
    BY CallersAssumption DEF Actors
  <1>2. TypeOK'
    BY <1>1 DEF Inv, TypeOK
  <1>3. OnePass'
    BY <1>1 DEF OnePass, Waiting
  <1>4. RequestRetained' /\ FlagIsNews' /\ SeenWasAsked'
    BY DEF Inv, TypeOK, RequestRetained, FlagIsNews, SeenWasAsked, Draining
  <1> QED
    BY <1>2, <1>3, <1>4 DEF Inv

\* The scheduler's bookkeeping is inductive.
THEOREM CoalescerInvariant == Spec => []Inv
  <1>1. Inv /\ [Next]_vars => Inv'
    <2> SUFFICES ASSUME Inv, [Next]_vars PROVE Inv'
      OBVIOUS
    <2>1. CASE Next
      BY <2>1, InvSchedule, InvDrainResumes, InvDirectCall, InvPassEnds,
         InvUnload, InvSetUp DEF Next
    <2>2. CASE UNCHANGED vars
      BY <2>2 DEF vars, Inv, TypeOK, RequestRetained, FlagIsNews, SeenWasAsked, OnePass,
         Waiting, Draining
    <2> QED
      BY <2>1, <2>2
  <1> QED
    BY InvInit, <1>1, PTL DEF Spec

\* CoalescingTaskScheduler never drops a request made while a pass runs, ends or
\* fails: a drain that will see it is alive.
THEOREM RequestsRetained == Spec => []RequestRetained
  BY CoalescerInvariant, PTL DEF Inv

\* A burst of requests costs one follow-up: no scheduled pass begins unless a request
\* was made since the one before it began.
THEOREM RequestsCoalesced == Spec => Coalesced
  <1>1. ASSUME Inv, [Next]_vars
        PROVE  begun' # begun => seen < asked'
    <2>1. CASE Schedule
      BY <1>1, <2>1 DEF Schedule, Inv, TypeOK, SeenWasAsked
    <2>2. CASE DrainResumes
      BY <1>1, <2>2 DEF DrainResumes, Inv, FlagIsNews, Draining
    <2>3. CASE ~Schedule /\ ~DrainResumes
      BY <1>1, <2>3 DEF Next, DirectCall, PassEnds, Unload, SetUp, scheduler, vars
    <2> QED
      BY <2>1, <2>2, <2>3
  <1> QED
    BY <1>1, CoalescerInvariant, PTL DEF Spec, Coalesced

\* At most one scheduled pass holds or waits for the importer's lock.
THEOREM OneScheduledPass == Spec => []OnePass
  BY CoalescerInvariant, PTL DEF Inv
=============================================================================
