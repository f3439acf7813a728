----------------------- MODULE SixPmScheduler_proofs -----------------------
(* For every set of times of day and every choice of fire times. *)
EXTENDS SixPmScheduler, TLAPS

(* An instant is a pair of numbers. *)
LEMMA InstantFields ==
  ASSUME NEW a \in Instant
  PROVE  /\ a = [day |-> a.day, time |-> a.time]
         /\ a.day \in Nat /\ a.time \in TimesOfDay /\ a.time \in Nat
<1>1. /\ a = [day |-> a.day, time |-> a.time]
      /\ a.day \in Nat /\ a.time \in TimesOfDay
  BY DEF Instant
<1>2. TimesOfDay \subseteq Nat
  BY SchedulerAssumption
<1> QED
  BY <1>1, <1>2

(* What has come due stays due as the clock moves on. *)
LEMMA DueStaysDue ==
  ASSUME NEW a \in Instant, NEW b \in Instant, NEW t \in Instant,
         Before(a, b), AtOrAfter(a, t)
  PROVE  AtOrAfter(b, t)
<1>1. /\ a.day \in Nat /\ a.time \in Nat
      /\ b.day \in Nat /\ b.time \in Nat
      /\ t.day \in Nat /\ t.time \in Nat
  BY InstantFields
<1> QED
  BY <1>1 DEF Before, AtOrAfter

(* What ComputeNextFire returns: an occurrence of f, still ahead, and not  *)
(* more than a day ahead.                                                  *)
LEMMA NextFireIsAhead ==
  ASSUME now \in Instant, NEW f \in FireTimes
  PROVE  /\ ComputeNextFire(f) \in Instant
         /\ ComputeNextFire(f).time = f
         /\ Before(now, ComputeNextFire(f))
         /\ AtOrAfter(NextDay(now), ComputeNextFire(f))
<1> DEFINE today == [now EXCEPT !.time = f]
<1>1. /\ now = [day |-> now.day, time |-> now.time]
      /\ now.day \in Nat /\ now.time \in TimesOfDay /\ now.time \in Nat
      /\ f \in TimesOfDay /\ f \in Nat
  BY InstantFields, SchedulerAssumption
<1>2. /\ today = [day |-> now.day, time |-> f]
      /\ NextDay(today) = [day |-> now.day + 1, time |-> f]
      /\ NextDay(now) = [day |-> now.day + 1, time |-> now.time]
  <2>1. today = [day |-> now.day, time |-> f]
    BY <1>1
  <2> HIDE DEF today
  <2>2. NextDay(today) = [day |-> now.day + 1, time |-> f]
    BY <2>1 DEF NextDay
  <2>3. NextDay(now) = [day |-> now.day + 1, time |-> now.time]
    BY <1>1 DEF NextDay
  <2> QED
    BY <2>1, <2>2, <2>3
<1>3. /\ today \in Instant /\ NextDay(today) \in Instant
  BY <1>1, <1>2 DEF Instant
<1> HIDE DEF today
<1>4. CASE Before(now, today)
  <2>1. ComputeNextFire(f) = today
    BY <1>4 DEF ComputeNextFire, today
  <2>2. AtOrAfter(NextDay(now), today)
    BY <1>1, <1>2 DEF Before, AtOrAfter
  <2> QED
    BY <1>2, <1>3, <1>4, <2>1, <2>2
<1>5. CASE ~Before(now, today)
  <2>1. ComputeNextFire(f) = NextDay(today)
    BY <1>5 DEF ComputeNextFire, today
  <2>2. Before(now, NextDay(today))
    BY <1>1, <1>2 DEF Before
  <2>3. AtOrAfter(NextDay(now), NextDay(today))
    BY <1>1, <1>2, <1>5 DEF Before, AtOrAfter
  <2> QED
    BY <1>2, <1>3, <2>1, <2>2, <2>3
<1> QED
  BY <1>4, <1>5

(* The variables keep their types. *)
THEOREM TypeCorrect == Spec => []TypeOK
<1>1. Init => TypeOK
  <2> SUFFICES ASSUME Init PROVE TypeOK
    OBVIOUS
  <2>1. now \in Instant
    BY SchedulerAssumption DEF Init, Instant
  <2> QED
    BY <2>1, NextFireIsAhead, SchedulerAssumption DEF Init, TypeOK, Instant, Never
<1>2. TypeOK /\ [Next]_vars => TypeOK'
  <2> SUFFICES ASSUME TypeOK, [Next]_vars PROVE TypeOK'
    OBVIOUS
  <2> USE DEF TypeOK
  <2>1. CASE ClockMoves
    BY <2>1, SchedulerAssumption DEF ClockMoves, Instant
  <2>2. CASE ClockIsSetBack
    BY <2>2, SchedulerAssumption DEF ClockIsSetBack, Instant
  <2>3. ASSUME NEW f \in FireTimes, SetFireTime(f) PROVE TypeOK'
    BY <2>3, NextFireIsAhead DEF SetFireTime
  <2>4. CASE TimerStep
    <3>1. Never \in Instant
      BY SchedulerAssumption DEF Never, Instant
    <3> QED
      BY <2>4, <3>1 DEF TimerStep, TickReads, TickFires, TickReturns
  <2>5. CASE FireStep
    BY <2>5, NextFireIsAhead DEF FireStep, FireRearms, FireEnds
  <2>6. CASE UNCHANGED vars
    BY <2>6 DEF vars
  <2> QED
    BY <2>1, <2>2, <2>3, <2>4, <2>5, <2>6 DEF Next
<1> QED
  BY <1>1, <1>2, PTL DEF Spec

(* SetFireTime on the UI thread and the re-arm at the end of a fire both   *)
(* write _nextFire; in whatever order, it is an occurrence of _fireTime.   *)
THEOREM ArmedForTheTimeInForce == Spec => []NextFireIsCurrent
<1>1. TypeOK /\ Init => NextFireIsCurrent
  BY NextFireIsAhead DEF Init, TypeOK, NextFireIsCurrent
<1>2. TypeOK /\ NextFireIsCurrent /\ [Next]_vars => NextFireIsCurrent'
  <2> SUFFICES ASSUME TypeOK, NextFireIsCurrent, [Next]_vars
               PROVE  NextFireIsCurrent'
    OBVIOUS
  <2> USE DEF TypeOK, NextFireIsCurrent
  <2>1. CASE ClockMoves \/ ClockIsSetBack
    BY <2>1 DEF ClockMoves, ClockIsSetBack
  <2>2. ASSUME NEW f \in FireTimes, SetFireTime(f) PROVE NextFireIsCurrent'
    BY <2>2, NextFireIsAhead DEF SetFireTime
  <2>3. CASE TimerStep
    BY <2>3 DEF TimerStep, TickReads, TickFires, TickReturns
  <2>4. CASE FireStep
    BY <2>4, NextFireIsAhead DEF FireStep, FireRearms, FireEnds
  <2>5. CASE UNCHANGED vars
    BY <2>5 DEF vars
  <2> QED
    BY <2>1, <2>2, <2>3, <2>4, <2>5 DEF Next
<1> QED
  BY <1>1, <1>2, TypeCorrect, PTL DEF Spec

(* Until the clock moves back, no save of the settings and no long fire    *)
(* puts the next log run off by more than a day.                           *)
THEOREM NeverPutOffByMoreThanADay ==
  Spec => []WithinADay
<1>1. TypeOK /\ Init => WithinADay
  BY NextFireIsAhead DEF Init, TypeOK, WithinADay
<1>2. TypeOK /\ TypeOK' /\ WithinADay /\ [Next]_vars => WithinADay'
  <2> SUFFICES ASSUME TypeOK, TypeOK', WithinADay, [Next]_vars
               PROVE  WithinADay'
    OBVIOUS
  <2> USE DEF TypeOK, WithinADay
  <2>1. CASE ClockMoves
    <3>1. Before(now, now') /\ nextFire' = nextFire /\ setBack' = setBack
      BY <2>1 DEF ClockMoves
    <3>2. /\ NextDay(now) \in Instant /\ NextDay(now') \in Instant
          /\ Before(NextDay(now), NextDay(now'))
      BY <3>1, SchedulerAssumption DEF Before, NextDay, Instant
    <3> QED
      BY <3>1, <3>2, DueStaysDue
  <2>2. CASE ClockIsSetBack
    BY <2>2 DEF ClockIsSetBack
  <2>3. ASSUME NEW f \in FireTimes, SetFireTime(f) PROVE WithinADay'
    BY <2>3, NextFireIsAhead DEF SetFireTime
  <2>4. CASE TimerStep
    BY <2>4 DEF TimerStep, TickReads, TickFires, TickReturns
  <2>5. CASE FireStep
    BY <2>5, NextFireIsAhead DEF FireStep, FireRearms, FireEnds
  <2>6. CASE UNCHANGED vars
    BY <2>6 DEF vars
  <2> QED
    BY <2>1, <2>2, <2>3, <2>4, <2>5, <2>6 DEF Next
<1> QED
  BY <1>1, <1>2, TypeCorrect, PTL DEF Spec

-----------------------------------------------------------------------------
(* Until the clock moves back: what is fired for is past; once a fire has re-armed, the target ahead   *)
(* has not been fired for; and a tick holds a target fired for only if it  *)
(* read it during that fire.                                               *)
OnceInv == ~setBack =>
  /\ \A t \in fired : AtOrAfter(now, t)
  /\ fire # "running" => nextFire \notin fired
  /\ tick = "seen" => tickNext \notin fired \/ tickNext \in overlap

LEMMA OnceInvHolds == Spec => []OnceInv
<1>1. Init => OnceInv
  BY DEF Init, OnceInv
<1>2. TypeOK /\ TypeOK' /\ OnceInv /\ [Next]_vars => OnceInv'
  <2> SUFFICES ASSUME TypeOK, TypeOK', OnceInv, [Next]_vars
               PROVE  OnceInv'
    OBVIOUS
  <2> USE DEF TypeOK, OnceInv
  <2>1. CASE ClockMoves
    <3>1. /\ Before(now, now')
          /\ UNCHANGED <<nextFire, fire, tick, tickNext, fired, overlap, setBack>>
      BY <2>1 DEF ClockMoves
    <3>2. ~setBack => \A t \in fired : AtOrAfter(now', t)
      BY <3>1, DueStaysDue
    <3> QED
      BY <3>1, <3>2
  <2>2. CASE ClockIsSetBack
    BY <2>2 DEF ClockIsSetBack
  <2>3. ASSUME NEW f \in FireTimes, SetFireTime(f) PROVE OnceInv'
    BY <2>3, NextFireIsAhead DEF SetFireTime, AtOrAfter
  <2>4. CASE TickReads
    BY <2>4 DEF TickReads
  <2>5. CASE TickFires
    BY <2>5 DEF TickFires
  <2>6. CASE TickReturns
    BY <2>6 DEF TickReturns
  <2>7. CASE FireRearms
    BY <2>7, NextFireIsAhead DEF FireRearms, AtOrAfter
  <2>8. CASE FireEnds
    BY <2>8 DEF FireEnds
  <2>9. CASE UNCHANGED vars
    BY <2>9 DEF vars
  <2> QED
    BY <2>1, <2>2, <2>3, <2>4, <2>5, <2>6, <2>7, <2>8, <2>9
       DEF Next, TimerStep, FireStep
<1> QED
  BY <1>1, <1>2, TypeCorrect, PTL DEF Spec

(* One fire per target, but for the tick that looked while the fire ran.   *)
THEOREM OneFirePerTarget ==
  Spec => TwiceOnlyIfReadDuringFire
<1>1. OnceInv /\ [Next]_vars =>
        [tick = "seen" /\ firing' /\ ~firing
           => tickNext \notin fired \/ tickNext \in overlap \/ setBack]_vars
  BY DEF OnceInv
<1> QED
  BY <1>1, OnceInvHolds, PTL DEF Spec, TwiceOnlyIfReadDuringFire
=============================================================================
