---------------------------- MODULE SixPmScheduler ----------------------------
(***************************************************************************)
(* The daily timer behind the auto-log: a one-minute poll on a timer       *)
(* thread, a fire time the user may change on the UI thread, and a fire    *)
(* that may run long.  An instant is a day and a time of day; the clock    *)
(* may jump (the machine sleeps), and may run ahead and be set back.       *)
(***************************************************************************)
EXTENDS Integers

CONSTANTS
  TimesOfDay,  \* the times of day the clock shows, 0 .. some n
  FireTimes,   \* the times the user may choose
  LastDay      \* bound: the clock stops here

ASSUME SchedulerAssumption ==
  /\ TimesOfDay \subseteq Nat
  /\ FireTimes \subseteq TimesOfDay
  /\ 0 \in TimesOfDay
  /\ LastDay \in Nat

Instant == [day : Nat, time : TimesOfDay]
Never == [day |-> 0, time |-> 0]

Before(a, b) == a.day < b.day \/ (a.day = b.day /\ a.time < b.time)
AtOrAfter(a, b) == ~Before(a, b)
NextDay(a) == [a EXCEPT !.day = @ + 1]

VARIABLES
  now,       \* Hcm.Now()
  fireTime,  \* _fireTime
  nextFire,  \* _nextFire
  firing,    \* _firing
  fire,      \* FireAsync: idle, running (in _onFire), rearmed (in finally)
  tick,      \* Tick: idle, or seen (has read _nextFire)
  tickNext,  \* the _nextFire it has read
  fired,     \* history: the targets a fire was started for
  overlap,   \* history: targets a tick has read while a fire was running
  skipped,   \* history: targets that came due and were re-armed past
  setBack    \* history: the clock was set back

vars == <<now, fireTime, nextFire, firing, fire, tick, tickNext, fired, overlap, skipped, setBack>>

TypeOK ==
  /\ now \in Instant
  /\ fireTime \in FireTimes
  /\ nextFire \in Instant
  /\ firing \in BOOLEAN
  /\ fire \in {"idle", "running", "rearmed"}
  /\ tick \in {"idle", "seen"}
  /\ tickNext \in Instant
  /\ fired \subseteq Instant
  /\ overlap \subseteq Instant
  /\ skipped \subseteq Instant
  /\ setBack \in BOOLEAN

(* Today if still ahead, else tomorrow. *)
ComputeNextFireTomorrow(f) == NextDay([now EXCEPT !.time = f])
ComputeNextFire(f) ==
  LET todayFire == [now EXCEPT !.time = f]
  IN  IF Before(now, todayFire) THEN todayFire ELSE NextDay(todayFire)

(* Start() *)
Init ==
  /\ now \in [day : {0}, time : TimesOfDay]
  /\ fireTime \in FireTimes
  /\ nextFire = ComputeNextFire(fireTime)
  /\ firing = FALSE
  /\ fire = "idle"
  /\ tick = "idle"
  /\ tickNext = Never
  /\ fired = {}
  /\ overlap = {}
  /\ skipped = {}
  /\ setBack = FALSE

(* Time passes: a minute or a night's sleep, as the case may be. *)
ClockMoves ==
  /\ \E later \in [day : now.day .. LastDay, time : TimesOfDay] :
       Before(now, later) /\ now' = later
  /\ UNCHANGED <<fireTime, nextFire, firing, fire, tick, tickNext, fired, overlap, skipped, setBack>>

(* The clock ran ahead and is corrected; bound: once. *)
ClockIsSetBack ==
  /\ ~setBack
  /\ \E earlier \in [day : 0 .. now.day, time : TimesOfDay] :
       Before(earlier, now) /\ now' = earlier
  /\ setBack' = TRUE
  /\ UNCHANGED <<fireTime, nextFire, firing, fire, tick, tickNext, fired, overlap, skipped>>

(* A settings save, whether or not it changes LOG_TIME. *)
SetFireTimeOnly(f) ==
  /\ fireTime' = f
  /\ UNCHANGED <<now, nextFire, firing, fire, tick, tickNext, fired, overlap, skipped, setBack>>
SetFireTime(f) ==
  /\ fireTime' = f
  /\ nextFire' = ComputeNextFire(f)
  /\ skipped' = IF AtOrAfter(now, nextFire) /\ nextFire \notin fired
                  THEN skipped \cup {nextFire}
                  ELSE skipped
  /\ UNCHANGED <<now, firing, fire, tick, tickNext, fired, overlap, setBack>>

(* Tick reads _nextFire under the lock, and decides without it. *)
TickReads ==
  /\ tick = "idle"
  /\ tick' = "seen"
  /\ tickNext' = nextFire
  /\ overlap' = IF fire = "idle" THEN overlap ELSE overlap \cup {nextFire}
  /\ UNCHANGED <<now, fireTime, nextFire, firing, fire, fired, skipped, setBack>>

TickFires ==
  /\ tick = "seen"
  /\ AtOrAfter(now, tickNext)
  /\ ~firing
  /\ firing' = TRUE
  /\ fire' = "running"
  /\ fired' = fired \cup {tickNext}
  /\ tick' = "idle"
  /\ tickNext' = Never
  /\ UNCHANGED <<now, fireTime, nextFire, overlap, skipped, setBack>>

TickReturns ==
  /\ tick = "seen"
  /\ Before(now, tickNext) \/ firing
  /\ tick' = "idle"
  /\ tickNext' = Never
  /\ UNCHANGED <<now, fireTime, nextFire, firing, fire, fired, overlap, skipped, setBack>>

(* _onFire returned or threw: the finally block re-arms, then clears       *)
(* _firing.                                                                *)
FireReturns ==
  /\ fire = "running"
  /\ fire' = "rearmed"
  /\ UNCHANGED <<now, fireTime, nextFire, firing, tick, tickNext, fired, overlap, skipped, setBack>>
FireRearms ==
  /\ fire = "running"
  /\ nextFire' = ComputeNextFire(fireTime)
  /\ fire' = "rearmed"
  /\ skipped' = IF AtOrAfter(now, nextFire) /\ nextFire \notin fired
                  THEN skipped \cup {nextFire}
                  ELSE skipped
  /\ UNCHANGED <<now, fireTime, firing, tick, tickNext, fired, overlap, setBack>>

FireEndsBusy ==
  /\ fire = "rearmed"
  /\ fire' = "idle"
  /\ UNCHANGED <<now, fireTime, nextFire, firing, tick, tickNext, fired, overlap, skipped, setBack>>
FireEnds ==
  /\ fire = "rearmed"
  /\ firing' = FALSE
  /\ fire' = "idle"
  /\ UNCHANGED <<now, fireTime, nextFire, tick, tickNext, fired, overlap, skipped, setBack>>

TimerStep == TickReads \/ TickFires \/ TickReturns
FireStep == FireRearms \/ FireEnds

Next ==
  \/ ClockMoves
  \/ ClockIsSetBack
  \/ \E f \in FireTimes : SetFireTime(f)
  \/ TimerStep
  \/ FireStep

(* The timer polls for ever and a fire comes to its end.  A tick that has  *)
(* seen the target fires it sooner or later: the two outcomes of a tick    *)
(* are one callback.                                                       *)
Spec == Init /\ [][Next]_vars /\ WF_vars(TimerStep) /\ WF_vars(FireStep)

-----------------------------------------------------------------------------
(* _nextFire is always an occurrence of the _fireTime in force, though     *)
(* SetFireTime and a fire's finally block race to write it.                *)
NextFireIsCurrent == nextFire.time = fireTime

(* The next fire is never more than a day away, unless the clock has been  *)
(* set back under it: no settings save, long fire or sleep puts it off.    *)
WithinADay == setBack \/ AtOrAfter(NextDay(now), nextFire)

(* No target is fired for twice, whatever SetFireTime does between the     *)
(* poll that sees it, the fire it starts and the re-arm at the end, unless *)
(* a tick had read it while an earlier fire was still running: Tick reads  *)
(* _nextFire before it tries _firing, so a fire that ends in between does  *)
(* not stop it.  A clock set back shows the same target again.             *)
TwiceOnlyIfReadDuringFire ==
  [][tick = "seen" /\ firing' /\ ~firing => tickNext \notin fired \/ tickNext \in overlap \/ setBack]_vars

(* A target that has come due is fired for, unless a re-arm stepped over   *)
(* it or the clock is set back before it.                                  *)
DueFiresUnlessSkipped ==
  \A d \in 0 .. LastDay, f \in FireTimes :
    LET target == [day |-> d, time |-> f]
    IN  (nextFire = target /\ AtOrAfter(now, target))
          ~> (target \in fired \cup skipped \/ setBack)

(* "It polls every minute and fires the first tick at or after the target  *)
(* time.  A late wake therefore still fires within ~1 minute."             *)
DueFires ==
  \A d \in 0 .. LastDay, f \in FireTimes :
    LET target == [day |-> d, time |-> f]
    IN  (nextFire = target /\ AtOrAfter(now, target)) ~> (target \in fired \/ setBack)
=============================================================================
