------------------------------ MODULE TimeSlots ------------------------------
(***************************************************************************)
(* A day's tickets laid out on the clock.  An offset counts work minutes   *)
(* from 09:00; a clock time counts minutes from midnight.                  *)
(***************************************************************************)
EXTENDS Integers, Sequences

MorningStart == 540
MorningEnd == 720
AfternoonStart == 780
AfternoonEnd == 1080
MorningMinutes == MorningEnd - MorningStart
TotalWorkMinutes == MorningMinutes + (AfternoonEnd - AfternoonStart)

(* The nearest multiple of 5; an integer is never halfway between two. *)
RoundTo5(clock) == 5 * ((clock + 2) \div 5)

EvenSplit(n) ==
  LET per == TotalWorkMinutes \div n
  IN  [i \in 1 .. n |-> IF i = n THEN TotalWorkMinutes - per * (n - 1) ELSE per]

Slot(startClock, endClock) ==
  [start |-> RoundTo5(startClock), end |-> RoundTo5(endClock)]

(* The work minutes [a, b) as one slot, or two around lunch.  The boundary *)
(* reads as 12:00 at the end of a slot and as 13:00 at its start.          *)
SegmentsThroughLunch(a, b) ==
  IF b <= MorningMinutes THEN << Slot(MorningStart + a, MorningStart + b) >>
  ELSE IF a >= MorningMinutes
    THEN << Slot(AfternoonStart + (a - MorningMinutes), AfternoonStart + (b - MorningMinutes)) >>
    ELSE << Slot(MorningStart + a, AfternoonStart + (b - MorningMinutes)) >>
SegmentsForNoonInMorning(a, b) ==
  IF b <= MorningMinutes THEN << Slot(MorningStart + a, MorningStart + b) >>
  ELSE IF a > MorningMinutes
    THEN << Slot(AfternoonStart + (a - MorningMinutes), AfternoonStart + (b - MorningMinutes)) >>
    ELSE << Slot(MorningStart + a, MorningEnd),
            Slot(AfternoonStart, AfternoonStart + (b - MorningMinutes)) >>
SegmentsFor(a, b) ==
  IF b <= MorningMinutes THEN << Slot(MorningStart + a, MorningStart + b) >>
  ELSE IF a >= MorningMinutes
    THEN << Slot(AfternoonStart + (a - MorningMinutes), AfternoonStart + (b - MorningMinutes)) >>
    ELSE << Slot(MorningStart + a, MorningEnd),
            Slot(AfternoonStart, AfternoonStart + (b - MorningMinutes)) >>

(* The work minutes of the first n tickets. *)
Offset(minutes, n) ==
  LET upTo[k \in 0 .. n] == IF k = 0 THEN 0 ELSE upTo[k - 1] + minutes[k]
  IN  upTo[n]

(* The slots of the i-th ticket. *)
Get(minutes, i) == SegmentsFor(Offset(minutes, i - 1), Offset(minutes, i))

-----------------------------------------------------------------------------
ClearOfLunch(s) == s.end <= MorningEnd \/ s.start >= AfternoonStart
InWorkday(s) == MorningStart <= s.start /\ s.start <= s.end /\ s.end <= AfternoonEnd
Length(s) == s.end - s.start

(* All the minutes a ticket's slots add up to. *)
Booked(slots) == Offset([k \in DOMAIN slots |-> Length(slots[k])], Len(slots))
=============================================================================
