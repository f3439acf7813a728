------------------------------- MODULE DayEntry -------------------------------
(***************************************************************************)
(* One date's entry in queue.json, and the composer on the Work page that  *)
(* fills it: tickets typed in a box, an hours field per ticket, the queue  *)
(* button, and everything that takes tickets out again.                    *)
(*                                                                         *)
(* "Custom" hours are a list of minutes, one per ticket.  The empty list   *)
(* stands for the code's null: the day is split evenly.  An entry without  *)
(* tickets stands for no entry: the code keeps none.                       *)
(*                                                                         *)
(* Every operation is one step here; QueueDrain has their interleavings.   *)
(***************************************************************************)
EXTENDS TimeSlots, TicketLists, SequencesExt

CONSTANTS
  Tickets,       \* ticket keys
  HoursChoices,  \* the minutes an hours field may come to
  MaxTyped       \* bound: tickets typed at a time

ASSUME DayEntryAssumption ==
  /\ HoursChoices \subseteq Nat
  /\ MaxTyped \in Nat

Even == <<>>
NoEntry == [tickets |-> <<>>, minutes |-> Even]

VARIABLES
  entry,         \* the date's entry in the file
  box,           \* the tickets of _tickets.Text
  typedMinutes   \* _typedMinutes

vars == <<entry, box, typedMinutes>>

(* TicketParser.Parse drops a repeated ticket. *)
Typed == {s \in SeqOf(Tickets, MaxTyped) : IsInjective(s)}

Sum(minutes) == Offset(minutes, Len(minutes))
AllPositive(minutes) == \A i \in DOMAIN minutes : minutes[i] > 0

-----------------------------------------------------------------------------
(* TicketQueue on one entry. *)

(* The minutes a read accepts, or none: one positive number per ticket, no *)
(* more than a full day.                                                   *)
ReadMinutes(minutes, count) ==
  IF /\ Len(minutes) = count
     /\ AllPositive(minutes)
     /\ Sum(minutes) <= TotalWorkMinutes
    THEN minutes ELSE Even

Read(e) == [e EXCEPT !.minutes = ReadMinutes(@, Len(e.tickets))]

DayMinutes(e) == IF e.minutes = Even THEN TotalWorkMinutes ELSE Sum(e.minutes)

(* The minutes each ticket of an entry will be logged with. *)
Minutes(e) == IF e.minutes = Even THEN EvenSplit(Len(e.tickets)) ELSE e.minutes

(* Appends what is not there yet.  If either side has custom minutes, both *)
(* sides get concrete ones.                                                *)
MergeKeepingEven(e, new, newMinutes) ==
  LET fresh == Positions(Len(new), {i \in DOMAIN new : new[i] \notin Range(e.tickets)})
  IN  [tickets |-> e.tickets \o At(new, fresh),
       minutes |-> IF e.minutes = Even /\ newMinutes = Even THEN Even
                   ELSE e.minutes \o At(newMinutes, fresh)]
MergeInto(e, new, newMinutes) ==
  LET fresh == Positions(Len(new), {i \in DOMAIN new : new[i] \notin Range(e.tickets)})
      mins == IF newMinutes = Even THEN EvenSplit(Len(new)) ELSE newMinutes
  IN  [tickets |-> e.tickets \o At(new, fresh),
       minutes |-> IF e.minutes = Even /\ newMinutes = Even THEN Even
                   ELSE Minutes(e) \o At(mins, fresh)]

(* The entry without the tickets of drop, each survivor with its minutes. *)
WithoutInStep(e, drop) ==
  LET keep == Positions(Len(e.tickets), {i \in DOMAIN e.tickets : e.tickets[i] \notin drop})
  IN  [tickets |-> At(e.tickets, keep),
       minutes |-> SubSeq(e.minutes, 1, IF e.minutes = Even THEN 0 ELSE Len(keep))]
Without(e, drop) ==
  LET keep == Positions(Len(e.tickets), {i \in DOMAIN e.tickets : e.tickets[i] \notin drop})
  IN  [tickets |-> At(e.tickets, keep),
       minutes |-> IF e.minutes = Even THEN Even ELSE At(e.minutes, keep)]

-----------------------------------------------------------------------------
Init ==
  /\ entry = NoEntry
  /\ box = <<>>
  /\ typedMinutes = Even

(* _tickets.TextChanged: whatever hours were edited are forgotten. *)
TypeTickets(s) ==
  /\ box' = s
  /\ typedMinutes' = Even
  /\ UNCHANGED entry

(* TypedMinutes, and TypedMinutesFor: the edited hours if there is one per *)
(* ticket; else the even split, or null.                                   *)
TypedMinutes ==
  IF Len(typedMinutes) = Len(box) THEN typedMinutes ELSE EvenSplit(Len(box))
TypedMinutesFor == IF Len(typedMinutes) = Len(box) THEN typedMinutes ELSE Even

OnHoursChanged(i, m) ==
  /\ i \in DOMAIN box
  /\ typedMinutes' = [TypedMinutes EXCEPT ![i] = m]
  /\ UNCHANGED <<entry, box>>

(* What OnQueue would save.  The button is disabled under the same two     *)
(* conditions as OnQueue refuses.                                          *)
Projected ==
  LET current == Read(entry)
  IN  IF current.tickets = <<>>
        THEN [tickets |-> box, minutes |-> TypedMinutesFor]
        ELSE MergeInto(current, box, TypedMinutesFor)

HoursOk == AllPositive(TypedMinutes) /\ Sum(TypedMinutes) <= TotalWorkMinutes

OnQueueUnchecked ==
  /\ box # <<>>
  /\ HoursOk
  /\ entry' = Projected
  /\ box' = <<>>
  /\ typedMinutes' = Even
OnQueue ==
  /\ box # <<>>
  /\ HoursOk
  /\ DayMinutes(Projected) <= TotalWorkMinutes
  /\ entry' = Projected
  /\ box' = <<>>
  /\ typedMinutes' = Even

(* AddStartedTicket.  Without an entry the day must not have been written. *)
AddStartedTicket(t) ==
  LET current == Read(entry)
  IN  /\ t \notin Range(current.tickets)
      /\ current.minutes = Even
      /\ entry' = IF current.tickets = <<>>
                    THEN [tickets |-> <<t>>, minutes |-> Even]
                    ELSE MergeInto(current, <<t>>, Even)
      /\ UNCHANGED <<box, typedMinutes>>

(* RemoveLogged: the drain takes out what it logged, the row [X] one       *)
(* ticket, "Log OFF" the whole day.                                        *)
RemoveLogged(drop) ==
  /\ entry' = Without(Read(entry), drop)
  /\ UNCHANGED <<box, typedMinutes>>

OnClearQueue ==
  /\ entry # NoEntry
  /\ entry' = NoEntry
  /\ UNCHANGED <<box, typedMinutes>>

Next ==
  \/ \E s \in Typed : TypeTickets(s)
  \/ \E i \in 1 .. MaxTyped, m \in HoursChoices : OnHoursChanged(i, m)
  \/ OnQueue
  \/ \E t \in Tickets : AddStartedTicket(t)
  \/ \E drop \in SUBSET Tickets : RemoveLogged(drop)
  \/ OnClearQueue

Spec == Init /\ [][Next]_vars

-----------------------------------------------------------------------------
(* What is saved is what will be read: the sanitizing read never meets     *)
(* minutes it has to throw away, which would silently turn a custom day    *)
(* into a full one; and no ticket is listed twice.                         *)
ReadsBack == Read(entry) = entry /\ IsInjective(entry.tickets)

(* The hours of a ticket that stays queued do not change under other       *)
(* tickets coming and going, unless the day is split evenly: a merge that  *)
(* turns an even day into a custom one freezes the shares as they were.    *)
HoursStick ==
  [][\A i \in DOMAIN entry.tickets, j \in DOMAIN entry'.tickets :
       entry.tickets[i] = entry'.tickets[j] /\ entry'.minutes # Even
         => Minutes(entry')[j] = Minutes(entry)[i]]_vars

(* The day's HRM entries follow one another inside the working day and     *)
(* never touch lunch, so no two of them overlap; an even day ends at 18:00.*)
SlotsInOrder ==
  LET slots == [i \in DOMAIN entry.tickets |-> Get(Minutes(entry), i)]
      last == Last(slots)
  IN  /\ \A i \in DOMAIN slots : \A k \in DOMAIN slots[i] :
           /\ InWorkday(slots[i][k]) /\ ClearOfLunch(slots[i][k])
           /\ \A j \in DOMAIN slots : \A m \in DOMAIN slots[j] :
                i < j \/ (i = j /\ k < m) => slots[i][k].end <= slots[j][m].start
      /\ slots # <<>> /\ entry.minutes = Even => Last(last).end = AfternoonEnd

(* The slots of a ticket are as long as its hours: to the minute, and with  *)
(* no slot of no length, where all hours are multiples of five minutes;    *)
(* otherwise the rounding takes or gives no more than four.                *)
BookedAsTyped ==
  LET onTheGrid == \A i \in DOMAIN entry.tickets : Minutes(entry)[i] % 5 = 0
  IN  \A i \in DOMAIN entry.tickets :
        LET slots == Get(Minutes(entry), i)
        IN  /\ Booked(slots) - Minutes(entry)[i] \in IF onTheGrid THEN {0} ELSE -4 .. 4
            /\ onTheGrid => \A k \in DOMAIN slots : Length(slots[k]) > 0
=============================================================================
