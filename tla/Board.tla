-------------------------------- MODULE Board --------------------------------
(***************************************************************************)
(* What the task board promises of each ticket: it is in one place at a    *)
(* time, it goes from place to place only along the board's moves, a       *)
(* dismissed one comes back where it was taken from, and none is dropped   *)
(* but one whose move was interrupted.                                     *)
(***************************************************************************)
CONSTANT Tickets

VARIABLES
  where,    \* the place of each ticket
  from,     \* for a dismissed ticket, the list it was taken from
  mislaid   \* tickets whose move was interrupted

vars == <<where, from, mislaid>>

Lists == {"New", "InProgress", "Done"}
Places == Lists \cup {"Nowhere", "Dismissed"}

TypeOK ==
  /\ where \in [Tickets -> Places]
  /\ from \in [Tickets -> Lists \cup {"Nowhere"}]
  /\ mislaid \subseteq Tickets

Init ==
  /\ where = [t \in Tickets |-> "Nowhere"]
  /\ from = [t \in Tickets |-> "Nowhere"]
  /\ mislaid = {}

Goes(t, a, b) == where[t] = a /\ where'[t] = b

Stay(t)     == where'[t] = where[t] /\ from'[t] = from[t]
Arrive(t)   == Goes(t, "Nowhere", "New")
Start(t)    == Goes(t, "New", "InProgress")
MarkDone(t) == Goes(t, "InProgress", "Done")
Reopen(t)   == Goes(t, "Done", "InProgress")
Dismiss(t)  == where[t] \in Lists /\ where'[t] = "Dismissed" /\ from'[t] = where[t]
Restore(t)  == Goes(t, "Dismissed", from[t])
Drop(t)     == where'[t] = "Nowhere" /\ t \in mislaid'

(* One step may move several tickets, each along one of the moves. *)
Next ==
  /\ mislaid \subseteq mislaid'
  /\ \A t \in Tickets :
       \/ Stay(t) \/ Arrive(t) \/ Start(t) \/ MarkDone(t)
       \/ Reopen(t) \/ Dismiss(t) \/ Restore(t) \/ Drop(t)

Spec == Init /\ [][Next]_vars
=============================================================================
