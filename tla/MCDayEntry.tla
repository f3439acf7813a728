------------------------------ MODULE MCDayEntry ------------------------------
(* Hours on the five-minute grid and beside it, ending one minute into the *)
(* afternoon, ending at noon, or nought.                             *)
EXTENDS DayEntry

HoursOnAndOffTheGrid == {0, 3, 60, 180, 181}
Symmetric == Permutations(Tickets)
=============================================================================
